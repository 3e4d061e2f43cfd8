----------------------------- MODULE MCCluster -----------------------------
(* Cluster with one host more than there are entries *)
EXTENDS Cluster

CONSTANTS h1, h2, h3

HostSet == {h1, h2, h3}

\* After a race peer_count may run away; it is followed up to the number of
\* entries.
CountBounded == peer_count <= MaxNodes
=============================================================================
