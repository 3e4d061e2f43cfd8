----------------------------- MODULE MCNetwork -----------------------------
(* Network with two hosts, of which one asks for our address and sends      *)
(* datagrams and the other answers a request for its own.                   *)
EXTENDS Network

CONSTANTS h1, h2

HostSet == {h1, h2}
PeerSet == {h1}
ArrivalSet == {[type |-> "request", from |-> h1, dst |-> "us", port |-> "unbound"],
               [type |-> "reply", from |-> h2, dst |-> "us", port |-> "unbound"],
               [type |-> "udp", from |-> h1, dst |-> "us", port |-> "cluster"]}

\* Once two packets have been mixed the properties of the transmit ring say
\* nothing any more, and raced stays TRUE.
NotRaced == ~raced
=============================================================================
