----------------------------- MODULE MCProcess -----------------------------
(* Process with two nodes: a peer that hands out one pid and a node, the    *)
(* one that is watched, that hands out four.                                *)
EXTENDS Process

CONSTANTS a, b

Nodes == {a, b}
Pids == [n \in Nodes |-> IF n = a THEN 1 ELSE 4]

\* The properties speak of a node until it has raced, and raced only grows:
\* not following b any further loses nothing that they say about b.
WatchB == b \notin raced
=============================================================================
