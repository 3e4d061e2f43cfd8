------------------------------ MODULE MCDJob ------------------------------
(* DJob for TLC: the peers are interchangeable.                            *)
EXTENDS DJob, TLC

Symmetry == Permutations(Peers)
=============================================================================
