----------------------------- MODULE Allocator -----------------------------
(***************************************************************************)
(* What a memory allocator promises its callers: a region it hands out     *)
(* lies within the memory it manages and shares nothing with a region that *)
(* is still held, and only its holder's release takes it away.             *)
(***************************************************************************)
EXTENDS Integers

CONSTANTS
    Limit,     \* the size of the managed memory, a natural number
    Lengths    \* what callers may ask for, positive numbers

VARIABLE held      \* the regions that callers hold

Managed == 0 .. Limit - 1

Occupies(r) == r.at .. r.at + r.len - 1

Init == held = {}

Allocate ==
    \E at \in Managed, len \in Lengths :
        LET r == [at |-> at, len |-> len]
        IN  /\ Occupies(r) \subseteq Managed
            /\ \A q \in held : Occupies(q) \cap Occupies(r) = {}
            /\ held' = held \cup {r}

Release == \E r \in held : held' = held \ {r}

Next == Allocate \/ Release

Spec == Init /\ [][Next]_held
=============================================================================
