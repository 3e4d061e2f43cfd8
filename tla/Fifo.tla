-------------------------------- MODULE Fifo --------------------------------
(***************************************************************************)
(* What a receive ring promises to its reader: a queue of bounded length,  *)
(* from which the reader gets every accepted item once and in order.  What *)
(* arrives while the queue is full is lost before it gets here.            *)
(***************************************************************************)
EXTENDS Naturals, Sequences

CONSTANTS
    Items,       \* what can arrive
    Nothing,     \* what the reader has before the first item
    Capacity     \* how many items may wait, a natural number

VARIABLES
    queue,       \* the waiting items, oldest first
    last         \* the item that the reader took last

vars == <<queue, last>>

Init == queue = <<>> /\ last = Nothing

Put(item) ==
    /\ Len(queue) < Capacity
    /\ queue' = Append(queue, item)
    /\ last' = last

Get ==
    /\ queue # <<>>
    /\ last' = Head(queue)
    /\ queue' = Tail(queue)

Next == Get \/ \E item \in Items : Put(item)

Spec == Init /\ [][Next]_vars

\* The reader keeps reading.
FairSpec == Spec /\ WF_vars(Get)
=============================================================================
