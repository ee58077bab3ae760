----------------------------- MODULE BoundedFifo -----------------------------
(***************************************************************************)
(* What a bounded queue between one producer and one consumer promises: a   *)
(* push appends a block as a whole, a pop takes a prefix as a whole, and    *)
(* the queue never holds more than Capacity samples.                        *)
(***************************************************************************)
EXTENDS Naturals, Sequences

CONSTANTS Capacity, Samples

VARIABLES
  queue,     \* samples pushed and not yet popped, oldest first
  popped     \* what the last pop returned

fifoVars == <<queue, popped>>

Init == queue = <<>> /\ popped = <<>>

Push ==
  \E count \in 1 .. Capacity - Len(queue) : \E block \in [1 .. count -> Samples] :
    queue' = queue \o block /\ UNCHANGED popped

Pop ==
  \E count \in 1 .. Len(queue) :
    /\ popped' = SubSeq(queue, 1, count)
    /\ queue' = SubSeq(queue, count + 1, Len(queue))

Clear == queue' = <<>> /\ UNCHANGED popped

Next == Push \/ Pop \/ Clear

Spec == Init /\ [][Next]_fifoVars
=============================================================================
