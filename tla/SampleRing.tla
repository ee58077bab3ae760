------------------------------ MODULE SampleRing ------------------------------
(***************************************************************************)
(* FloatSpscRing of src/src/audio/sample_ring.cpp: a ring of samples shared *)
(* without a lock by one thread that pushes and one that pops.  Each side   *)
(* loads the other's position once, copies sample by sample, and publishes  *)
(* its own position with one store; the two sides interleave between any    *)
(* two of these steps.  The release stores and acquire loads of the code    *)
(* order the copies and the positions, so steps are sequentially ordered.   *)
(*                                                                         *)
(* Positions only grow, as the 64-bit counters of the code do in any run    *)
(* shorter than 2^64 samples; MaxPosition bounds them for TLC.              *)
(***************************************************************************)
EXTENDS Integers, Sequences, FiniteSetsExt

CONSTANTS
  Capacity,      \* capacity_
  Samples,       \* the values of a sample
  Silence,       \* 0.0, what the storage starts with
  MaxBlock,      \* bound: samples of one push or pop
  MaxPosition    \* bound: samples pushed between two resets

ASSUME RingAssumption ==
  /\ Capacity \in Nat \ {0}
  /\ MaxBlock \in Nat \ {0}
  /\ MaxPosition \in Nat
  /\ Silence \in Samples

VARIABLES
  storage, writePosition, readPosition,
  pushing,    \* the part of the block that push() accepted, <<>> outside of push()
  copied,     \* how much of it is in the storage
  popping,    \* the samples pop() takes, 0 outside of pop()
  out,        \* what it has copied out
  popped      \* what the last pop() returned

producerVars == <<pushing, copied>>
consumerVars == <<popping, out, popped>>
vars == <<storage, writePosition, readPosition, producerVars, consumerVars>>

Slots == 0 .. Capacity - 1

TypeOK ==
  /\ storage \in [Slots -> Samples]
  /\ writePosition \in Nat /\ readPosition \in Nat
  /\ pushing \in Seq(Samples) /\ copied \in 0 .. Len(pushing)
  /\ popping \in 0 .. Capacity
  /\ out \in Seq(Samples) /\ Len(out) <= popping
  /\ popped \in Seq(Samples)

(* The slot of the sample `index` places after `position`: the copies of the *)
(* code go up to the end of the storage and go on at its start.             *)
Slot(position, index) ==
  LET offset == position % Capacity IN
  IF offset + index < Capacity THEN offset + index ELSE offset + index - Capacity

boundedDistance == Min({writePosition - readPosition, Capacity})

Init ==
  /\ storage = [slot \in Slots |-> Silence]
  /\ writePosition = 0 /\ readPosition = 0
  /\ pushing = <<>> /\ copied = 0
  /\ popping = 0 /\ out = <<>> /\ popped = <<>>

-----------------------------------------------------------------------------
(* The producer.                                                            *)

(* A ring that takes one sample more than it has room for.                  *)
OneTooMany == Capacity + 1 - boundedDistance

availableWrite == Capacity - boundedDistance

(* Loads the positions and accepts what fits; a full ring returns 0.        *)
PushLoad ==
  /\ pushing = <<>>
  /\ \E size \in 1 .. MaxBlock :
       LET count == Min({size, availableWrite}) IN
       /\ count > 0
       /\ writePosition + count <= MaxPosition
       /\ pushing' \in [1 .. count -> Samples]
  /\ copied' = 0
  /\ UNCHANGED <<storage, writePosition, readPosition, consumerVars>>

PushCopy ==
  /\ copied < Len(pushing)
  /\ storage' = [storage EXCEPT ![Slot(writePosition, copied)] = pushing[copied + 1]]
  /\ copied' = copied + 1
  /\ UNCHANGED <<writePosition, readPosition, pushing, consumerVars>>

PushPublish ==
  /\ pushing # <<>> /\ copied = Len(pushing)
  /\ writePosition' = writePosition + Len(pushing)
  /\ pushing' = <<>> /\ copied' = 0
  /\ UNCHANGED <<storage, readPosition, consumerVars>>

-----------------------------------------------------------------------------
(* The consumer.                                                            *)

(* A pop that takes as much as it was asked for, whatever there is.          *)
PopWhatIsAsked ==
  /\ popping = 0
  /\ popping' \in 1 .. MaxBlock
  /\ UNCHANGED <<storage, writePosition, readPosition, producerVars, out, popped>>

PopLoad ==
  /\ popping = 0
  /\ \E size \in 1 .. MaxBlock : popping' = Min({size, boundedDistance})
  /\ popping' > 0
  /\ UNCHANGED <<storage, writePosition, readPosition, producerVars, out, popped>>

PopCopy ==
  /\ Len(out) < popping
  /\ out' = Append(out, storage[Slot(readPosition, Len(out))])
  /\ UNCHANGED <<storage, writePosition, readPosition, producerVars, popping, popped>>

PopPublish ==
  /\ popping > 0 /\ Len(out) = popping
  /\ readPosition' = readPosition + popping
  /\ popped' = out
  /\ popping' = 0 /\ out' = <<>>
  /\ UNCHANGED <<storage, writePosition, producerVars>>

(* AudioStream::resetRings() calls it while the device is stopped, from the  *)
(* only other thread that touches the ring.                                 *)
reset ==
  /\ pushing = <<>> /\ popping = 0
  /\ writePosition' = 0 /\ readPosition' = 0
  /\ UNCHANGED <<storage, producerVars, consumerVars>>

Next ==
  \/ PushLoad \/ PushCopy \/ PushPublish
  \/ PopLoad \/ PopCopy \/ PopPublish
  \/ reset

Spec == Init /\ [][Next]_vars

-----------------------------------------------------------------------------
(* The samples pushed and not yet popped, as they lie in the storage.        *)
Contents ==
  [i \in 1 .. writePosition - readPosition |-> storage[Slot(readPosition, i - 1)]]

Fifo == INSTANCE BoundedFifo WITH queue <- Contents

(* However the two sides interleave, every sample that is popped is the       *)
(* oldest one pushed and not yet popped, complete, and none is overwritten    *)
(* before it is popped.                                                     *)
IsFifo == Fifo!Spec
=============================================================================
