--------------------------- MODULE SampleRingProofs ---------------------------
(***************************************************************************)
(* The ring implements BoundedFifo for every capacity, every set of sample   *)
(* values, every block size and however far the positions go.               *)
(***************************************************************************)
EXTENDS SampleRing, TLAPS

-----------------------------------------------------------------------------
(* Arithmetic of slots.                                                     *)

(* What % and \div return.                                                  *)
LEMMA DivMod ==
  ASSUME NEW p \in Nat
  PROVE  /\ p \div Capacity \in Int
         /\ p % Capacity \in 0 .. Capacity - 1
         /\ p % Capacity = p - Capacity * (p \div Capacity)
<1>1. p \div Capacity \in Int
  BY RingAssumption
<1>2. p % Capacity \in 0 .. Capacity - 1
  BY RingAssumption
<1>3. p % Capacity = p - Capacity * (p \div Capacity)
  BY RingAssumption, Z3
<1> QED
  BY <1>1, <1>2, <1>3

(* A multiple of the capacity that is less than one capacity above zero and   *)
(* less than two below.                                                     *)
LEMMA NearMultiple ==
  ASSUME NEW k \in Int, Capacity * k > -2 * Capacity, Capacity * k < Capacity
  PROVE  Capacity * k = 0 \/ Capacity * k = -Capacity
<1>1. k >= 1 => Capacity * k >= Capacity
  BY RingAssumption
<1>2. k <= -2 => Capacity * k <= -2 * Capacity
  BY RingAssumption
<1>3. k = 0 => Capacity * k = 0
  BY RingAssumption
<1>4. k = -1 => Capacity * k = -Capacity
  BY RingAssumption
<1>5. k = 0 \/ k = -1
  BY <1>1, <1>2, RingAssumption
<1> QED
  BY <1>3, <1>4, <1>5

(* The slot u places on.                                                    *)
LEMMA SlotOfSum ==
  ASSUME NEW p \in Nat, NEW u \in 0 .. Capacity - 1
  PROVE  (p + u) % Capacity = Slot(p, u)
<1> DEFINE n == p + u
<1>0. Capacity \in Nat /\ Capacity > 0
  BY RingAssumption
<1>1. n \in Nat
  BY <1>0
<1> HIDE DEF n
<1> DEFINE q == p \div Capacity
           r == p % Capacity
           q2 == n \div Capacity
           r2 == n % Capacity
<1>2. q \in Int /\ r \in 0 .. Capacity - 1 /\ r = p - Capacity * q
  BY DivMod
<1>3. q2 \in Int /\ r2 \in 0 .. Capacity - 1 /\ r2 = n - Capacity * q2
  BY <1>1, DivMod
<1> HIDE DEF q, r, q2, r2
<1>4. Capacity * (q - q2) = Capacity * q - Capacity * q2
  BY <1>2, <1>3, <1>0
<1>5. Capacity * (q - q2) = r2 - r - u
  BY <1>1, <1>2, <1>3, <1>4, <1>0 DEF n
<1>6. Capacity * (q - q2) = 0 \/ Capacity * (q - q2) = -Capacity
  BY <1>2, <1>3, <1>5, NearMultiple, <1>0
<1>7. r2 = r + u \/ r2 = r + u - Capacity
  <2>1. r2 - r - u = 0 \/ r2 - r - u = -Capacity
    BY <1>5, <1>6
  <2> QED
    BY <1>0, <1>2, <1>3, <2>1
<1>8. r2 = IF r + u < Capacity THEN r + u ELSE r + u - Capacity
  BY <1>2, <1>3, <1>7, <1>0
<1>9. n % Capacity = Slot(p, u)
  BY <1>8 DEF r, r2, Slot
<1> QED
  BY <1>9 DEF n

(* Slots of one lap are slots, and no two of them are the same.              *)
LEMMA SlotsOfLap ==
  ASSUME NEW p \in Nat, NEW i \in 0 .. Capacity - 1
  PROVE  /\ Slot(p, i) \in Slots
         /\ \A j \in 0 .. Capacity - 1 : Slot(p, i) = Slot(p, j) => i = j
<1>1. p % Capacity \in 0 .. Capacity - 1
  BY DivMod
<1> QED
  BY <1>1, RingAssumption DEF Slot, Slots

(* Slots seen from a position further on.                                   *)
LEMMA SlotShift ==
  ASSUME NEW p \in Nat, NEW u \in Nat, NEW k \in Nat, u + k < Capacity
  PROVE  Slot(p + u, k) = Slot(p, u + k)
<1>1. p % Capacity \in 0 .. Capacity - 1
  BY DivMod
<1>2. (p + u) % Capacity = Slot(p, u)
  BY SlotOfSum, RingAssumption
<1> QED
  BY <1>1, <1>2, RingAssumption DEF Slot

-----------------------------------------------------------------------------
(* The inductive invariant.                                                 *)

(* What Min returns for two numbers.                                        *)
LEMMA MinOfTwo ==
  ASSUME NEW a \in Nat, NEW b \in Nat
  PROVE  /\ Min({a, b}) \in {a, b}
         /\ Min({a, b}) <= a /\ Min({a, b}) <= b
<1>1. \E x \in {a, b} : \A y \in {a, b} : x <= y
  BY SMT
<1> QED
  BY <1>1 DEF Min

used == writePosition - readPosition

(* What is pushed fits, what is popped is there.                            *)
PositionInv ==
  /\ used \in Nat
  /\ used + Len(pushing) <= Capacity
  /\ popping <= used

(* What either side has copied so far.                                      *)
CopyInv ==
  /\ \A i \in 1 .. copied : storage[Slot(writePosition, i - 1)] = pushing[i]
  /\ \A i \in 1 .. Len(out) : out[i] = storage[Slot(readPosition, i - 1)]

IInv == TypeOK /\ PositionInv /\ CopyInv

(* An empty ring.                                                           *)
LEMMA InvInit == Init => IInv
BY RingAssumption DEF Init, IInv, TypeOK, PositionInv, CopyInv, used

(* Inside of the invariant the distance needs no bound.                      *)
LEMMA DistanceIsUsed == ASSUME TypeOK, PositionInv PROVE boundedDistance = used
<1>1. used \in Nat /\ used <= Capacity /\ Capacity \in Nat
  BY RingAssumption DEF TypeOK, PositionInv
<1> QED
  BY <1>1, MinOfTwo DEF boundedDistance, used

(* A push accepts no more than there is room for.                           *)
LEMMA PushLoadInv == ASSUME IInv, PushLoad PROVE IInv'
<1>1. boundedDistance = used /\ used \in Nat /\ used <= Capacity
  BY DistanceIsUsed, RingAssumption DEF IInv, PositionInv, TypeOK
<1>2. PICK size \in 1 .. MaxBlock :
        /\ Min({size, availableWrite}) > 0
        /\ pushing' \in [1 .. Min({size, availableWrite}) -> Samples]
  BY DEF PushLoad
<1> DEFINE count == Min({size, availableWrite})
<1>3. count \in Nat /\ count <= Capacity - used
  <2>1. size \in Nat /\ availableWrite \in Nat /\ availableWrite = Capacity - used
    BY <1>1, RingAssumption DEF availableWrite
  <2> QED
    BY <2>1, MinOfTwo
<1>4. pushing' \in [1 .. count -> Samples]
  BY <1>2
<1> HIDE DEF count
<1>5. pushing' \in Seq(Samples) /\ Len(pushing') <= Capacity - used
  BY <1>3, <1>4
<1>6. copied' = 0 /\ UNCHANGED <<storage, writePosition, readPosition, popping, out, popped>>
  BY DEF PushLoad, consumerVars
<1> QED
  BY <1>1, <1>5, <1>6, RingAssumption DEF IInv, TypeOK, PositionInv, CopyInv, used, Slot

(* The slot that is written is neither one already copied nor one that holds  *)
(* a sample not yet popped.                                                 *)
LEMMA PushCopySlot ==
  ASSUME IInv, copied < Len(pushing)
  PROVE  /\ Slot(writePosition, copied) \in Slots
         /\ \A i \in 1 .. copied : Slot(writePosition, i - 1) # Slot(writePosition, copied)
         /\ \A i \in 1 .. used : Slot(readPosition, i - 1) # Slot(writePosition, copied)
<1>1. /\ copied \in Nat /\ used \in Nat /\ used + copied < Capacity
      /\ readPosition \in Nat /\ writePosition \in Nat /\ writePosition = readPosition + used
  BY RingAssumption DEF IInv, TypeOK, PositionInv, used
<1>2. Slot(writePosition, copied) = Slot(readPosition, used + copied)
  BY <1>1, SlotShift
<1>3. copied \in 0 .. Capacity - 1 /\ used + copied \in 0 .. Capacity - 1
  BY <1>1, RingAssumption
<1>4. \A i \in 1 .. copied : Slot(writePosition, i - 1) # Slot(writePosition, copied)
  <2> SUFFICES ASSUME NEW i \in 1 .. copied
               PROVE  Slot(writePosition, i - 1) # Slot(writePosition, copied)
    OBVIOUS
  <2>1. i - 1 \in 0 .. Capacity - 1 /\ i - 1 # copied
    BY <1>1, <1>3, RingAssumption
  <2> QED
    BY <1>1, <1>3, <2>1, SlotsOfLap
<1>5. \A i \in 1 .. used : Slot(readPosition, i - 1) # Slot(readPosition, used + copied)
  <2> SUFFICES ASSUME NEW i \in 1 .. used
               PROVE  Slot(readPosition, i - 1) # Slot(readPosition, used + copied)
    OBVIOUS
  <2>1. i - 1 \in 0 .. Capacity - 1 /\ i - 1 # used + copied
    BY <1>1, RingAssumption
  <2> QED
    BY <1>1, <1>3, <2>1, SlotsOfLap
<1> QED
  BY <1>1, <1>2, <1>3, <1>4, <1>5, SlotsOfLap

(* A copy into the storage disturbs neither side.                           *)
LEMMA PushCopyInv == ASSUME IInv, PushCopy PROVE IInv'
<1> DEFINE s == Slot(writePosition, copied)
<1>1. /\ s \in Slots
      /\ \A i \in 1 .. copied : Slot(writePosition, i - 1) # s
      /\ \A i \in 1 .. used : Slot(readPosition, i - 1) # s
  BY PushCopySlot DEF PushCopy
<1>2. /\ storage' = [storage EXCEPT ![s] = pushing[copied + 1]]
      /\ copied' = copied + 1 /\ copied < Len(pushing)
      /\ UNCHANGED <<writePosition, readPosition, pushing, popping, out, popped>>
  BY DEF PushCopy, consumerVars
<1> HIDE DEF s
<1>3. TypeOK' /\ PositionInv'
  BY <1>1, <1>2 DEF IInv, TypeOK, PositionInv, used
<1>4. \A i \in 1 .. copied' : storage'[Slot(writePosition, i - 1)] = pushing[i]
  <2> SUFFICES ASSUME NEW i \in 1 .. copied + 1
               PROVE  storage'[Slot(writePosition, i - 1)] = pushing[i]
    BY <1>2
  <2>1. CASE i = copied + 1
    <3>1. i - 1 = copied
      BY <2>1 DEF IInv, TypeOK
    <3> QED
      BY <1>1, <1>2, <2>1, <3>1 DEF IInv, TypeOK, s
  <2>2. CASE i \in 1 .. copied
    <3>1. Slot(writePosition, i - 1) # s /\ Slot(writePosition, i - 1) \in Slots
      <4>1. i - 1 \in 0 .. Capacity - 1
        BY <1>2, <2>2, RingAssumption DEF IInv, TypeOK, PositionInv
      <4> QED
        BY <1>1, <2>2, <4>1, SlotsOfLap DEF IInv, TypeOK
    <3> QED
      BY <1>2, <2>2, <3>1 DEF IInv, TypeOK, CopyInv
  <2> QED
    BY <2>1, <2>2 DEF IInv, TypeOK
<1>5. \A i \in 1 .. Len(out) : out[i] = storage'[Slot(readPosition, i - 1)]
  <2> SUFFICES ASSUME NEW i \in 1 .. Len(out)
               PROVE  out[i] = storage'[Slot(readPosition, i - 1)]
    OBVIOUS
  <2>1. i \in 1 .. used /\ i - 1 \in 0 .. Capacity - 1
    BY RingAssumption DEF IInv, TypeOK, PositionInv
  <2>2. Slot(readPosition, i - 1) # s /\ Slot(readPosition, i - 1) \in Slots
    BY <1>1, <2>1, SlotsOfLap DEF IInv, TypeOK
  <2> QED
    BY <1>2, <2>2 DEF IInv, TypeOK, CopyInv
<1> QED
  BY <1>2, <1>3, <1>4, <1>5 DEF IInv, CopyInv, Slot

(* A published block is in the ring.                                        *)
LEMMA PushPublishInv == ASSUME IInv, PushPublish PROVE IInv'
<1>1. /\ writePosition' = writePosition + Len(pushing)
      /\ pushing' = <<>> /\ copied' = 0
      /\ UNCHANGED <<storage, readPosition, popping, out, popped>>
  BY DEF PushPublish, consumerVars
<1>2. Len(pushing) \in Nat /\ Len(pushing') = 0
  BY <1>1 DEF IInv, TypeOK
<1> QED
  BY <1>1, <1>2, RingAssumption DEF IInv, TypeOK, PositionInv, CopyInv, used, Slot

(* A pop takes no more than there is.                                       *)
LEMMA PopLoadInv == ASSUME IInv, PopLoad PROVE IInv'
<1>1. boundedDistance = used /\ used \in Nat /\ used <= Capacity
  BY DistanceIsUsed, RingAssumption DEF IInv, PositionInv, TypeOK
<1>2. PICK size \in 1 .. MaxBlock : popping' = Min({size, boundedDistance})
  BY DEF PopLoad
<1>3. popping' \in Nat /\ popping' <= used
  <2>1. size \in Nat
    BY RingAssumption
  <2> QED
    BY <1>1, <1>2, <2>1, MinOfTwo
<1>4. UNCHANGED <<storage, writePosition, readPosition, pushing, copied, out, popped>>
  BY DEF PopLoad, producerVars
<1>5. popping = 0
  BY DEF PopLoad
<1> QED
  BY <1>1, <1>3, <1>4, <1>5, RingAssumption DEF IInv, TypeOK, PositionInv, CopyInv, used, Slot

(* A sample that is copied out is a sample of the ring.                      *)
LEMMA PopCopyInv == ASSUME IInv, PopCopy PROVE IInv'
<1>1. /\ out' = Append(out, storage[Slot(readPosition, Len(out))])
      /\ Len(out) < popping
      /\ UNCHANGED <<storage, writePosition, readPosition, pushing, copied, popping, popped>>
  BY DEF PopCopy, producerVars
<1>2. Slot(readPosition, Len(out)) \in Slots
  <2>1. Len(out) \in 0 .. Capacity - 1
    BY <1>1, RingAssumption DEF IInv, TypeOK
  <2> QED
    BY <2>1, SlotsOfLap DEF IInv, TypeOK
<1>3. storage[Slot(readPosition, Len(out))] \in Samples
  BY <1>2 DEF IInv, TypeOK
<1>4. out' \in Seq(Samples) /\ Len(out') = Len(out) + 1 /\ Len(out') <= popping
  BY <1>1, <1>3 DEF IInv, TypeOK
<1>5. \A i \in 1 .. Len(out') : out'[i] = storage[Slot(readPosition, i - 1)]
  <2> SUFFICES ASSUME NEW i \in 1 .. Len(out) + 1
               PROVE  out'[i] = storage[Slot(readPosition, i - 1)]
    BY <1>4
  <2>1. CASE i = Len(out) + 1
    <3>1. i - 1 = Len(out)
      BY <2>1 DEF IInv, TypeOK
    <3> QED
      BY <1>1, <1>3, <2>1, <3>1 DEF IInv, TypeOK
  <2>2. CASE i \in 1 .. Len(out)
    BY <1>1, <1>3, <2>2 DEF IInv, TypeOK, CopyInv
  <2> QED
    BY <2>1, <2>2 DEF IInv, TypeOK
<1> QED
  BY <1>1, <1>4, <1>5 DEF IInv, TypeOK, PositionInv, CopyInv, used, Slot

(* A published pop leaves the rest.                                         *)
LEMMA PopPublishInv == ASSUME IInv, PopPublish PROVE IInv'
<1>1. /\ readPosition' = readPosition + popping
      /\ popped' = out /\ popping' = 0 /\ out' = <<>>
      /\ UNCHANGED <<storage, writePosition, pushing, copied>>
  BY DEF PopPublish, producerVars
<1>2. Len(out') = 0
  BY <1>1
<1> QED
  BY <1>1, <1>2, RingAssumption DEF IInv, TypeOK, PositionInv, CopyInv, used, Slot

(* A ring that is reset is empty.                                           *)
LEMMA ResetInv == ASSUME IInv, reset PROVE IInv'
<1>1. /\ pushing = <<>> /\ popping = 0 /\ writePosition' = 0 /\ readPosition' = 0
      /\ UNCHANGED <<storage, pushing, copied, popping, out, popped>>
  BY DEF reset, producerVars, consumerVars
<1>2. Len(pushing) = 0 /\ copied = 0 /\ Len(out) = 0
  BY <1>1 DEF IInv, TypeOK
<1> QED
  BY <1>1, <1>2, RingAssumption DEF IInv, TypeOK, PositionInv, CopyInv, used

(* Every step keeps the invariant.                                          *)
LEMMA InvNext == IInv /\ [Next]_vars => IInv'
<1>1. IInv /\ UNCHANGED vars => IInv'
  BY DEF IInv, TypeOK, PositionInv, CopyInv, used, Slot, vars, producerVars, consumerVars
<1> QED
  BY <1>1, PushLoadInv, PushCopyInv, PushPublishInv, PopLoadInv, PopCopyInv, PopPublishInv,
     ResetInv DEF Next

(* The invariant holds in every reachable state.                            *)
THEOREM InvCorrect == Spec => []IInv
BY InvInit, InvNext, PTL DEF Spec

(* The types hold: no position is overtaken and no copy leaves its block.    *)
THEOREM TypeCorrect == Spec => []TypeOK
<1>1. IInv => TypeOK
  BY DEF IInv
<1> QED
  BY <1>1, InvCorrect, PTL

-----------------------------------------------------------------------------
(* The ring implements the queue.                                           *)

(* The contents are a sequence of samples, taken from the storage in order.   *)
ContentsOK ==
  /\ Contents \in Seq(Samples) /\ Len(Contents) = used /\ used \in Nat
  /\ \A i \in 1 .. used : Contents[i] = storage[Slot(readPosition, i - 1)]

(* The invariant makes them so.                                             *)
LEMMA ContentsType == IInv => ContentsOK
<1> SUFFICES ASSUME IInv PROVE ContentsOK
  OBVIOUS
<1>1. used \in Nat /\ used <= Capacity /\ readPosition \in Nat
  BY RingAssumption DEF IInv, TypeOK, PositionInv
<1>2. \A i \in 1 .. used : storage[Slot(readPosition, i - 1)] \in Samples
  <2> SUFFICES ASSUME NEW i \in 1 .. used PROVE storage[Slot(readPosition, i - 1)] \in Samples
    OBVIOUS
  <2>1. i - 1 \in 0 .. Capacity - 1
    BY <1>1, RingAssumption
  <2> QED
    BY <1>1, <2>1, SlotsOfLap DEF IInv, TypeOK
<1> QED
  BY <1>1, <1>2 DEF Contents, used, ContentsOK

(* And after a step.                                                        *)
LEMMA ContentsTypeNext == IInv' => ContentsOK'
BY ContentsType, PTL

(* Two sequences of samples with the same length and elements are the same.   *)
LEMMA SameSequence ==
  ASSUME NEW s \in Seq(Samples), NEW t \in Seq(Samples), Len(s) = Len(t),
         \A i \in 1 .. Len(s) : s[i] = t[i]
  PROVE  s = t
OBVIOUS

(* A block is in the queue when its position is published, and not before.    *)
LEMMA PushPublishIsPush ==
  ASSUME IInv, PushPublish
  PROVE  Fifo!Push
<1>1. IInv'
  BY PushPublishInv
<1>2. /\ writePosition' = writePosition + Len(pushing)
      /\ copied = Len(pushing) /\ pushing # <<>>
      /\ UNCHANGED <<storage, readPosition, popped>>
  BY DEF PushPublish, consumerVars
<1>3. /\ Len(pushing) \in Nat /\ Len(pushing) > 0 /\ used + Len(pushing) <= Capacity
      /\ used' = used + Len(pushing) /\ pushing \in Seq(Samples)
  BY <1>2, RingAssumption DEF IInv, TypeOK, PositionInv, used
<1>4. \A i \in 1 .. Len(pushing) : Contents'[used + i] = pushing[i]
  <2> SUFFICES ASSUME NEW i \in 1 .. Len(pushing) PROVE Contents'[used + i] = pushing[i]
    OBVIOUS
  <2>1. Contents'[used + i] = storage[Slot(readPosition, used + i - 1)]
    <3>1. used + i \in 1 .. used'
      BY <1>3, ContentsType DEF ContentsOK
    <3>2. \A k \in 1 .. used' : Contents'[k] = storage'[Slot(readPosition', k - 1)]
      BY <1>1, ContentsTypeNext DEF ContentsOK
    <3>3. Contents'[used + i] = storage'[Slot(readPosition', used + i - 1)]
      <4>1. PICK k \in 1 .. used' : k = used + i
        BY <3>1
      <4>2. Contents'[k] = storage'[Slot(readPosition', k - 1)]
        BY <3>2
      <4>3. used \in Nat
        BY ContentsType DEF ContentsOK
      <4> QED
        BY <1>3, <4>1, <4>2, <4>3
    <3> QED
      BY <1>2, <3>3
  <2>2. Slot(writePosition, i - 1) = Slot(readPosition, used + i - 1)
    <3>1. /\ i - 1 \in Nat /\ used \in Nat /\ used + (i - 1) < Capacity
          /\ writePosition = readPosition + used /\ readPosition \in Nat
          /\ used + (i - 1) = used + i - 1
      BY <1>3, ContentsType, RingAssumption DEF ContentsOK, used, IInv, TypeOK
    <3> QED
      BY <3>1, SlotShift
  <2> QED
    BY <1>2, <2>1, <2>2 DEF IInv, CopyInv
<1>5. Contents' = Contents \o pushing
  <2>1. /\ Contents' \in Seq(Samples) /\ Len(Contents') = used'
        /\ Contents \in Seq(Samples) /\ Len(Contents) = used /\ used \in Nat
    BY <1>1, ContentsType, ContentsTypeNext DEF ContentsOK
  <2>2. \A i \in 1 .. used : Contents'[i] = Contents[i]
    <3> SUFFICES ASSUME NEW i \in 1 .. used PROVE Contents'[i] = Contents[i]
      OBVIOUS
    <3>1. i \in 1 .. used'
      BY <1>3, <2>1
    <3>2. Contents'[i] = storage'[Slot(readPosition', i - 1)]
      BY <1>1, <3>1, ContentsTypeNext DEF ContentsOK
    <3>3. Contents[i] = storage[Slot(readPosition, i - 1)]
      BY ContentsType DEF ContentsOK
    <3> QED
      BY <1>2, <3>2, <3>3
  <2>3. Contents \o pushing \in Seq(Samples) /\ Len(Contents \o pushing) = used'
    BY <1>3, <2>1
  <2>4. \A i \in 1 .. used' : Contents'[i] = (Contents \o pushing)[i]
    <3> SUFFICES ASSUME NEW i \in 1 .. used' PROVE Contents'[i] = (Contents \o pushing)[i]
      OBVIOUS
    <3>1. CASE i <= used
      BY <1>3, <2>1, <2>2, <3>1
    <3>2. CASE i > used
      <4>1. i - used \in 1 .. Len(pushing) /\ used + (i - used) = i
        BY <1>3, <2>1, <3>2
      <4>2. Contents'[i] = pushing[i - used]
        BY <1>4, <4>1
      <4>3. (Contents \o pushing)[i] = pushing[i - used]
        BY <1>3, <2>1, <4>1
      <4> QED
        BY <4>2, <4>3
    <3> QED
      BY <1>3, <2>1, <3>1, <3>2
  <2> QED
    BY <2>1, <2>3, <2>4, SameSequence
<1>6. Len(pushing) \in 1 .. Capacity - Len(Contents) /\ pushing \in [1 .. Len(pushing) -> Samples]
  BY <1>3, ContentsType, RingAssumption DEF ContentsOK
<1> QED
  BY <1>2, <1>5, <1>6 DEF Fifo!Push

(* What is popped is the front of the queue.                                *)
LEMMA PopPublishIsPop ==
  ASSUME IInv, PopPublish
  PROVE  Fifo!Pop
<1>1. IInv'
  BY PopPublishInv
<1>2. /\ readPosition' = readPosition + popping /\ popping > 0 /\ Len(out) = popping
      /\ popped' = out
      /\ UNCHANGED <<storage, writePosition>>
  BY DEF PopPublish
<1>3. /\ popping \in Nat /\ popping <= used /\ used \in Nat /\ used <= Capacity
      /\ used' = used - popping /\ readPosition \in Nat /\ out \in Seq(Samples)
  BY <1>2, RingAssumption DEF IInv, TypeOK, PositionInv, used
<1>4. /\ Contents \in Seq(Samples) /\ Len(Contents) = used
      /\ Contents' \in Seq(Samples) /\ Len(Contents') = used - popping
  BY <1>1, <1>3, ContentsType, ContentsTypeNext DEF ContentsOK
<1>5. popped' = SubSeq(Contents, 1, popping)
  <2>1. SubSeq(Contents, 1, popping) \in Seq(Samples) /\ Len(SubSeq(Contents, 1, popping)) = popping
    BY <1>3, <1>4
  <2>2. \A i \in 1 .. popping : out[i] = SubSeq(Contents, 1, popping)[i]
    <3> SUFFICES ASSUME NEW i \in 1 .. popping PROVE out[i] = SubSeq(Contents, 1, popping)[i]
      OBVIOUS
    <3>1. SubSeq(Contents, 1, popping)[i] = Contents[i] /\ i \in 1 .. used
      BY <1>3, <1>4
    <3>2. Contents[i] = storage[Slot(readPosition, i - 1)]
      BY <3>1, ContentsType DEF ContentsOK
    <3>3. out[i] = storage[Slot(readPosition, i - 1)]
      BY <1>2 DEF IInv, CopyInv
    <3> QED
      BY <3>1, <3>2, <3>3
  <2> QED
    BY <1>2, <1>3, <2>1, <2>2, SameSequence
<1>6. Contents' = SubSeq(Contents, popping + 1, Len(Contents))
  <2> DEFINE rest == SubSeq(Contents, popping + 1, Len(Contents))
  <2>1. rest \in Seq(Samples) /\ Len(rest) = used - popping
    BY <1>3, <1>4
  <2>2. \A i \in 1 .. used - popping : Contents'[i] = rest[i]
    <3> SUFFICES ASSUME NEW i \in 1 .. used - popping PROVE Contents'[i] = rest[i]
      OBVIOUS
    <3>1. rest[i] = Contents[popping + i] /\ popping + i \in 1 .. used
      BY <1>3, <1>4
    <3>2. Contents[popping + i] = storage[Slot(readPosition, popping + i - 1)]
      <4>1. \A k \in 1 .. used : Contents[k] = storage[Slot(readPosition, k - 1)]
        BY ContentsType DEF ContentsOK
      <4>2. PICK k \in 1 .. used : k = popping + i
        BY <3>1
      <4>3. Contents[k] = storage[Slot(readPosition, k - 1)]
        BY <4>1
      <4> QED
        BY <1>3, <4>2, <4>3
    <3>3. Contents'[i] = storage[Slot(readPosition + popping, i - 1)]
      <4>1. \A k \in 1 .. used' : Contents'[k] = storage'[Slot(readPosition', k - 1)]
        BY <1>1, ContentsTypeNext DEF ContentsOK
      <4>2. i \in 1 .. used'
        BY <1>3
      <4> QED
        BY <1>2, <4>1, <4>2
    <3>4. Slot(readPosition + popping, i - 1) = Slot(readPosition, popping + i - 1)
      <4>1. i - 1 \in Nat /\ popping + (i - 1) < Capacity /\ popping + (i - 1) = popping + i - 1
        BY <1>3, RingAssumption
      <4> QED
        BY <1>3, <4>1, SlotShift
    <3> QED
      BY <3>1, <3>2, <3>3, <3>4
  <2> QED
    BY <1>3, <1>4, <2>1, <2>2, SameSequence
<1> QED
  BY <1>2, <1>3, <1>4, <1>5, <1>6 DEF Fifo!Pop

(* A copy into the storage does not show in the queue.                       *)
LEMMA PushCopyStutters == ASSUME IInv, PushCopy PROVE Contents' = Contents
<1>1. IInv'
  BY PushCopyInv
<1>2. /\ storage' = [storage EXCEPT ![Slot(writePosition, copied)] = pushing[copied + 1]]
      /\ UNCHANGED <<writePosition, readPosition>>
  BY DEF PushCopy
<1>3. /\ Contents \in Seq(Samples) /\ Contents' \in Seq(Samples)
      /\ Len(Contents) = used /\ Len(Contents') = used /\ used \in Nat
  BY <1>1, <1>2, ContentsType, ContentsTypeNext DEF ContentsOK, used
<1>4. \A i \in 1 .. used : Contents'[i] = Contents[i]
  <2> SUFFICES ASSUME NEW i \in 1 .. used PROVE Contents'[i] = Contents[i]
    OBVIOUS
  <2>1. Slot(readPosition, i - 1) # Slot(writePosition, copied)
    BY PushCopySlot DEF PushCopy
  <2>2. i - 1 \in 0 .. Capacity - 1
    BY RingAssumption DEF IInv, TypeOK, PositionInv
  <2>3. Slot(readPosition, i - 1) \in Slots
    BY <2>2, SlotsOfLap DEF IInv, TypeOK
  <2>4. storage'[Slot(readPosition, i - 1)] = storage[Slot(readPosition, i - 1)]
    BY <1>2, <2>1, <2>3 DEF IInv, TypeOK
  <2> QED
    BY <1>2, <2>4 DEF Contents, used
<1> QED
  BY <1>3, <1>4, SameSequence

(* The ring is a bounded queue: complete blocks in, the oldest samples out,   *)
(* nothing overwritten or repeated, for every capacity and every             *)
(* interleaving of the two sides.                                           *)
THEOREM IsFifoHolds == Spec => IsFifo
<1>1. Init => Fifo!Init
  BY DEF Init, Fifo!Init, Contents
<1>2. IInv /\ [Next]_vars => [Fifo!Next]_(Fifo!fifoVars)
  <2> SUFFICES ASSUME IInv, [Next]_vars PROVE [Fifo!Next]_(Fifo!fifoVars)
    OBVIOUS
  <2>1. CASE PushPublish
    BY <2>1, PushPublishIsPush DEF Fifo!Next
  <2>2. CASE PopPublish
    BY <2>2, PopPublishIsPop DEF Fifo!Next
  <2>3. CASE PushCopy
    BY <2>3, PushCopyStutters DEF PushCopy, consumerVars, Fifo!fifoVars
  <2>4. CASE reset
    <3>1. Contents' = <<>> /\ popped' = popped
      BY <2>4 DEF reset, Contents, consumerVars
    <3> QED
      BY <3>1 DEF Fifo!Next, Fifo!Clear
  <2>5. CASE PushLoad \/ PopLoad \/ PopCopy \/ UNCHANGED vars
    <3>1. UNCHANGED <<storage, writePosition, readPosition, popped>>
      BY <2>5 DEF PushLoad, PopLoad, PopCopy, vars, consumerVars
    <3> QED
      BY <3>1 DEF Contents, Slot, Fifo!fifoVars
  <2> QED
    BY <2>1, <2>2, <2>3, <2>4, <2>5 DEF Next
<1> QED
  BY <1>1, <1>2, InvCorrect, PTL DEF Spec, IsFifo, Fifo!Spec
=============================================================================
