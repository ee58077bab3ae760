------------------------ MODULE TransmitEndpointProofs ------------------------
(***************************************************************************)
(* The lifecycle and the gate of AudioStream, for every ring capacity, every  *)
(* prefill, every callback size and chunk, and every client; and what a       *)
(* session hears of its endpoint, for every signal, ring, prefill, block and  *)
(* callback size: the prefill and the signal are played once and in order,   *)
(* and an underrun of the open signal is reported.                           *)
(***************************************************************************)
EXTENDS TransmitEndpoint, SequenceTheorems, TLAPS

-----------------------------------------------------------------------------
(* The stream.                                                               *)

(* What Min returns for two numbers.                                        *)
LEMMA MinOfTwo ==
  ASSUME NEW a \in Nat, NEW b \in Nat
  PROVE  /\ Min({a, b}) \in {a, b}
         /\ Min({a, b}) <= a /\ Min({a, b}) <= b
<1>1. \E x \in {a, b} : \A y \in {a, b} : x <= y
  BY SMT
<1> QED
  BY <1>1 DEF Min

(* What a callback may be asked for.                                        *)
LEMMA FrameCounts == \A frameCount \in Periods \cup {0} : frameCount \in Nat
<1>1. Periods \subseteq Nat
  BY StreamAssumption
<1> QED
  BY <1>1

(* A callback only runs on a started device, and that only in a state that    *)
(* knows of it.                                                             *)
DeviceInv ==
  /\ callback.at # "idle" => device = "running"
  /\ device = "running" =>
       isDeviceInitialized /\ isStarted /\ state \in {"running", "stopping", "faulted"}
  /\ state = "closed" => ~isDeviceInitialized

(* A callback that plays signal began with the gate open, and was the last     *)
(* that did when the gate closed under it.                                  *)
GateInv ==
  /\ callback.isSignalGated => callback.output = <<>> /\ isSignalGated
  /\ callback.at = "idle" => callback.output = <<>> /\ ~callback.isSignalGated
  /\ ~isSignalGated => lateCallbacks = 0
  /\ callback.at # "idle" /\ ~callback.isSignalGated => lateCallbacks = 0
  /\ lateCallbacks <= 1

IInv == StreamTypeOK /\ DeviceInv /\ GateInv

-----------------------------------------------------------------------------
(* The control thread.                                                      *)

(* A new stream.                                                            *)
LEMMA InvInit == StreamInit => IInv
<1> SUFFICES ASSUME StreamInit PROVE IInv
  OBVIOUS
<1>1. /\ callback.at = "idle" /\ callback.frameCount = 0 /\ callback.processed = 0
      /\ callback.isSignalGated = FALSE /\ callback.output = <<>>
  BY DEF StreamInit, NoCallback
<1>0. <<>> \in Seq(Frames) /\ Len(<<>>) = 0
  OBVIOUS
<1>2. CallbackOK
  <2>1. callback.isSignalGated \in BOOLEAN
    BY <1>1
  <2>2. callback.processed \in 0 .. callback.frameCount
    BY <1>1
  <2>3. callback.output \in Seq(Frames) /\ Len(callback.output) <= callback.processed
    BY <1>0, <1>1
  <2> QED
    BY <1>1, <2>1, <2>2, <2>3 DEF CallbackOK
<1>3. StreamTypeOK
  <2>1. ring \in Seq(Frames) /\ Len(ring) <= Capacity
    BY <1>0, StreamAssumption DEF StreamInit
  <2> QED
    BY <1>2, <2>1 DEF StreamInit, StreamTypeOK, States, Reasons
<1>4. DeviceInv /\ GateInv
  BY <1>1 DEF StreamInit, DeviceInv, GateInv
<1> QED
  BY <1>3, <1>4 DEF IInv

(* Calls that leave the ring and the callback alone keep the types.          *)
LEMMA LifecycleType ==
  ASSUME IInv, Open \/ Prime \/ Start \/ requestStop \/ Stop \/ Close \/ poll
  PROVE  StreamTypeOK'
<1>1. UNCHANGED <<ring, isSignalGated, underrunFrames, callback, lateCallbacks>>
  BY DEF Open, Prime, Start, requestStop, Stop, Close, poll, deviceVars
<1>2. /\ state' \in States /\ faultReason' \in Reasons
      /\ isDeviceInitialized' \in BOOLEAN /\ isStarted' \in BOOLEAN /\ isStopRequested' \in BOOLEAN
      /\ device' \in {"stopped", "running"}
  <2>1. CASE Open
    BY <2>1 DEF IInv, StreamTypeOK, Open, AdapterOpens, AdapterOpensInVain, markAdapterFault,
                deviceVars, States, Reasons
  <2>2. CASE Prime
    BY <2>2 DEF IInv, StreamTypeOK, Prime, markAdapterFault, deviceVars, States, Reasons
  <2>3. CASE Start
    BY <2>3 DEF IInv, StreamTypeOK, Start, AdapterStarts, AdapterStartFails, markAdapterFault,
                States, Reasons
  <2>4. CASE requestStop
    BY <2>4 DEF IInv, StreamTypeOK, requestStop, deviceVars, States, Reasons
  <2>5. CASE Stop
    BY <2>5 DEF IInv, StreamTypeOK, Stop, AdapterStops, AdapterStopFails, markAdapterFault,
                States, Reasons
  <2>6. CASE Close
    BY <2>6 DEF IInv, StreamTypeOK, Close, markAdapterFault, States, Reasons
  <2>7. CASE poll
    BY <2>7 DEF IInv, StreamTypeOK, poll, Polled, deviceVars, States, Reasons
  <2> QED
    BY <2>1, <2>2, <2>3, <2>4, <2>5, <2>6, <2>7
<1> QED
  BY <1>1, <1>2 DEF IInv, StreamTypeOK, CallbackOK

(* And keep the device known and owned.                                     *)
LEMMA LifecycleDevice ==
  ASSUME IInv, Open \/ Prime \/ Start \/ requestStop \/ Stop \/ Close \/ poll
  PROVE  DeviceInv'
<1>1. callback' = callback
  BY DEF Open, Prime, Start, requestStop, Stop, Close, poll, deviceVars
<1>2. CASE Open
  <2>1. device # "running" /\ callback.at = "idle"
    BY <1>2 DEF IInv, DeviceInv, Open
  <2>2. device' # "running" /\ callback'.at = "idle"
    BY <1>2, <2>1 DEF Open, deviceVars
  <2>3. state' = "closed" => ~isDeviceInitialized'
    BY <1>2 DEF IInv, DeviceInv, Open, AdapterOpens, AdapterOpensInVain, markAdapterFault
  <2> QED
    BY <2>2, <2>3 DEF DeviceInv
<1>3. CASE Prime
  BY <1>1, <1>3 DEF IInv, StreamTypeOK, DeviceInv, Prime, markAdapterFault, deviceVars
<1>4. CASE Start
  BY <1>1, <1>4 DEF IInv, StreamTypeOK, DeviceInv, Start, AdapterStarts, AdapterStartFails,
                    markAdapterFault
<1>5. CASE requestStop
  BY <1>1, <1>5 DEF IInv, StreamTypeOK, DeviceInv, requestStop, deviceVars
<1>6. CASE Stop
  BY <1>1, <1>6 DEF IInv, StreamTypeOK, DeviceInv, Stop, AdapterStops, AdapterStopFails,
                    markAdapterFault
<1>7. CASE Close
  BY <1>1, <1>7 DEF IInv, StreamTypeOK, DeviceInv, Close, markAdapterFault
<1>8. CASE poll
  BY <1>1, <1>8 DEF IInv, StreamTypeOK, DeviceInv, poll, Polled, deviceVars
<1> QED
  BY <1>2, <1>3, <1>4, <1>5, <1>6, <1>7, <1>8

(* The lifecycle does not touch the gate.                                   *)
LEMMA LifecycleInv ==
  ASSUME IInv, Open \/ Prime \/ Start \/ requestStop \/ Stop \/ Close \/ poll
  PROVE  IInv'
<1>1. UNCHANGED <<isSignalGated, callback, lateCallbacks>>
  BY DEF Open, Prime, Start, requestStop, Stop, Close, poll, deviceVars
<1>2. GateInv'
  BY <1>1 DEF IInv, GateInv
<1> QED
  BY <1>2, LifecycleType, LifecycleDevice DEF IInv

(* A reset finds no callback in progress.                                   *)
LEMMA ResetInv == ASSUME IInv, resetRings PROVE IInv'
<1>1. callback.at = "idle" /\ callback.at \in {"idle", "pop", "account"}
  BY DEF IInv, StreamTypeOK, CallbackOK, DeviceInv, resetRings, Resettable
<1>2. StreamTypeOK'
  <2>1. <<>> \in Seq(Frames) /\ Len(<<>>) = 0
    OBVIOUS
  <2> QED
    <3>1. ring' \in Seq(Frames) /\ Len(ring') <= Capacity
      BY <2>1, StreamAssumption DEF resetRings
    <3> QED
      BY <3>1 DEF IInv, StreamTypeOK, CallbackOK, resetRings, controlVars
<1>3. DeviceInv'
  BY DEF IInv, DeviceInv, resetRings, controlVars
<1>4. callback' = callback /\ isSignalGated' = FALSE /\ lateCallbacks' = 0
  BY DEF resetRings
<1>5. callback.output = <<>> /\ ~callback.isSignalGated
  BY <1>1 DEF IInv, GateInv
<1>6. GateInv'
  BY <1>1, <1>4, <1>5 DEF GateInv
<1> QED
  BY <1>2, <1>3, <1>6 DEF IInv

(* Closing the gate makes a callback in progress the last that plays signal.   *)
LEMMA GateClosesInv == ASSUME IInv, gatePlaybackSignal PROVE IInv'
<1>1. UNCHANGED <<controlVars, ring, faultReason, underrunFrames, isStopRequested, deviceVars>>
      /\ isSignalGated' = TRUE
  BY DEF gatePlaybackSignal
<1>2. StreamTypeOK' /\ DeviceInv'
  BY <1>1 DEF IInv, StreamTypeOK, CallbackOK, DeviceInv, controlVars, deviceVars
<1>3. GateInv'
  BY <1>1 DEF IInv, GateInv, deviceVars
<1> QED
  BY <1>2, <1>3 DEF IInv

(* No more is queued than there is room for.                                *)
LEMMA QueueInv ==
  ASSUME IInv, NEW samples \in Seq(Frames), queuePlayback(samples)
  PROVE  IInv'
<1> DEFINE accepted == Accepted(samples)
<1>1. accepted \in 0 .. Len(samples) /\ Len(ring) + accepted <= Capacity
  <2>1. Capacity - Len(ring) \in Nat /\ Len(samples) \in Nat /\ Len(ring) \in Nat /\ Capacity \in Nat
    BY StreamAssumption DEF IInv, StreamTypeOK
  <2>2. CASE isSignalGated
    BY <2>1, <2>2 DEF Accepted, IInv, StreamTypeOK
  <2>3. CASE ~isSignalGated
    <3>1. accepted = Min({Len(samples), Capacity - Len(ring)})
      BY <2>3 DEF Accepted
    <3> HIDE DEF accepted
    <3>2. accepted \in {Len(samples), Capacity - Len(ring)} /\ accepted <= Len(samples)
          /\ accepted <= Capacity - Len(ring)
      BY <2>1, <3>1, MinOfTwo
    <3> QED
      BY <2>1, <3>2
  <2> QED
    BY <2>2, <2>3
<1> HIDE DEF accepted
<1>2. SubSeq(samples, 1, accepted) \in Seq(Frames) /\ Len(SubSeq(samples, 1, accepted)) = accepted
  BY <1>1
<1>3. /\ ring' = ring \o SubSeq(samples, 1, accepted)
      /\ UNCHANGED <<controlVars, isSignalGated, faultReason, underrunFrames, isStopRequested,
                     deviceVars>>
  BY DEF queuePlayback, accepted
<1>4. ring' \in Seq(Frames) /\ Len(ring') <= Capacity
  BY <1>1, <1>2, <1>3 DEF IInv, StreamTypeOK
<1>5. StreamTypeOK'
  BY <1>3, <1>4 DEF IInv, StreamTypeOK, CallbackOK, controlVars, deviceVars
<1>6. DeviceInv' /\ GateInv'
  BY <1>3 DEF IInv, DeviceInv, GateInv, controlVars, deviceVars
<1> QED
  BY <1>5, <1>6 DEF IInv

-----------------------------------------------------------------------------
(* The device thread.                                                       *)

(* A callback that begins with the gate open begins before any late one.      *)
LEMMA BeginInv == ASSUME IInv, CallbackBegin PROVE IInv'
<1>1. PICK frameCount \in Periods :
        callback' = [NoCallback EXCEPT !.at = IF frameCount = 0 THEN "account" ELSE "pop",
                                       !.frameCount = frameCount,
                                       !.isSignalGated = isSignalGated]
  BY DEF CallbackBegin, BeginWith
<1>2. /\ callback'.at \in {"pop", "account"} /\ callback'.frameCount = frameCount
      /\ callback'.processed = 0 /\ callback'.isSignalGated = isSignalGated
      /\ callback'.output = <<>>
  BY <1>1 DEF NoCallback
<1>3. UNCHANGED <<controlVars, ring, isSignalGated, faultReason, underrunFrames, isStopRequested,
                  device, lateCallbacks>> /\ device = "running"
  BY DEF CallbackBegin, BeginWith
<1>4. <<>> \in Seq(Frames) /\ Len(<<>>) = 0 /\ frameCount \in Nat
  BY StreamAssumption
<1>5. CallbackOK'
  BY <1>2, <1>4 DEF IInv, StreamTypeOK, CallbackOK
<1>6. StreamTypeOK'
  BY <1>3, <1>5 DEF IInv, StreamTypeOK, controlVars
<1>7. DeviceInv' /\ GateInv'
  BY <1>2, <1>3 DEF IInv, StreamTypeOK, DeviceInv, GateInv, controlVars
<1> QED
  BY <1>6, <1>7 DEF IInv

(* A chunk stays in the buffer.                                             *)
LEMMA PopInv == ASSUME IInv, CallbackPop PROVE IInv'
<1> DEFINE chunk == Min({callback.frameCount - callback.processed, ScratchFrames})
           popped == Min({chunk, Len(ring)})
           processed == callback.processed + chunk
<1>1. /\ callback.at = "pop"
      /\ ring' = SubSeq(ring, popped + 1, Len(ring))
      /\ callback' = [callback EXCEPT
           !.at = IF popped < chunk \/ processed = callback.frameCount THEN "account" ELSE "pop",
           !.processed = processed,
           !.output = IF callback.isSignalGated THEN @ ELSE @ \o SubSeq(ring, 1, popped)]
      /\ UNCHANGED <<controlVars, isSignalGated, faultReason, underrunFrames, isStopRequested,
                     device, lateCallbacks>>
  BY DEF CallbackPop, PopChunk
<1>2. /\ callback.frameCount \in Nat /\ callback.processed \in 0 .. callback.frameCount
      /\ callback.output \in Seq(Frames) /\ Len(callback.output) <= callback.processed
      /\ ring \in Seq(Frames) /\ Len(ring) \in Nat /\ Len(ring) <= Capacity
  <2>1. callback.frameCount \in Nat
    <3>1. callback.frameCount \in Periods \cup {0}
      BY DEF IInv, StreamTypeOK, CallbackOK
    <3> QED
      BY <3>1, FrameCounts
  <2> QED
    BY <2>1 DEF IInv, StreamTypeOK, CallbackOK
<1>3. chunk \in Nat /\ chunk <= callback.frameCount - callback.processed
  BY <1>2, MinOfTwo, StreamAssumption
<1>4. popped \in Nat /\ popped <= chunk /\ popped <= Len(ring)
  BY <1>2, <1>3, MinOfTwo
<1> HIDE DEF chunk, popped
<1>5. ring' \in Seq(Frames) /\ Len(ring') <= Capacity
  <2>1. ring' = SubSeq(ring, popped + 1, Len(ring)) /\ ring \in Seq(Frames)
    BY <1>1, <1>2
  <2>2. popped \in Nat /\ popped <= Len(ring) /\ Len(ring) \in Nat /\ Len(ring) <= Capacity
    BY <1>2, <1>4
  <2>3. ring' \in Seq(Frames) /\ Len(ring') <= Len(ring)
    BY <2>1, <2>2
  <2> QED
    BY <2>2, <2>3, StreamAssumption
<1>6. /\ callback'.at \in {"pop", "account"} /\ callback'.frameCount = callback.frameCount
      /\ callback'.processed = processed /\ callback'.isSignalGated = callback.isSignalGated
      /\ callback'.output = IF callback.isSignalGated THEN callback.output
                            ELSE callback.output \o SubSeq(ring, 1, popped)
  BY <1>1 DEF IInv, StreamTypeOK
<1>7. CallbackOK'
  <2>1. SubSeq(ring, 1, popped) \in Seq(Frames) /\ Len(SubSeq(ring, 1, popped)) = popped
    BY <1>2, <1>4
  <2>2. callback'.output \in Seq(Frames) /\ Len(callback'.output) <= processed
    <3>1. CASE callback.isSignalGated
      <4>1. callback'.output = callback.output
        BY <1>6, <3>1
      <4> QED
        BY <1>2, <1>3, <4>1
    <3>2. CASE ~callback.isSignalGated
      <4>1. callback'.output = callback.output \o SubSeq(ring, 1, popped)
        BY <1>6, <3>2
      <4>2. Len(callback'.output) = Len(callback.output) + popped /\ callback'.output \in Seq(Frames)
        <5> DEFINE played == callback.output
                   more == SubSeq(ring, 1, popped)
        <5>1. played \in Seq(Frames) /\ more \in Seq(Frames) /\ Len(more) = popped
          BY <1>2, <2>1
        <5> HIDE DEF played, more
        <5>2. played \o more \in Seq(Frames) /\ Len(played \o more) = Len(played) + Len(more)
          BY <5>1
        <5> QED
          BY <4>1, <5>1, <5>2 DEF played, more
      <4> QED
        BY <1>2, <1>3, <1>4, <4>2
    <3> QED
      BY <3>1, <3>2
  <2> QED
    BY <1>2, <1>3, <1>6, <2>2 DEF IInv, StreamTypeOK, CallbackOK
<1>8. StreamTypeOK'
  BY <1>1, <1>5, <1>7 DEF IInv, StreamTypeOK, controlVars
<1>9. DeviceInv' /\ GateInv'
  BY <1>1, <1>6 DEF IInv, DeviceInv, GateInv, controlVars
<1> QED
  BY <1>8, <1>9 DEF IInv

(* A callback that ends counts as late once.                                *)
LEMMA AccountInv == ASSUME IInv, CallbackAccount PROVE IInv'
<1>1. /\ callback.at = "account" /\ callback' = NoCallback
      /\ underrunFrames' = underrunFrames + (IF callback.isSignalGated THEN 0 ELSE zeroFilled)
      /\ lateCallbacks' = lateCallbacks + (IF isSignalGated /\ PlaysSignal THEN 1 ELSE 0)
      /\ UNCHANGED <<controlVars, ring, isSignalGated, faultReason, isStopRequested, device>>
  BY DEF CallbackAccount
<1>2. /\ callback'.at = "idle" /\ callback'.frameCount = 0 /\ callback'.processed = 0
      /\ callback'.isSignalGated = FALSE /\ callback'.output = <<>>
  BY <1>1 DEF NoCallback
<1>3. CallbackOK'
  <2>1. <<>> \in Seq(Frames) /\ Len(<<>>) = 0
    OBVIOUS
  <2>2. callback'.isSignalGated \in BOOLEAN
    BY <1>2
  <2>3. callback'.processed \in 0 .. callback'.frameCount
    BY <1>2
  <2> QED
    BY <1>2, <2>1, <2>2, <2>3 DEF CallbackOK
<1>4. underrunFrames' \in Nat
  <2>1. callback.frameCount \in Periods \cup {0}
    BY DEF IInv, StreamTypeOK, CallbackOK
  <2>2. callback.frameCount \in Nat
    BY <2>1, FrameCounts
  <2>3. zeroFilled \in Nat
    BY <2>2 DEF IInv, StreamTypeOK, CallbackOK, zeroFilled
  <2> QED
    BY <1>1, <2>3 DEF IInv, StreamTypeOK
<1>5. lateCallbacks' \in Nat /\ lateCallbacks' <= 1 /\ (~isSignalGated => lateCallbacks' = 0)
  <2>1. CASE isSignalGated /\ PlaysSignal
    <3>1. callback.output # <<>>
      BY <2>1 DEF PlaysSignal
    <3>2. ~callback.isSignalGated
      BY <3>1 DEF IInv, GateInv
    <3>3. lateCallbacks = 0
      BY <1>1, <3>2 DEF IInv, GateInv
    <3> QED
      BY <1>1, <2>1, <3>3
  <2>2. CASE ~(isSignalGated /\ PlaysSignal)
    <3>1. lateCallbacks' = lateCallbacks
      BY <1>1, <2>2 DEF IInv, StreamTypeOK
    <3> QED
      BY <3>1 DEF IInv, StreamTypeOK, GateInv
  <2> QED
    BY <2>1, <2>2
<1>6. StreamTypeOK'
  BY <1>1, <1>3, <1>4, <1>5 DEF IInv, StreamTypeOK, controlVars
<1>7. DeviceInv'
  BY <1>1, <1>2 DEF IInv, DeviceInv, controlVars
<1>8. GateInv'
  BY <1>1, <1>2, <1>5 DEF GateInv
<1> QED
  BY <1>6, <1>7, <1>8 DEF IInv

(* Notifications change the reason, and a device that stops has no callback.   *)
LEMMA NotificationInv ==
  ASSUME IInv, CallbackWithoutOutput \/ DeviceStopped \/ DeviceDisturbed
  PROVE  IInv'
<1>1. UNCHANGED <<controlVars, ring, isSignalGated, isStopRequested, callback, lateCallbacks>>
  BY DEF CallbackWithoutOutput, DeviceStopped, DeviceDisturbed, deviceVars
<1>2. faultReason' \in Reasons
  BY DEF CallbackWithoutOutput, DeviceStopped, DeviceDisturbed, notifyCallbackFault, IInv,
         StreamTypeOK, Reasons, Notifications
<1>3. underrunFrames' \in Nat
  <2>1. CASE CallbackWithoutOutput
    <3>1. PICK frameCount \in Periods :
            underrunFrames' = underrunFrames + (IF isSignalGated THEN 0 ELSE frameCount)
      BY <2>1 DEF CallbackWithoutOutput
    <3>2. frameCount \in Nat
      BY StreamAssumption
    <3> QED
      BY <3>1, <3>2 DEF IInv, StreamTypeOK
  <2>2. CASE DeviceStopped \/ DeviceDisturbed
    BY <2>2 DEF DeviceStopped, DeviceDisturbed, IInv, StreamTypeOK
  <2> QED
    BY <2>1, <2>2
<1>4. device' \in {"stopped", device} /\ (callback.at # "idle" => device' = device)
  BY DEF CallbackWithoutOutput, DeviceStopped, DeviceDisturbed, deviceVars
<1>5. StreamTypeOK'
  BY <1>1, <1>2, <1>3, <1>4 DEF IInv, StreamTypeOK, CallbackOK, controlVars
<1>6. DeviceInv'
  BY <1>1, <1>4 DEF IInv, DeviceInv, controlVars
<1>7. GateInv'
  BY <1>1 DEF IInv, GateInv
<1> QED
  BY <1>5, <1>6, <1>7 DEF IInv

-----------------------------------------------------------------------------
(* The invariant is inductive.                                              *)
LEMMA InvNext == IInv /\ [StreamNext]_streamVars => IInv'
<1> SUFFICES ASSUME IInv, [StreamNext]_streamVars PROVE IInv'
  OBVIOUS
<1>1. CASE Control
  <2>1. CASE \E count \in 1 .. MaxBlock : \E samples \in [1 .. count -> Frames] :
               queuePlayback(samples)
    <3>1. PICK count \in 1 .. MaxBlock : \E samples \in [1 .. count -> Frames] :
                 queuePlayback(samples)
      BY <2>1
    <3>2. PICK samples \in [1 .. count -> Frames] : queuePlayback(samples)
      BY <3>1
    <3>3. samples \in Seq(Frames)
      BY StreamAssumption
    <3> QED
      BY <3>2, <3>3, QueueInv
  <2> QED
    BY <1>1, <2>1, LifecycleInv, ResetInv, GateClosesInv DEF Control
<1>2. CASE Device
  BY <1>2, BeginInv, PopInv, AccountInv, NotificationInv DEF Device
<1>3. CASE UNCHANGED streamVars
  BY <1>3 DEF streamVars, controlVars, deviceVars, IInv, StreamTypeOK, CallbackOK, DeviceInv,
              GateInv
<1> QED
  BY <1>1, <1>2, <1>3 DEF StreamNext

(* The inductive invariant, which ties the callback to the device, the device   *)
(* to the state of the stream and the gate to the callback.                   *)
THEOREM InvCorrect == StreamSpec => []IInv
BY InvInit, InvNext, PTL DEF StreamSpec

(* The ring, the callback's buffer and the states keep their bounds.          *)
THEOREM StreamTypeCorrect == StreamSpec => []StreamTypeOK
<1>1. IInv => StreamTypeOK
  BY DEF IInv
<1> QED
  BY <1>1, InvCorrect, PTL

(* resetRings() never meets a callback, whichever call failed before it.      *)
THEOREM ResetIsSafeHolds == StreamSpec => []ResetIsSafe
<1>1. IInv => ResetIsSafe
  BY DEF IInv, StreamTypeOK, DeviceInv, ResetIsSafe, Resettable
<1> QED
  BY <1>1, InvCorrect, PTL

(* A closed stream has no device and a destroyed device no callback.          *)
THEOREM DeviceOwnedHolds == StreamSpec => []DeviceOwned
<1>1. IInv => DeviceOwned
  BY DEF IInv, StreamTypeOK, DeviceInv, DeviceOwned
<1> QED
  BY <1>1, InvCorrect, PTL

(* At most the callback in progress outlives the gate.                       *)
THEOREM GateHoldsHolds == StreamSpec => []GateHolds
<1>1. IInv => GateHolds
  BY DEF IInv, GateInv, GateHolds
<1> QED
  BY <1>1, InvCorrect, PTL

-----------------------------------------------------------------------------
(* The endpoint: the inductive invariant.                                     *)

Before == {"new", "opened"}
Feeding == {"prefilled", "primed", "head", "sending", "baseline", "backpressure"}
Finished == {"draining", "drained", "tail"}
Cleaning == {"failed", "requestStop", "stop", "close", "done"}

(* What was played and is being played.                                      *)
played == heard \o callback.output

(* No callback has dropped what is in the ring.                              *)
isFlowing == ~isSignalGated \/ (callback.at # "idle" /\ ~callback.isSignalGated)

SessionTypeOK ==
  /\ control \in Before \cup Feeding \cup Finished \cup Cleaning
  /\ outcome \in {"none", "played", "failed"}
  /\ sent \in 0 .. SignalFrames /\ pending \in 0 .. SignalFrames - sent
  /\ underrunBaseline \in Nat
  /\ hasSignalStarted \in BOOLEAN /\ hasSignalUnderrun \in BOOLEAN
  /\ isSignalFinished \in BOOLEAN /\ hasOpenUnderrun \in BOOLEAN
  /\ heard \in Seq(Frames)

(* What the session may still do, and what is over for good.                  *)
PlaceInv ==
  /\ control \in Before => heard = <<>> /\ ring = <<>> /\ sent = 0 /\ state \in {"closed", "opened"}
  /\ control \in Before \cup Feeding \cup Finished => ~isSignalGated /\ outcome = "none"
  /\ control = "failed" => outcome = "none"
  /\ control \in Finished => isSignalFinished
  /\ isSignalFinished => sent = SignalFrames
  /\ control = "done" => device = "stopped"

(* What was given to the ring is played, or in the callback, or in the ring.    *)
FlowInv ==
  /\ \A i \in 1 .. Len(played) : played[i] = frameAt(i)
  /\ isFlowing => \A i \in 1 .. Len(ring) : ring[i] = frameAt(Len(played) + i)
  /\ control \in Feeding \cup Finished => Len(played) + Len(ring) = PrefillFrames + sent
  /\ control \in {"drained", "tail"} \/ outcome = "played" =>
       ring = <<>> /\ Len(played) = PrefillFrames + SignalFrames

(* An underrun of the open signal is counted after the baseline, and kept when   *)
(* the signal is finished.                                                    *)
UnderrunInv ==
  /\ underrunBaseline <= underrunFrames
  /\ hasOpenUnderrun => /\ hasSignalStarted /\ control # "baseline"
                        /\ IF isSignalFinished THEN hasSignalUnderrun ELSE IsUnderrun
  /\ outcome = "played" => isSignalFinished /\ ~hasSignalUnderrun

EndpointInv == IInv /\ SessionTypeOK /\ PlaceInv /\ FlowInv /\ UnderrunInv

-----------------------------------------------------------------------------
(* The stream under the session.                                            *)

(* Closing the gate, with the state that poll() returned or without it.        *)
LEMMA GateSignalInv == ASSUME IInv, gateSignal PROVE IInv'
<1>1. state' \in States /\ (state' = state \/ (state' = "faulted" /\ state # "closed"))
  BY DEF gateSignal, Polled, States, IInv, StreamTypeOK
<1>2. /\ isSignalGated' = TRUE
      /\ UNCHANGED <<isDeviceInitialized, isStarted, ring, faultReason, underrunFrames,
                     isStopRequested, device, callback, lateCallbacks>>
  BY DEF gateSignal, deviceVars
<1>3. StreamTypeOK'
  BY <1>1, <1>2 DEF IInv, StreamTypeOK, CallbackOK
<1>4. DeviceInv' /\ GateInv'
  BY <1>1, <1>2 DEF IInv, DeviceInv, GateInv
<1> QED
  BY <1>3, <1>4 DEF IInv

(* The prefill is frames of the stream.                                      *)
LEMMA PrefillIsFrames ==
  /\ [frame \in 1 .. PrefillFrames |-> Silence] \in Seq(Frames)
  /\ Len([frame \in 1 .. PrefillFrames |-> Silence]) = PrefillFrames
<1>1. PrefillFrames \in Nat /\ Silence \in Frames
  BY StreamAssumption
<1> QED
  BY <1>1

(* So is the rest of a block.                                               *)
LEMMA BlockIsFrames ==
  ASSUME NEW first \in Nat, NEW count \in Nat, first + count <= SignalFrames
  PROVE  /\ [i \in 1 .. count |-> first + i] \in Seq(Frames)
         /\ Len([i \in 1 .. count |-> first + i]) = count
<1>1. SignalFrames \in Nat /\ 1 .. SignalFrames \subseteq Frames
  BY SignalAssumption
<1>2. \A i \in 1 .. count : first + i \in Frames
  BY <1>1
<1> QED
  BY <1>2

(* How many of the frames are accepted.                                      *)
LEMMA AcceptedCount ==
  ASSUME IInv, NEW samples \in Seq(Frames), ~isSignalGated
  PROVE  /\ Accepted(samples) \in 0 .. Len(samples)
         /\ Len(samples) <= Capacity - Len(ring) => Accepted(samples) = Len(samples)
<1>1. Len(samples) \in Nat /\ Capacity - Len(ring) \in Nat
  BY StreamAssumption DEF IInv, StreamTypeOK
<1>2. Accepted(samples) = Min({Len(samples), Capacity - Len(ring)})
  BY DEF Accepted
<1>3. /\ Min({Len(samples), Capacity - Len(ring)}) \in {Len(samples), Capacity - Len(ring)}
      /\ Min({Len(samples), Capacity - Len(ring)}) <= Len(samples)
      /\ Min({Len(samples), Capacity - Len(ring)}) <= Capacity - Len(ring)
  BY <1>1, MinOfTwo
<1> QED
  BY <1>1, <1>2, <1>3

(* Whatever the session and the device do, the stream keeps its invariant.     *)
LEMMA StreamStep == ASSUME EndpointInv, [Next]_vars PROVE IInv'
<1>0. IInv /\ sent \in Nat /\ pending \in Nat /\ sent + pending <= SignalFrames
  BY SignalAssumption DEF EndpointInv, SessionTypeOK
<1>1. ASSUME UNCHANGED streamVars PROVE IInv'
  BY <1>0, <1>1, InvNext
<1>2. CASE Session
  <2>1. CASE open
    BY <1>0, <2>1, LifecycleInv DEF open
  <2>2. CASE prefillSilence
    <3>1. queuePlayback([frame \in 1 .. PrefillFrames |-> Silence])
      BY <2>2 DEF prefillSilence, Call
    <3> QED
      BY <1>0, <3>1, PrefillIsFrames, QueueInv
  <2>3. CASE prime
    BY <1>0, <2>3, LifecycleInv DEF prime, Call
  <2>4. CASE start
    BY <1>0, <2>4, LifecycleInv DEF start, Call
  <2>5. CASE ReadBlock \/ ReadBaseline \/ Retry \/ finishSignal \/ Drained \/ HoldTail \/ FinishTail
    BY <1>1, <2>5 DEF ReadBlock, ReadBaseline, Retry, finishSignal, Drained, HoldTail, FinishTail, Check
  <2>6. CASE queue
    <3>1. queuePlayback([i \in 1 .. pending |-> sent + i])
      BY <2>6 DEF queue
    <3> QED
      BY <1>0, <3>1, BlockIsFrames, QueueInv
  <2>7. CASE gateSignal
    BY <1>0, <2>7, GateSignalInv
  <2>8. CASE requestStopEndpoint
    BY <1>0, <1>1, <2>8, LifecycleInv DEF requestStopEndpoint, Cleanup
  <2>9. CASE stop
    BY <1>0, <1>1, <2>9, LifecycleInv DEF stop, Cleanup
  <2>10. CASE close
    BY <1>0, <1>1, <2>10, LifecycleInv DEF close, Cleanup
  <2> QED
    BY <1>2, <2>1, <2>2, <2>3, <2>4, <2>5, <2>6, <2>7, <2>8, <2>9, <2>10 DEF Session
<1>3. CASE DeviceThread
  BY <1>0, <1>3, BeginInv, PopInv, AccountInv, NotificationInv DEF DeviceThread
<1>4. CASE UNCHANGED vars
  BY <1>1, <1>4 DEF vars
<1> QED
  BY <1>2, <1>3, <1>4 DEF Next

-----------------------------------------------------------------------------
(* The flow of frames.                                                      *)

(* Taking some frames off a ring and playing them keeps the frames in order.   *)
LEMMA FlowOrder ==
  ASSUME NEW before \in Seq(Frames), NEW buffer \in Seq(Frames), NEW count \in 0 .. Len(buffer)
  PROVE  /\ SubSeq(buffer, 1, count) \in Seq(Frames) /\ Len(SubSeq(buffer, 1, count)) = count
         /\ Len(before \o SubSeq(buffer, 1, count)) = Len(before) + count
         /\ SubSeq(buffer, count + 1, Len(buffer)) \in Seq(Frames)
         /\ Len(SubSeq(buffer, count + 1, Len(buffer))) = Len(buffer) - count
         /\ (\A i \in 1 .. Len(before) : before[i] = frameAt(i))
              /\ (\A i \in 1 .. Len(buffer) : buffer[i] = frameAt(Len(before) + i))
              => /\ \A i \in 1 .. Len(before) + count :
                      (before \o SubSeq(buffer, 1, count))[i] = frameAt(i)
                 /\ \A i \in 1 .. Len(buffer) - count :
                      SubSeq(buffer, count + 1, Len(buffer))[i] = frameAt(Len(before) + count + i)
<1> DEFINE taken == SubSeq(buffer, 1, count)
           left == SubSeq(buffer, count + 1, Len(buffer))
<1>1. Len(before) \in Nat /\ Len(buffer) \in Nat /\ count \in Nat
  OBVIOUS
<1>2. /\ taken \in Seq(Frames) /\ Len(taken) = count
      /\ left \in Seq(Frames) /\ Len(left) = Len(buffer) - count
      /\ \A i \in 1 .. count : taken[i] = buffer[i]
      /\ \A i \in 1 .. Len(buffer) - count : left[i] = buffer[count + i]
  BY <1>1
<1> HIDE DEF taken, left
<1>3. /\ before \o taken \in Seq(Frames) /\ Len(before \o taken) = Len(before) + count
      /\ \A i \in 1 .. Len(before) + count :
           (before \o taken)[i] = IF i <= Len(before) THEN before[i] ELSE taken[i - Len(before)]
  BY <1>2, ConcatProperties
<1>4. ASSUME \A i \in 1 .. Len(before) : before[i] = frameAt(i),
             \A i \in 1 .. Len(buffer) : buffer[i] = frameAt(Len(before) + i)
      PROVE  /\ \A i \in 1 .. Len(before) + count : (before \o taken)[i] = frameAt(i)
             /\ \A i \in 1 .. Len(buffer) - count : left[i] = frameAt(Len(before) + count + i)
  <2>1. ASSUME NEW i \in 1 .. Len(before) + count PROVE (before \o taken)[i] = frameAt(i)
    <3>1. CASE i <= Len(before)
      BY <1>1, <1>3, <1>4, <3>1
    <3>2. CASE ~(i <= Len(before))
      <4>1. i - Len(before) \in 1 .. count /\ i - Len(before) \in 1 .. Len(buffer)
              /\ Len(before) + (i - Len(before)) = i
        BY <1>1, <3>2
      <4>2. (before \o taken)[i] = buffer[i - Len(before)]
        BY <1>2, <1>3, <3>2, <4>1
      <4> QED
        BY <1>4, <4>1, <4>2
    <3> QED
      BY <3>1, <3>2
  <2>2. ASSUME NEW i \in 1 .. Len(buffer) - count PROVE left[i] = frameAt(Len(before) + count + i)
    <3>1. count + i \in 1 .. Len(buffer) /\ Len(before) + (count + i) = Len(before) + count + i
      BY <1>1
    <3> QED
      BY <1>2, <1>4, <3>1
  <2> QED
    BY <2>1, <2>2
<1> QED
  BY <1>2, <1>3, <1>4 DEF taken, left

(* What a pop takes and where it goes.                                       *)
LEMMA PopEffect ==
  ASSUME IInv, CallbackPop
  PROVE  /\ callback.at = "pop" /\ callback'.isSignalGated = callback.isSignalGated
         /\ \E count \in 0 .. Len(ring) :
              /\ ring' = SubSeq(ring, count + 1, Len(ring))
              /\ callback'.output = IF callback.isSignalGated THEN callback.output
                                    ELSE callback.output \o SubSeq(ring, 1, count)
<1> DEFINE chunk == Min({callback.frameCount - callback.processed, ScratchFrames})
           popped == Min({chunk, Len(ring)})
<1>1. /\ callback.at = "pop"
      /\ ring' = SubSeq(ring, popped + 1, Len(ring))
      /\ callback' = [callback EXCEPT
           !.at = IF popped < chunk \/ callback.processed + chunk = callback.frameCount
                  THEN "account" ELSE "pop",
           !.processed = callback.processed + chunk,
           !.output = IF callback.isSignalGated THEN @ ELSE @ \o SubSeq(ring, 1, popped)]
  BY DEF CallbackPop, PopChunk
<1>2. /\ callback.frameCount \in Nat /\ callback.processed \in 0 .. callback.frameCount
      /\ Len(ring) \in Nat
  <2>1. callback.frameCount \in Periods \cup {0}
    BY DEF IInv, StreamTypeOK, CallbackOK
  <2> QED
    BY <2>1, FrameCounts DEF IInv, StreamTypeOK, CallbackOK
<1>3. chunk \in Nat
  BY <1>2, MinOfTwo, StreamAssumption
<1> HIDE DEF chunk
<1>4. popped \in 0 .. Len(ring)
  <2>1. popped \in Nat /\ popped <= Len(ring)
    BY <1>2, <1>3, MinOfTwo
  <2> QED
    BY <1>2, <2>1
<1> HIDE DEF popped
<1>5. /\ callback'.isSignalGated = callback.isSignalGated
      /\ callback'.output = IF callback.isSignalGated THEN callback.output
                            ELSE callback.output \o SubSeq(ring, 1, popped)
  BY <1>1 DEF IInv, StreamTypeOK
<1> QED
  BY <1>1, <1>4, <1>5

(* The device thread takes frames off the ring and plays them, or drops them    *)
(* behind a gate that is closed for good.                                    *)
LEMMA DeviceFlow ==
  ASSUME EndpointInv, DeviceThread
  PROVE  /\ UNCHANGED <<control, sent, pending, outcome, endpointVars, isSignalGated>>
         /\ heard' \in Seq(Frames)
         /\ \E count \in 0 .. Len(ring) :
              /\ ring' = SubSeq(ring, count + 1, Len(ring))
              /\ \/ isFlowing /\ played' = played \o SubSeq(ring, 1, count)
                 \/ count = 0 /\ played' = played /\ (isFlowing' => isFlowing)
                 \/ played' = played /\ ~isFlowing /\ ~isFlowing'
<1>0. /\ heard \in Seq(Frames) /\ callback.output \in Seq(Frames) /\ ring \in Seq(Frames)
      /\ IInv /\ GateInv /\ played \in Seq(Frames)
  BY ConcatProperties DEF EndpointInv, IInv, StreamTypeOK, CallbackOK, SessionTypeOK, played
<1>1. UNCHANGED <<control, sent, pending, outcome, endpointVars, isSignalGated>>
  BY DEF DeviceThread, CallbackBegin, BeginWith, CallbackPop, PopChunk, CallbackAccount,
         CallbackWithoutOutput, DeviceStopped, DeviceDisturbed
<1>2. /\ SubSeq(ring, 1, 0) = <<>> /\ SubSeq(ring, 0 + 1, Len(ring)) = ring /\ 0 \in 0 .. Len(ring)
      /\ played \o <<>> = played
  <2>1. Len(ring) \in Nat
    BY <1>0
  <2>2. SubSeq(ring, 1, 0) = <<>> /\ SubSeq(ring, 1, Len(ring)) = ring
    BY <1>0, <2>1
  <2> QED
    BY <1>0, <2>1, <2>2, ConcatEmptySeq
<1>3. ASSUME ring' = ring, played' = played, isFlowing' => isFlowing, heard' \in Seq(Frames)
      PROVE  /\ heard' \in Seq(Frames)
             /\ \E count \in 0 .. Len(ring) :
              /\ ring' = SubSeq(ring, count + 1, Len(ring))
              /\ \/ isFlowing /\ played' = played \o SubSeq(ring, 1, count)
                 \/ count = 0 /\ played' = played /\ (isFlowing' => isFlowing)
                 \/ played' = played /\ ~isFlowing /\ ~isFlowing'
  BY <1>2, <1>3
<1>4. CASE CallbackAccount /\ Hear
  <2>1. /\ UNCHANGED <<ring, isSignalGated>> /\ heard' = heard \o callback.output
        /\ callback'.at = "idle" /\ callback'.output = <<>> /\ callback.at = "account"
    BY <1>4 DEF CallbackAccount, Hear, NoCallback
  <2>2. heard' \in Seq(Frames) /\ heard' \o <<>> = heard'
    BY <1>0, <2>1, ConcatProperties, ConcatEmptySeq
  <2>3. played' = played
    BY <2>1, <2>2 DEF played
  <2>4. isFlowing' => isFlowing
    BY <2>1 DEF isFlowing
  <2> QED
    BY <1>1, <1>3, <2>1, <2>2, <2>3, <2>4
<1>5. CASE CallbackBegin /\ UNCHANGED historyVars
  <2>1. /\ UNCHANGED <<ring, isSignalGated, heard>> /\ callback.at = "idle"
        /\ callback'.output = <<>> /\ callback'.isSignalGated = isSignalGated
    BY <1>5 DEF CallbackBegin, BeginWith, NoCallback, historyVars
  <2>2. callback.output = <<>>
    BY <1>0, <2>1 DEF GateInv
  <2>3. played' = played /\ (isFlowing' => isFlowing)
    BY <2>1, <2>2 DEF played, isFlowing
  <2> QED
    BY <1>0, <1>1, <1>3, <2>1, <2>3
<1>6. CASE CallbackPop /\ UNCHANGED historyVars
  <2>1. UNCHANGED <<heard, isSignalGated>> /\ callback.at = "pop"
          /\ callback'.isSignalGated = callback.isSignalGated
    BY <1>0, <1>1, <1>6, PopEffect DEF historyVars
  <2>2. PICK count \in 0 .. Len(ring) :
              /\ ring' = SubSeq(ring, count + 1, Len(ring))
              /\ callback'.output = IF callback.isSignalGated THEN callback.output
                                    ELSE callback.output \o SubSeq(ring, 1, count)
    BY <1>0, <1>6, PopEffect
  <2>3. SubSeq(ring, 1, count) \in Seq(Frames)
    BY <1>0
  <2>4. CASE callback.isSignalGated
    <3>1. isSignalGated
      BY <1>0, <2>4 DEF GateInv
    <3>2. played' = played /\ ~isFlowing /\ ~isFlowing'
      BY <2>1, <2>2, <2>4, <3>1 DEF played, isFlowing
    <3> QED
      BY <1>0, <1>1, <2>1, <2>2, <3>2
  <2>5. CASE ~callback.isSignalGated
    <3>1. played' = played \o SubSeq(ring, 1, count)
      <4>1. played' = heard \o (callback.output \o SubSeq(ring, 1, count))
        BY <2>1, <2>2, <2>5 DEF played
      <4>2. /\ heard \in Seq(Frames) /\ callback.output \in Seq(Frames)
            /\ SubSeq(ring, 1, count) \in Seq(Frames)
        BY <1>0, <2>3
      <4>3. (heard \o callback.output) \o SubSeq(ring, 1, count)
              = heard \o (callback.output \o SubSeq(ring, 1, count))
        <5> DEFINE chunk == SubSeq(ring, 1, count)
                   output == callback.output
        <5> HIDE DEF chunk, output
        <5>1. heard \in Seq(Frames) /\ output \in Seq(Frames) /\ chunk \in Seq(Frames)
          BY <4>2 DEF chunk, output
        <5>2. (heard \o output) \o chunk = heard \o (output \o chunk)
          BY <5>1, SMT
        <5> QED
          BY <5>2 DEF chunk, output
      <4>4. played = heard \o callback.output
        BY DEF played
      <4> QED
        BY <4>1, <4>3, <4>4, Zenon
    <3>2. isFlowing
      BY <2>1, <2>5 DEF isFlowing
    <3> QED
      BY <1>0, <1>1, <2>1, <2>2, <3>1, <3>2
  <2> QED
    BY <2>4, <2>5
<1>7. CASE (CallbackWithoutOutput \/ DeviceStopped \/ DeviceDisturbed) /\ UNCHANGED historyVars
  <2>1. UNCHANGED <<ring, isSignalGated, heard, callback>>
    BY <1>7 DEF CallbackWithoutOutput, DeviceStopped, DeviceDisturbed, deviceVars, historyVars
  <2>2. played' = played /\ (isFlowing' => isFlowing)
    BY <2>1 DEF played, isFlowing
  <2> QED
    BY <1>0, <1>1, <1>3, <2>1, <2>2
<1> QED
  BY <1>4, <1>5, <1>6, <1>7 DEF DeviceThread

(* The session plays nothing itself, and only its two queueing calls touch the  *)
(* ring.                                                                    *)
LEMMA SessionKeeps ==
  ASSUME Session
  PROVE  /\ UNCHANGED <<heard, hasOpenUnderrun, callback, underrunFrames>>
         /\ prefillSilence \/ queue \/ UNCHANGED ring
         /\ gateSignal \/ UNCHANGED isSignalGated
<1>1. CASE open
  BY <1>1 DEF open, Open, historyVars, deviceVars
<1>2. CASE prefillSilence
  BY <1>2 DEF prefillSilence, Call, queuePlayback, historyVars, deviceVars
<1>3. CASE prime
  BY <1>3 DEF prime, Call, Prime, historyVars, deviceVars
<1>4. CASE start
  BY <1>4 DEF start, Call, Start, historyVars, deviceVars
<1>5. CASE ReadBlock \/ ReadBaseline \/ Retry \/ finishSignal \/ Drained \/ HoldTail \/ FinishTail
  BY <1>5 DEF ReadBlock, ReadBaseline, Retry, finishSignal, Drained, HoldTail, FinishTail, Check,
              historyVars, streamVars, deviceVars
<1>6. CASE queue
  BY <1>6 DEF queue, queuePlayback, historyVars, deviceVars
<1>7. CASE gateSignal
  BY <1>7 DEF gateSignal, historyVars, deviceVars
<1>8. CASE requestStopEndpoint
  BY <1>8 DEF requestStopEndpoint, Cleanup, requestStop, historyVars, streamVars, deviceVars
<1>9. CASE stop
  BY <1>9 DEF stop, Cleanup, Stop, historyVars, streamVars, deviceVars
<1>10. CASE close
  BY <1>10 DEF close, Cleanup, Close, historyVars, streamVars, deviceVars
<1> QED
  BY <1>1, <1>2, <1>3, <1>4, <1>5, <1>6, <1>7, <1>8, <1>9, <1>10 DEF Session

(* What a queue() does to the numbers of the session.                         *)
LEMMA QueueCounts ==
  ASSUME EndpointInv, queue
  PROVE  /\ Accepted([i \in 1 .. pending |-> sent + i]) \in 0 .. pending
         /\ ring' = ring \o SubSeq([i \in 1 .. pending |-> sent + i], 1,
                                   Accepted([i \in 1 .. pending |-> sent + i]))
         /\ sent' = sent + Accepted([i \in 1 .. pending |-> sent + i])
         /\ pending' = pending - Accepted([i \in 1 .. pending |-> sent + i])
         /\ hasSignalStarted' \in BOOLEAN /\ (hasSignalStarted => hasSignalStarted')
         /\ control' \in {"backpressure", "baseline", "head", "sending"}
         /\ hasSignalStarted => control' # "baseline"
<1> DEFINE samples == [i \in 1 .. pending |-> sent + i]
<1>1. /\ sent \in Nat /\ pending \in Nat /\ sent + pending <= SignalFrames
      /\ IInv /\ control = "sending" /\ ~isSignalGated /\ hasSignalStarted \in BOOLEAN
  BY SignalAssumption DEF EndpointInv, SessionTypeOK, PlaceInv, Feeding, queue
<1>2. samples \in Seq(Frames) /\ Len(samples) = pending
  BY <1>1, BlockIsFrames
<1>3. /\ ring' = ring \o SubSeq(samples, 1, Accepted(samples))
      /\ sent' = sent + Accepted(samples) /\ pending' = pending - Accepted(samples)
      /\ hasSignalStarted' = (hasSignalStarted \/ Accepted(samples) # 0)
      /\ control' = IF Accepted(samples) = 0 THEN "backpressure"
                    ELSE IF ~hasSignalStarted THEN "baseline"
                    ELSE IF Accepted(samples) = pending THEN "head" ELSE "sending"
  BY DEF queue, queuePlayback, Written
<1> HIDE DEF samples
<1>4. Accepted(samples) \in 0 .. pending
  BY <1>1, <1>2, AcceptedCount
<1>5. hasSignalStarted' \in BOOLEAN /\ (hasSignalStarted => hasSignalStarted')
  BY <1>1, <1>3
<1>6. /\ control' \in {"backpressure", "baseline", "head", "sending"}
      /\ hasSignalStarted => control' # "baseline"
  BY <1>3
<1> QED
  BY <1>3, <1>4, <1>5, <1>6 DEF samples

(* The session's variables keep their types.                                 *)
LEMMA SessionTypeStep == ASSUME EndpointInv, [Next]_vars PROVE SessionTypeOK'
<1>0. SessionTypeOK /\ SignalFrames \in Nat /\ IInv
  BY SignalAssumption DEF EndpointInv
<1>1. CASE Session
  <2>0. UNCHANGED <<heard, hasOpenUnderrun>>
    BY <1>1, SessionKeeps
  <2>1. CASE open \/ prefillSilence \/ prime \/ start
    BY <1>0, <2>0, <2>1 DEF open, prefillSilence, prime, start, Call, SessionTypeOK, endpointVars,
                            Before, Feeding, Cleaning
  <2>2. CASE ReadBlock
    <3>1. /\ pending' \in 1 .. Min({MaxBlock, SignalFrames - sent}) /\ sent < SignalFrames
          /\ sent' = sent /\ control' = "sending" /\ UNCHANGED <<outcome, endpointVars>>
      BY <2>2 DEF ReadBlock, Check
    <3>2. sent \in Nat /\ SignalFrames - sent \in Nat /\ MaxBlock \in Nat
      BY <1>0, <3>1, StreamAssumption DEF SessionTypeOK
    <3>3. /\ Min({MaxBlock, SignalFrames - sent}) \in Nat
          /\ Min({MaxBlock, SignalFrames - sent}) <= SignalFrames - sent
      BY <3>2, MinOfTwo
    <3>4. pending' \in 0 .. SignalFrames - sent'
      BY <3>1, <3>2, <3>3
    <3> QED
      BY <1>0, <2>0, <3>1, <3>4 DEF SessionTypeOK, endpointVars, Feeding
  <2>3. CASE queue
    <3>1. sent' \in 0 .. SignalFrames /\ pending' \in 0 .. SignalFrames - sent'
      <4> DEFINE written == Accepted([i \in 1 .. pending |-> sent + i])
      <4>1. written \in 0 .. pending /\ sent' = sent + written /\ pending' = pending - written
        BY <2>3, QueueCounts
      <4> HIDE DEF written
      <4> QED
        BY <1>0, <4>1 DEF SessionTypeOK
    <3>2. hasSignalStarted' \in BOOLEAN /\ control' \in Feeding
      BY <2>3, QueueCounts DEF Feeding
    <3> QED
      BY <1>0, <2>0, <2>3, <3>1, <3>2 DEF queue, SessionTypeOK
  <2>4. CASE ReadBaseline
    BY <1>0, <2>0, <2>4 DEF ReadBaseline, SessionTypeOK, Feeding, IInv, StreamTypeOK
  <2>5. CASE Retry \/ Drained \/ HoldTail \/ FinishTail
    BY <1>0, <2>0, <2>5 DEF Retry, Drained, HoldTail, FinishTail, Check, SessionTypeOK,
                            endpointVars, Feeding, Finished, Cleaning
  <2>6. CASE finishSignal
    <3>1. hasSignalUnderrun' \in BOOLEAN
      BY <1>0, <2>6 DEF finishSignal, SessionTypeOK
    <3> QED
      BY <1>0, <2>0, <2>6, <3>1 DEF finishSignal, SessionTypeOK, Finished
  <2>7. CASE gateSignal
    BY <1>0, <2>0, <2>7 DEF gateSignal, SessionTypeOK, endpointVars, Cleaning
  <2>8. CASE requestStopEndpoint \/ stop \/ close
    BY <1>0, <2>0, <2>8 DEF requestStopEndpoint, stop, close, Cleanup, SessionTypeOK,
                            endpointVars, Cleaning
  <2> QED
    BY <1>1, <2>1, <2>2, <2>3, <2>4, <2>5, <2>6, <2>7, <2>8 DEF Session
<1>2. CASE DeviceThread
  <2>1. UNCHANGED <<control, sent, pending, outcome, endpointVars>> /\ heard' \in Seq(Frames)
    BY <1>2, DeviceFlow
  <2>2. hasOpenUnderrun' \in BOOLEAN
    BY <1>0, <1>2 DEF DeviceThread, Hear, historyVars, SessionTypeOK
  <2> QED
    BY <1>0, <2>1, <2>2 DEF SessionTypeOK, endpointVars
<1>3. CASE UNCHANGED vars
  BY <1>0, <1>3 DEF vars, SessionTypeOK, endpointVars, historyVars
<1> QED
  BY <1>1, <1>2, <1>3 DEF Next

(* What the session may still do follows its place.                            *)
LEMMA PlaceStep == ASSUME EndpointInv, [Next]_vars PROVE PlaceInv'
<1>0. /\ PlaceInv /\ SessionTypeOK /\ IInv /\ DeviceInv
      /\ SignalFrames \in Nat /\ device \in {"stopped", "running"}
  BY SignalAssumption DEF EndpointInv, IInv, StreamTypeOK
<1>1. CASE Session
  <2>0. /\ UNCHANGED heard /\ (prefillSilence \/ queue \/ UNCHANGED ring)
        /\ (gateSignal \/ UNCHANGED isSignalGated)
    BY <1>1, SessionKeeps
  <2>1. CASE open
    <3>1. /\ control = "new" /\ state = "closed" /\ state' \in {"closed", "opened", "faulted"}
          /\ UNCHANGED <<device, ring, isSignalGated, sent, isSignalFinished>>
          /\ control' = IF state' = "opened" THEN "opened" ELSE "done"
          /\ outcome' = IF state' = "opened" THEN outcome ELSE "failed"
      BY <2>1 DEF open, Open, AdapterOpens, AdapterOpensInVain, markAdapterFault, endpointVars,
                  deviceVars
    <3>2. device = "stopped"
      BY <1>0, <3>1 DEF DeviceInv
    <3> QED
      BY <1>0, <2>0, <3>1, <3>2 DEF PlaceInv, Before, Feeding, Finished
  <2>2. CASE prefillSilence \/ prime \/ start
    <3>1. /\ control \in Before \cup Feeding /\ control' \in Feeding \cup {"failed"}
          /\ UNCHANGED <<isSignalGated, sent, outcome, isSignalFinished>>
      BY <2>2 DEF prefillSilence, prime, start, Call, queuePlayback, Prime, Start, endpointVars,
                  Before, Feeding
    <3> QED
      BY <1>0, <3>1 DEF PlaceInv, Before, Feeding, Finished
  <2>3. CASE ReadBlock \/ ReadBaseline \/ Retry
    <3>1. /\ control \in Feeding /\ control' \in Feeding
          /\ UNCHANGED <<isSignalGated, sent, outcome, isSignalFinished>>
      BY <2>3 DEF ReadBlock, ReadBaseline, Retry, Check, streamVars, endpointVars, Feeding
    <3> QED
      BY <1>0, <3>1 DEF PlaceInv, Before, Feeding, Finished
  <2>4. CASE queue
    <3> DEFINE written == Accepted([i \in 1 .. pending |-> sent + i])
    <3>1. /\ written \in 0 .. pending /\ sent' = sent + written
          /\ control = "sending" /\ control' \in Feeding
          /\ UNCHANGED <<isSignalGated, outcome, isSignalFinished>>
      BY <2>4, QueueCounts DEF queue, queuePlayback, Feeding
    <3> HIDE DEF written
    <3>2. isSignalFinished => sent' = SignalFrames
      BY <1>0, <3>1 DEF PlaceInv, SessionTypeOK
    <3> QED
      BY <1>0, <3>1, <3>2 DEF PlaceInv, Before, Feeding, Finished
  <2>5. CASE finishSignal \/ Drained \/ HoldTail
    <3>1. /\ control \in Feeding \cup Finished /\ control' \in Finished
          /\ isSignalFinished' /\ sent' = SignalFrames
          /\ UNCHANGED <<isSignalGated, outcome>>
      BY <1>0, <2>5 DEF finishSignal, Drained, HoldTail, Check, streamVars, endpointVars, Feeding,
                        Finished, PlaceInv
    <3> QED
      BY <1>0, <3>1 DEF PlaceInv, Before, Feeding, Finished
  <2>6. CASE FinishTail \/ gateSignal
    <3>1. control' = "requestStop" /\ UNCHANGED <<sent, isSignalFinished>>
      BY <2>6 DEF FinishTail, gateSignal, endpointVars
    <3> QED
      BY <1>0, <3>1 DEF PlaceInv, Before, Feeding, Finished
  <2>7. CASE requestStopEndpoint \/ stop
    <3>1. control' \in {"stop", "close"} /\ UNCHANGED <<sent, isSignalFinished>>
      BY <2>7 DEF requestStopEndpoint, stop, Cleanup, endpointVars
    <3> QED
      BY <1>0, <3>1 DEF PlaceInv, Before, Feeding, Finished
  <2>8. CASE close
    <3>1. /\ control' = "done" /\ UNCHANGED <<sent, isSignalFinished>>
          /\ (state = "closed" /\ device' = device) \/ device' = "stopped"
      BY <2>8 DEF close, Cleanup, Close, endpointVars, streamVars, deviceVars
    <3>2. device' = "stopped"
      BY <1>0, <3>1 DEF DeviceInv
    <3> QED
      BY <1>0, <3>1, <3>2 DEF PlaceInv, Before, Feeding, Finished
  <2> QED
    BY <1>1, <2>1, <2>2, <2>3, <2>4, <2>5, <2>6, <2>7, <2>8 DEF Session
<1>2. CASE DeviceThread
  <2>1. UNCHANGED <<control, sent, outcome, isSignalFinished, isSignalGated>>
    BY <1>2, DeviceFlow DEF endpointVars
  <2>2. state' = state /\ device = "running"
    BY <1>0, <1>2 DEF DeviceThread, CallbackBegin, BeginWith, CallbackPop, PopChunk,
         CallbackAccount, CallbackWithoutOutput, DeviceStopped, DeviceDisturbed, controlVars,
         DeviceInv
  <2>3. control \notin Before /\ control # "done"
    BY <1>0, <2>2 DEF PlaceInv, DeviceInv
  <2> QED
    BY <1>0, <2>1, <2>3 DEF PlaceInv
<1>3. CASE UNCHANGED vars
  BY <1>0, <1>3 DEF vars, streamVars, deviceVars, endpointVars, historyVars, controlVars, PlaceInv
<1> QED
  BY <1>1, <1>2, <1>3 DEF Next

(* Underruns are only counted up.                                            *)
LEMMA UnderrunsGrow ==
  ASSUME EndpointInv, DeviceThread
  PROVE  underrunFrames' \in Nat /\ underrunFrames' >= underrunFrames
<1>0. /\ underrunFrames \in Nat /\ callback.frameCount \in Periods \cup {0}
      /\ callback.processed \in 0 .. callback.frameCount
      /\ callback.output \in Seq(Frames) /\ Len(callback.output) <= callback.processed
  BY DEF EndpointInv, IInv, StreamTypeOK, CallbackOK
<1>1. CASE CallbackAccount
  <2>1. underrunFrames' = underrunFrames + (IF callback.isSignalGated THEN 0 ELSE zeroFilled)
    BY <1>1 DEF CallbackAccount
  <2>2. zeroFilled \in Nat
    BY <1>0, FrameCounts DEF zeroFilled
  <2>3. (IF callback.isSignalGated THEN 0 ELSE zeroFilled) \in Nat
    BY <2>2
  <2> QED
    BY <1>0, <2>1, <2>3
<1>2. CASE CallbackWithoutOutput
  <2>1. PICK frameCount \in Periods \ {0} :
          underrunFrames' = underrunFrames + (IF isSignalGated THEN 0 ELSE frameCount)
    BY <1>2 DEF CallbackWithoutOutput
  <2>2. frameCount \in Nat
    BY FrameCounts
  <2> QED
    BY <1>0, <2>1, <2>2
<1>3. CASE UNCHANGED underrunFrames
  BY <1>0, <1>3
<1> QED
  BY <1>1, <1>2, <1>3 DEF DeviceThread, CallbackBegin, BeginWith, CallbackPop, PopChunk,
                          DeviceStopped, DeviceDisturbed

(* An underrun of the open signal leaves its trace.                           *)
LEMMA UnderrunStep == ASSUME EndpointInv, [Next]_vars PROVE UnderrunInv'
<1>0. /\ UnderrunInv /\ PlaceInv /\ SessionTypeOK
      /\ underrunFrames \in Nat /\ underrunBaseline \in Nat
  BY DEF EndpointInv, IInv, StreamTypeOK, SessionTypeOK
<1>1. CASE Session
  <2>0. UNCHANGED <<hasOpenUnderrun, underrunFrames>>
    BY <1>1, SessionKeeps
  <2>1. CASE open \/ prefillSilence \/ prime \/ start
    <3>1. /\ UNCHANGED endpointVars /\ control' # "baseline"
          /\ outcome' \in {outcome, "failed"}
      BY <2>1 DEF open, prefillSilence, prime, start, Call
    <3> QED
      BY <1>0, <2>0, <3>1 DEF UnderrunInv, IsUnderrun, endpointVars
  <2>2. CASE ReadBlock \/ Retry \/ Drained \/ HoldTail
    <3>1. UNCHANGED <<endpointVars, outcome>> /\ control' # "baseline"
      BY <2>2 DEF ReadBlock, Retry, Drained, HoldTail, Check
    <3> QED
      BY <1>0, <2>0, <3>1 DEF UnderrunInv, IsUnderrun, endpointVars
  <2>3. CASE queue
    <3>1. /\ hasSignalStarted => hasSignalStarted' /\ control' # "baseline"
          /\ UNCHANGED <<outcome, underrunBaseline, hasSignalUnderrun, isSignalFinished>>
      BY <2>3, QueueCounts DEF queue
    <3> QED
      BY <1>0, <2>0, <3>1 DEF UnderrunInv, IsUnderrun
  <2>4. CASE ReadBaseline
    <3>1. /\ control = "baseline" /\ underrunBaseline' = underrunFrames
          /\ UNCHANGED <<outcome, hasSignalUnderrun, isSignalFinished>>
      BY <2>4 DEF ReadBaseline
    <3> QED
      BY <1>0, <2>0, <3>1 DEF UnderrunInv
  <2>5. CASE finishSignal
    <3>1. /\ hasSignalUnderrun' = (hasSignalUnderrun \/ (hasSignalStarted /\ IsUnderrun))
          /\ isSignalFinished' /\ control' # "baseline" /\ control = "head"
          /\ UNCHANGED <<outcome, underrunBaseline, hasSignalStarted>>
      BY <2>5 DEF finishSignal
    <3>2. outcome # "played"
      BY <1>0, <3>1 DEF PlaceInv, Feeding
    <3>3. hasOpenUnderrun => hasSignalUnderrun'
      BY <1>0, <3>1 DEF UnderrunInv
    <3> QED
      BY <1>0, <2>0, <3>1, <3>2, <3>3 DEF UnderrunInv
  <2>6. CASE FinishTail
    <3>1. /\ control = "tail" /\ ~hasSignalUnderrun /\ control' # "baseline"
          /\ UNCHANGED endpointVars
      BY <2>6 DEF FinishTail, HasFault
    <3>2. isSignalFinished
      BY <1>0, <3>1 DEF PlaceInv, Finished
    <3> QED
      BY <1>0, <2>0, <3>1, <3>2 DEF UnderrunInv, IsUnderrun, endpointVars
  <2>7. CASE gateSignal \/ requestStopEndpoint \/ stop \/ close
    <3>1. /\ UNCHANGED endpointVars /\ control' # "baseline"
          /\ outcome' \in {outcome, "failed"}
      BY <2>7 DEF gateSignal, requestStopEndpoint, stop, close, Cleanup
    <3> QED
      BY <1>0, <2>0, <3>1 DEF UnderrunInv, IsUnderrun, endpointVars
  <2> QED
    BY <1>1, <2>1, <2>2, <2>3, <2>4, <2>5, <2>6, <2>7 DEF Session
<1>2. CASE DeviceThread
  <2>1. UNCHANGED <<control, outcome, underrunBaseline, hasSignalStarted, hasSignalUnderrun,
                    isSignalFinished>>
    BY <1>2, DeviceFlow DEF endpointVars
  <2>2. underrunFrames' \in Nat /\ underrunFrames' >= underrunFrames
    BY <1>2, UnderrunsGrow
  <2>3. hasOpenUnderrun' => hasOpenUnderrun \/ (underrunFrames' > underrunFrames /\ IsOpen)
    BY <1>0, <1>2 DEF DeviceThread, Hear, historyVars, SessionTypeOK
  <2>4. hasOpenUnderrun' => /\ hasSignalStarted /\ control # "baseline"
                            /\ IF isSignalFinished THEN hasSignalUnderrun
                               ELSE underrunFrames' > underrunBaseline
    BY <1>0, <2>2, <2>3 DEF UnderrunInv, IsUnderrun, IsOpen
  <2> QED
    BY <1>0, <2>1, <2>2, <2>4 DEF UnderrunInv, IsUnderrun
<1>3. CASE UNCHANGED vars
  BY <1>0, <1>3 DEF vars, streamVars, endpointVars, historyVars, UnderrunInv, IsUnderrun
<1> QED
  BY <1>1, <1>2, <1>3 DEF Next

(* Frames that follow those in the ring go on where these end.                  *)
LEMMA QueueOrder ==
  ASSUME NEW start0 \in Nat, NEW buffer \in Seq(Frames), NEW samples \in Seq(Frames),
         NEW count \in 0 .. Len(samples),
         \A i \in 1 .. Len(buffer) : buffer[i] = frameAt(start0 + i),
         \A i \in 1 .. count : samples[i] = frameAt(start0 + Len(buffer) + i)
  PROVE  /\ Len(buffer \o SubSeq(samples, 1, count)) = Len(buffer) + count
         /\ \A i \in 1 .. Len(buffer) + count :
              (buffer \o SubSeq(samples, 1, count))[i] = frameAt(start0 + i)
<1> DEFINE taken == SubSeq(samples, 1, count)
<1>1. Len(buffer) \in Nat /\ Len(samples) \in Nat /\ count \in Nat
  OBVIOUS
<1>2. taken \in Seq(Frames) /\ Len(taken) = count /\ \A i \in 1 .. count : taken[i] = samples[i]
  BY <1>1
<1> HIDE DEF taken
<1>3. /\ Len(buffer \o taken) = Len(buffer) + count
      /\ \A i \in 1 .. Len(buffer) + count :
           (buffer \o taken)[i] = IF i <= Len(buffer) THEN buffer[i] ELSE taken[i - Len(buffer)]
  BY <1>2, ConcatProperties
<1>4. ASSUME NEW i \in 1 .. Len(buffer) + count PROVE (buffer \o taken)[i] = frameAt(start0 + i)
  <2>1. CASE i <= Len(buffer)
    BY <1>1, <1>3, <2>1
  <2>2. CASE ~(i <= Len(buffer))
    <3>1. i - Len(buffer) \in 1 .. count /\ start0 + Len(buffer) + (i - Len(buffer)) = start0 + i
      BY <1>1, <2>2
    <3>2. (buffer \o taken)[i] = samples[i - Len(buffer)]
      BY <1>2, <1>3, <2>2, <3>1
    <3> QED
      BY <3>1, <3>2
  <2> QED
    BY <2>1, <2>2
<1> QED
  BY <1>3, <1>4 DEF taken

(* What is given to the ring is given in order, whole blocks or not.            *)
LEMMA QueueFlow ==
  ASSUME EndpointInv, queue
  PROVE  /\ \A i \in 1 .. Len(ring') : ring'[i] = frameAt(Len(played) + i)
         /\ Len(played) + Len(ring') = PrefillFrames + sent'
<1> DEFINE samples == [i \in 1 .. pending |-> sent + i]
           written == Accepted(samples)
<1>1. /\ sent \in Nat /\ pending \in Nat /\ sent + pending <= SignalFrames
      /\ ring \in Seq(Frames) /\ PrefillFrames \in Nat /\ PrefillFrames >= 1
  BY SignalAssumption, StreamAssumption
  DEF EndpointInv, IInv, StreamTypeOK, SessionTypeOK
<1>2. played \in Seq(Frames)
  BY ConcatProperties DEF EndpointInv, IInv, StreamTypeOK, CallbackOK, SessionTypeOK, played
<1>3. /\ \A i \in 1 .. Len(ring) : ring[i] = frameAt(Len(played) + i)
      /\ Len(played) + Len(ring) = PrefillFrames + sent
  BY DEF EndpointInv, PlaceInv, FlowInv, isFlowing, queue, Feeding
<1>4. /\ written \in 0 .. pending /\ sent' = sent + written
      /\ ring' = ring \o SubSeq(samples, 1, written)
  BY QueueCounts
<1>5. samples \in Seq(Frames) /\ Len(samples) = pending
  BY <1>1, BlockIsFrames
<1>6. \A i \in 1 .. pending : samples[i] = frameAt(Len(played) + Len(ring) + i)
  <2> TAKE i \in 1 .. pending
  <2>1. samples[i] = sent + i
    OBVIOUS
  <2>2. ~(PrefillFrames + sent + i <= PrefillFrames)
          /\ PrefillFrames + sent + i - PrefillFrames = sent + i
    BY <1>1
  <2> QED
    <3> DEFINE place == Len(played) + Len(ring) + i
    <3>1. place = PrefillFrames + sent + i
      BY <1>3
    <3> HIDE DEF place
    <3>2. frameAt(place) = sent + i
      <4>1. place \in Nat /\ ~(place <= PrefillFrames) /\ place - PrefillFrames = sent + i
        BY <1>1, <2>2, <3>1
      <4> QED
        BY <4>1 DEF frameAt
    <3> QED
      BY <2>1, <3>2 DEF place
<1> HIDE DEF samples, written
<1>7. Len(played) \in Nat /\ written \in 0 .. Len(samples)
        /\ \A i \in 1 .. written : samples[i] = frameAt(Len(played) + Len(ring) + i)
  BY <1>1, <1>2, <1>4, <1>5, <1>6
<1> DEFINE start0 == Len(played)
<1>8. /\ Len(ring') = Len(ring) + written
      /\ \A i \in 1 .. Len(ring) + written : ring'[i] = frameAt(start0 + i)
  <2>1. /\ start0 \in Nat /\ written \in 0 .. Len(samples)
        /\ \A i \in 1 .. Len(ring) : ring[i] = frameAt(start0 + i)
        /\ \A i \in 1 .. written : samples[i] = frameAt(start0 + Len(ring) + i)
    BY <1>3, <1>7
  <2> HIDE DEF start0
  <2>2. /\ Len(ring \o SubSeq(samples, 1, written)) = Len(ring) + written
        /\ \A i \in 1 .. Len(ring) + written :
              (ring \o SubSeq(samples, 1, written))[i] = frameAt(start0 + i)
    BY <1>1, <1>5, <2>1, QueueOrder
  <2> QED
    BY <1>4, <2>2
<1>9. Len(played) + (Len(ring) + written) = PrefillFrames + sent'
  <2>1. Len(played) + Len(ring) = PrefillFrames + sent /\ sent' = sent + written
    BY <1>3, <1>4
  <2>2. /\ Len(played) \in Nat /\ Len(ring) \in Nat /\ written \in Nat
        /\ sent \in Nat /\ PrefillFrames \in Nat
    BY <1>1, <1>4, <1>7
  <2> QED
    BY <2>1, <2>2
<1> QED
  BY <1>8, <1>9

(* The prefill is given to an empty ring, and all of it.                       *)
LEMMA PrefillFlow ==
  ASSUME EndpointInv, prefillSilence
  PROVE  /\ \A i \in 1 .. Len(ring') : ring'[i] = frameAt(Len(played) + i)
         /\ Len(played) + Len(ring') = PrefillFrames + sent'
<1> DEFINE samples == [frame \in 1 .. PrefillFrames |-> Silence]
<1>1. /\ control = "opened" /\ sent' = sent
      /\ ring' = ring \o SubSeq(samples, 1, Accepted(samples))
  BY DEF prefillSilence, Call, queuePlayback
<1>2. /\ heard = <<>> /\ ring = <<>> /\ sent = 0 /\ state \in {"closed", "opened"}
      /\ ~isSignalGated /\ IInv
  BY <1>1 DEF EndpointInv, PlaceInv, Before
<1>3. played = <<>>
  <2>1. callback.output = <<>>
    BY <1>2 DEF IInv, DeviceInv, GateInv
  <2> QED
    BY <1>2, <2>1 DEF played
<1>4. samples \in Seq(Frames) /\ Len(samples) = PrefillFrames
  BY PrefillIsFrames
<1>5. \A i \in 1 .. PrefillFrames : samples[i] = frameAt(i)
  BY DEF frameAt
<1> HIDE DEF samples
<1>6. PrefillFrames \in Nat /\ Capacity \in Nat /\ PrefillFrames <= Capacity /\ Len(ring) = 0
  BY <1>2, StreamAssumption
<1>7. Accepted(samples) = PrefillFrames
  BY <1>2, <1>4, <1>6, AcceptedCount
<1>8. ring' = samples
  <2>1. SubSeq(samples, 1, PrefillFrames) = samples
    BY <1>4, <1>6
  <2> QED
    BY <1>1, <1>2, <1>4, <1>7, <2>1
<1>9. Len(played) = 0 /\ Len(ring') = PrefillFrames
  BY <1>3, <1>4, <1>8
<1>10. \A i \in 1 .. Len(ring') : ring'[i] = frameAt(Len(played) + i)
  <2> TAKE i \in 1 .. Len(ring')
  <2>1. i \in 1 .. PrefillFrames /\ Len(played) + i = i
    BY <1>6, <1>9
  <2> QED
    BY <1>5, <1>8, <2>1
<1>11. Len(played) + Len(ring') = PrefillFrames + sent'
  <2>1. sent' = 0
    BY <1>1, <1>2
  <2> QED
    BY <1>6, <1>9, <2>1
<1> QED
  BY <1>10, <1>11

(* The order of the frames, and how many there are.                            *)
LEMMA FlowStep == ASSUME EndpointInv, [Next]_vars PROVE FlowInv'
<1>0. /\ FlowInv /\ PlaceInv /\ SessionTypeOK /\ IInv
      /\ SignalFrames \in Nat /\ PrefillFrames \in Nat /\ ring \in Seq(Frames)
      /\ Len(ring) \in Nat
  BY SignalAssumption, StreamAssumption DEF EndpointInv, IInv, StreamTypeOK
<1>p. played \in Seq(Frames) /\ Len(played) \in Nat
  BY ConcatProperties DEF EndpointInv, IInv, StreamTypeOK, CallbackOK, SessionTypeOK, played
<1>1. CASE Session
  <2>0. /\ UNCHANGED <<heard, callback>> /\ (prefillSilence \/ queue \/ UNCHANGED ring)
        /\ (gateSignal \/ UNCHANGED isSignalGated)
    BY <1>1, SessionKeeps
  <2>1. /\ played' = played /\ (isFlowing' => isFlowing)
    <3>1. isSignalGated' = isSignalGated \/ isSignalGated'
      BY <2>0 DEF gateSignal
    <3> QED
      BY <2>0, <3>1 DEF played, isFlowing
  <2>2. CASE prefillSilence
    <3>1. /\ \A i \in 1 .. Len(ring') : ring'[i] = frameAt(Len(played) + i)
          /\ Len(played) + Len(ring') = PrefillFrames + sent'
      BY <2>2, PrefillFlow
    <3>2. control' \notin {"drained", "tail"} /\ outcome' # "played"
      BY <1>0, <2>2 DEF prefillSilence, Call, PlaceInv, Before
    <3> QED
      BY <1>0, <2>1, <3>1, <3>2 DEF FlowInv
  <2>3. CASE queue
    <3>1. /\ \A i \in 1 .. Len(ring') : ring'[i] = frameAt(Len(played) + i)
          /\ Len(played) + Len(ring') = PrefillFrames + sent'
      BY <2>3, QueueFlow
    <3>2. control' \notin {"drained", "tail"} /\ outcome' # "played"
      BY <1>0, <2>3, QueueCounts DEF queue, PlaceInv, Feeding
    <3> QED
      BY <1>0, <2>1, <3>1, <3>2 DEF FlowInv
  <2>4. CASE ~prefillSilence /\ ~queue
    <3>0. ring' = ring
      BY <2>0, <2>4
    <3>1. CASE open
      <4>1. control' \in {"opened", "done"} /\ outcome' \in {"none", "failed"}
        BY <1>0, <3>1 DEF open, PlaceInv, Before
      <4> QED
        BY <1>0, <2>1, <3>0, <4>1 DEF FlowInv, Feeding, Finished
    <3>2. CASE prime \/ start \/ ReadBlock \/ ReadBaseline \/ Retry \/ finishSignal
      <4>1. /\ control \in Feeding /\ control' \in Feeding \cup {"failed", "draining"}
            /\ UNCHANGED <<outcome, sent>>
        BY <3>2 DEF prime, start, ReadBlock, ReadBaseline, Retry, finishSignal, Call, Check, Feeding
      <4>2. outcome' = "none" /\ control' \notin {"drained", "tail"}
        BY <1>0, <4>1 DEF PlaceInv, Feeding
      <4> QED
        BY <1>0, <2>1, <3>0, <4>1, <4>2 DEF FlowInv, Feeding, Finished
    <3>3. CASE Drained
      <4>1. control = "draining" /\ ring = <<>> /\ UNCHANGED <<outcome, sent>> /\ control' = "drained"
        BY <3>3 DEF Drained, isDrained, Check
      <4>2. sent = SignalFrames
        BY <1>0, <4>1 DEF PlaceInv, Finished
      <4>3. Len(played) + Len(ring) = PrefillFrames + SignalFrames /\ Len(ring) = 0
        BY <1>0, <4>1, <4>2 DEF FlowInv, Finished
      <4> QED
        BY <1>0, <1>p, <2>1, <3>0, <4>1, <4>2, <4>3 DEF FlowInv, Finished
    <3>4. CASE HoldTail
      <4>1. control = "drained" /\ UNCHANGED <<outcome, sent>> /\ control' = "tail"
        BY <3>4 DEF HoldTail, Check
      <4> QED
        BY <1>0, <2>1, <3>0, <4>1 DEF FlowInv, Finished
    <3>5. CASE FinishTail
      <4>1. control = "tail" /\ control' = "requestStop"
        BY <3>5 DEF FinishTail
      <4> QED
        BY <1>0, <2>1, <3>0, <4>1 DEF FlowInv, Feeding, Finished
    <3>6. CASE gateSignal \/ requestStopEndpoint \/ stop \/ close
      <4>1. control' \in Cleaning /\ outcome' \in {outcome, "failed"}
        BY <3>6 DEF gateSignal, requestStopEndpoint, stop, close, Cleanup, Cleaning
      <4> QED
        BY <1>0, <2>1, <3>0, <4>1 DEF FlowInv, Feeding, Finished, Cleaning
    <3> QED
      BY <1>1, <2>4, <3>1, <3>2, <3>3, <3>4, <3>5, <3>6 DEF Session
  <2> QED
    BY <2>2, <2>3, <2>4
<1>2. CASE DeviceThread
  <2>1. UNCHANGED <<control, sent, outcome, isSignalGated>>
    BY <1>2, DeviceFlow
  <2>2. PICK count \in 0 .. Len(ring) :
          /\ ring' = SubSeq(ring, count + 1, Len(ring))
          /\ \/ isFlowing /\ played' = played \o SubSeq(ring, 1, count)
             \/ count = 0 /\ played' = played /\ (isFlowing' => isFlowing)
             \/ played' = played /\ ~isFlowing /\ ~isFlowing'
    BY <1>2, DeviceFlow
  <2>3. ring' \in Seq(Frames) /\ Len(ring') = Len(ring) - count /\ count \in Nat
    BY <1>0, <2>2
  <2>k. ring = <<>> => ring' = <<>> /\ count = 0
    BY <1>0, <2>2
  <2>4. CASE isFlowing /\ played' = played \o SubSeq(ring, 1, count)
    <3> DEFINE before == played
    <3>1. /\ before \in Seq(Frames) /\ \A i \in 1 .. Len(before) : before[i] = frameAt(i)
          /\ \A i \in 1 .. Len(ring) : ring[i] = frameAt(Len(before) + i)
      BY <1>0, <1>p, <2>4 DEF FlowInv
    <3>2. Len(before) + Len(ring) = PrefillFrames + sent \/ control \notin Feeding \cup Finished
      BY <1>0 DEF FlowInv
    <3>3. control \in {"drained", "tail"} \/ outcome = "played" =>
            ring = <<>> /\ Len(before) = PrefillFrames + SignalFrames
      BY <1>0 DEF FlowInv
    <3>4. played' = before \o SubSeq(ring, 1, count) /\ Len(before) \in Nat
      BY <1>p, <2>4
    <3> HIDE DEF before
    <3>5. /\ Len(before \o SubSeq(ring, 1, count)) = Len(before) + count
          /\ \A i \in 1 .. Len(before) + count : (before \o SubSeq(ring, 1, count))[i] = frameAt(i)
          /\ \A i \in 1 .. Len(ring) - count :
               SubSeq(ring, count + 1, Len(ring))[i] = frameAt(Len(before) + count + i)
      BY <1>0, <2>2, <3>1, FlowOrder
    <3>6. /\ Len(played') = Len(before) + count
          /\ \A i \in 1 .. Len(played') : played'[i] = frameAt(i)
          /\ \A i \in 1 .. Len(ring') : ring'[i] = frameAt(Len(played') + i)
      BY <2>2, <2>3, <3>4, <3>5
    <3>7. Len(played') + Len(ring') = Len(before) + Len(ring)
      <4>1. \A a, b, c \in Nat : (a + c) + (b - c) = a + b
        OBVIOUS
      <4>2. (Len(before) + count) + (Len(ring) - count) = Len(before) + Len(ring)
        BY <1>0, <2>3, <3>4, <4>1
      <4>3. Len(played') = Len(before) + count /\ Len(ring') = Len(ring) - count
        BY <2>3, <3>6
      <4> QED
        BY <4>2, <4>3, Zenon
    <3>8. control' \in {"drained", "tail"} \/ outcome' = "played" =>
            ring' = <<>> /\ Len(played') = PrefillFrames + SignalFrames
      BY <2>1, <2>3, <2>k, <3>3, <3>4, <3>6
    <3> QED
      BY <2>1, <3>2, <3>6, <3>7, <3>8 DEF FlowInv
  <2>6. CASE count = 0 /\ played' = played /\ (isFlowing' => isFlowing)
    <3>1. ring' = ring
      BY <1>0, <2>2, <2>6
    <3> QED
      BY <1>0, <2>1, <2>6, <3>1 DEF FlowInv
  <2>5. CASE played' = played /\ ~isFlowing /\ ~isFlowing'
    <3>1. control \notin Feeding \cup Finished
      BY <1>0, <2>5 DEF isFlowing, PlaceInv
    <3>2. control' \notin Feeding \cup Finished
      BY <2>1, <3>1
    <3>3. outcome' = "played" => ring' = <<>> /\ Len(played') = PrefillFrames + SignalFrames
      <4> SUFFICES ASSUME outcome = "played"
                   PROVE  ring' = <<>> /\ Len(played') = PrefillFrames + SignalFrames
        BY <2>1
      <4>1. ring = <<>> /\ Len(played) = PrefillFrames + SignalFrames
        BY <1>0 DEF FlowInv
      <4> QED
        BY <2>2, <2>3, <2>5, <4>1
    <3>4. \A i \in 1 .. Len(played') : played'[i] = frameAt(i)
      BY <1>0, <2>5 DEF FlowInv
    <3> QED
      BY <2>5, <3>2, <3>3, <3>4 DEF FlowInv, Finished
  <2> QED
    BY <2>2, <2>4, <2>5, <2>6
<1>3. CASE UNCHANGED vars
  <2>1. UNCHANGED <<control, sent, outcome, ring, played, isFlowing>>
    BY <1>3 DEF vars, streamVars, deviceVars, historyVars, played, isFlowing
  <2> QED
    BY <1>0, <2>1 DEF FlowInv
<1> QED
  BY <1>1, <1>2, <1>3 DEF Next

-----------------------------------------------------------------------------
(* Every reachable state.                                                   *)

(* The invariant holds before the session opens its endpoint.                 *)
LEMMA EndpointInit == Init => EndpointInv
<1> SUFFICES ASSUME Init PROVE EndpointInv
  OBVIOUS
<1>1. IInv
  BY InvInit DEF Init
<1>2. callback.output = <<>> /\ device = "stopped" /\ state = "closed" /\ ring = <<>>
      /\ ~isSignalGated /\ underrunFrames = 0
  BY DEF Init, StreamInit, NoCallback
<1>3. <<>> \in Seq(Frames) /\ Len(<<>>) = 0 /\ <<>> \o <<>> = <<>>
  OBVIOUS
<1>4. SignalFrames \in Nat
  BY SignalAssumption
<1>5. SessionTypeOK
  <2>1. sent = 0 /\ pending = 0 /\ heard \in Seq(Frames)
    BY <1>3 DEF Init
  <2>2. sent \in 0 .. SignalFrames /\ pending \in 0 .. SignalFrames - sent
    BY <1>4, <2>1
  <2> QED
    BY <2>1, <2>2 DEF Init, SessionTypeOK, Before
<1>6. PlaceInv
  BY <1>2 DEF Init, PlaceInv, Before, Feeding, Finished
<1>7. FlowInv
  <2>1. played = <<>>
    BY <1>2, <1>3 DEF Init, played
  <2> QED
    BY <1>2, <1>3, <2>1 DEF Init, FlowInv, Feeding, Finished
<1>8. UnderrunInv
  BY <1>2 DEF Init, UnderrunInv
<1> QED
  BY <1>1, <1>5, <1>6, <1>7, <1>8 DEF EndpointInv

(* And whatever the session and the device do next.                           *)
LEMMA EndpointStep == EndpointInv /\ [Next]_vars => EndpointInv'
  BY StreamStep, SessionTypeStep, PlaceStep, FlowStep, UnderrunStep DEF EndpointInv

(* So it always holds.                                                      *)
LEMMA EndpointCorrect == Spec => []EndpointInv
  BY EndpointInit, EndpointStep, PTL DEF Spec

(* The device never plays a frame twice, out of order, or one that was not     *)
(* queued, however the callbacks fall between the calls of                    *)
(* AudioStreamTransmitEndpoint; and a session that ends as completed has        *)
(* played the prefill and the whole signal (src/src/app/rendered_transmit.cpp).   *)
THEOREM PlayedOnceHolds == Spec => []PlayedOnce
<1>1. EndpointInv => PlayedOnce
  <2> SUFFICES ASSUME EndpointInv PROVE PlayedOnce
    OBVIOUS
  <2>0. /\ heard \in Seq(Frames) /\ callback.output \in Seq(Frames)
        /\ FlowInv /\ PlaceInv /\ DeviceInv /\ GateInv
    BY DEF EndpointInv, SessionTypeOK, IInv, StreamTypeOK, CallbackOK
  <2>1. /\ Len(played) = Len(heard) + Len(callback.output)
        /\ \A i \in 1 .. Len(heard) : played[i] = heard[i]
    BY <2>0, ConcatProperties DEF played
  <2>2. \A i \in 1 .. Len(heard) : heard[i] = frameAt(i)
    <3> TAKE i \in 1 .. Len(heard)
    <3>1. i \in 1 .. Len(played)
      BY <2>0, <2>1
    <3> QED
      BY <2>0, <2>1, <3>1 DEF FlowInv
  <2>3. heard = [i \in 1 .. Len(heard) |-> frameAt(i)]
    BY <2>0, <2>2
  <2>4. ASSUME outcome = "played", control = "done"
        PROVE  Len(heard) = PrefillFrames + SignalFrames
    <3>1. callback.output = <<>>
      BY <2>0, <2>4 DEF PlaceInv, DeviceInv, GateInv
    <3>2. Len(played) = PrefillFrames + SignalFrames
      BY <2>0, <2>4 DEF FlowInv
    <3> QED
      BY <2>0, <2>1, <3>1, <3>2
  <2> QED
    BY <2>3, <2>4 DEF PlayedOnce
<1> QED
  BY <1>1, EndpointCorrect, PTL

(* An underrun that a callback counted while the signal was open is in what       *)
(* status() answers at the end, whatever came between: finishSignal() keeps what   *)
(* the counter has over the baseline before it forgets the open signal.          *)
THEOREM OpenUnderrunIsReportedHolds == Spec => []OpenUnderrunIsReported
<1>1. EndpointInv => OpenUnderrunIsReported
  BY DEF EndpointInv, UnderrunInv, OpenUnderrunIsReported
<1> QED
  BY <1>1, EndpointCorrect, PTL
=============================================================================
