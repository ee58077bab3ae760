----------------------------- MODULE AudioStream -----------------------------
(***************************************************************************)
(* AudioStream (src/src/audio/audio_stream.cpp) on the miniaudio adapter     *)
(* (src/src/audio/miniaudio_stream_adapter.cpp), its playback side: one      *)
(* control thread that opens, primes, starts, stops and closes, and the      *)
(* device thread with the playback callback and the notifications.          *)
(*                                                                         *)
(* The playback ring is the bounded queue that SampleRing implements.  What  *)
(* miniaudio answers is nondeterministic: any of its calls may fail; a       *)
(* successful ma_device_stop and ma_device_uninit return when no callback    *)
(* runs any more.  Opening is refused before it changes anything for a       *)
(* malformed or missing device; such calls are not steps.                   *)
(***************************************************************************)
EXTENDS Integers, Sequences, FiniteSetsExt

CONSTANTS
  Frames, Silence,   \* the values of a frame, and 0.0 among them
  Capacity,          \* of the playback ring
  PrefillFrames,     \* playbackPrefillFrames, needed to start
  Periods,           \* the frame counts a callback may be asked for
  ScratchFrames,     \* playbackScratch.size()
  MaxBlock,          \* bound: frames of one call of queuePlayback()
  MaxUnderrun        \* bound: an empty ring is played up to this many underrun frames

ASSUME StreamAssumption ==
  /\ Silence \in Frames
  /\ Capacity \in Nat \ {0} /\ PrefillFrames \in 1 .. Capacity
  /\ Periods \subseteq Nat
  /\ ScratchFrames \in Nat \ {0}
  /\ MaxBlock \in Nat /\ MaxUnderrun \in Nat

VARIABLES
  (* the control thread's                                                   *)
  state, isDeviceInitialized, isStarted,
  (* shared with the device thread                                          *)
  ring, isSignalGated, faultReason, underrunFrames, isStopRequested,
  (* the device thread's                                                    *)
  device,          \* whether miniaudio calls the callback
  callback,        \* the callback in progress
  (* history                                                                *)
  lateCallbacks    \* callbacks that played signal and ended with the gate closed

controlVars == <<state, isDeviceInitialized, isStarted>>
deviceVars == <<device, callback, lateCallbacks>>
streamVars == <<controlVars, ring, isSignalGated, faultReason, underrunFrames,
                isStopRequested, deviceVars>>

States == {"closed", "opened", "primed", "running", "stopping", "faulted"}
Notifications == {"backendDisconnect", "deviceRemoved"}
Reasons == {"none", "callbackContract", "adapterFailure"} \cup Notifications

NoCallback == [at |-> "idle", frameCount |-> 0, processed |-> 0, isSignalGated |-> FALSE,
               output |-> <<>>]

CallbackOK ==
  /\ callback.at \in {"idle", "pop", "account"}
  /\ callback.frameCount \in Periods \cup {0}
  /\ callback.processed \in 0 .. callback.frameCount
  /\ callback.isSignalGated \in BOOLEAN
  /\ callback.output \in Seq(Frames) /\ Len(callback.output) <= callback.processed

StreamTypeOK ==
  /\ state \in States
  /\ isDeviceInitialized \in BOOLEAN /\ isStarted \in BOOLEAN
  /\ ring \in Seq(Frames) /\ Len(ring) <= Capacity
  /\ isSignalGated \in BOOLEAN /\ faultReason \in Reasons
  /\ underrunFrames \in Nat /\ isStopRequested \in BOOLEAN
  /\ device \in {"stopped", "running"}
  /\ CallbackOK
  /\ lateCallbacks \in Nat

StreamInit ==
  /\ state = "closed" /\ isDeviceInitialized = FALSE /\ isStarted = FALSE
  /\ ring = <<>> /\ isSignalGated = FALSE /\ faultReason = "none"
  /\ underrunFrames = 0 /\ isStopRequested = FALSE
  /\ device = "stopped" /\ callback = NoCallback
  /\ lateCallbacks = 0

-----------------------------------------------------------------------------
(* The control thread.                                                      *)

(* An adapter call failed: the control thread records it over any other      *)
(* reason.                                                                  *)
markAdapterFault == state' = "faulted" /\ faultReason' = "adapterFailure"

(* An open() that leaves the adapter open when it is cancelled.               *)
OpenLeaks ==
  /\ state = "closed" /\ ~isDeviceInitialized
  /\ isDeviceInitialized' = TRUE /\ faultReason' = "none"
  /\ UNCHANGED <<state, isStarted, isStopRequested, ring, isSignalGated, underrunFrames, deviceVars>>

AdapterOpens ==
  /\ ~isDeviceInitialized /\ isDeviceInitialized' = TRUE
  /\ UNCHANGED <<isStarted, isStopRequested>>

(* Cancelled, or opened with other facts than asked for: closed at once.      *)
AdapterOpensInVain ==
  /\ ~isDeviceInitialized
  /\ isStopRequested' = TRUE /\ isStarted' \in {isStarted, FALSE}
  /\ UNCHANGED isDeviceInitialized

Open ==
  /\ state = "closed"
  /\ \/ AdapterOpens /\ state' = "opened" /\ faultReason' = "none"
     \/ AdapterOpensInVain /\ faultReason' = "none" /\ UNCHANGED state
     \/ markAdapterFault /\ UNCHANGED <<isDeviceInitialized, isStarted, isStopRequested>>
  /\ UNCHANGED <<ring, isSignalGated, underrunFrames, deviceVars>>

Prime ==
  /\ state = "opened"
  /\ IF isDeviceInitialized
     THEN state' = "primed" /\ UNCHANGED faultReason
     ELSE markAdapterFault
  /\ UNCHANGED <<isDeviceInitialized, isStarted, ring, isSignalGated, underrunFrames,
                 isStopRequested, deviceVars>>

AdapterStarts ==
  /\ isDeviceInitialized /\ ~isStarted
  /\ isStarted' = TRUE /\ device' = "running" /\ isStopRequested' = FALSE

(* It clears the request to stop before it asks the device to start.         *)
AdapterStartFails ==
  /\ isStopRequested' = (isStopRequested /\ (isStarted \/ ~isDeviceInitialized))
  /\ UNCHANGED <<isStarted, device>>

Start ==
  /\ state = "primed" /\ Len(ring) >= PrefillFrames
  /\ \/ AdapterStarts /\ state' = "running" /\ UNCHANGED faultReason
     \/ AdapterStartFails /\ markAdapterFault
  /\ UNCHANGED <<isDeviceInitialized, ring, isSignalGated, underrunFrames, callback,
                 lateCallbacks>>

requestStop ==
  /\ state \in {"opened", "primed", "running", "faulted"}
  /\ state' = "stopping" /\ isStopRequested' = TRUE
  /\ UNCHANGED <<isDeviceInitialized, isStarted, ring, isSignalGated, faultReason,
                 underrunFrames, deviceVars>>

(* stop() of the adapter: nothing to do for a device that is not started.     *)
AdapterStops ==
  IF isDeviceInitialized /\ isStarted
  THEN isStarted' = FALSE /\ device' = "stopped" /\ callback.at = "idle"
  ELSE UNCHANGED <<isStarted, device>>

AdapterStopFails == isDeviceInitialized /\ isStarted /\ UNCHANGED <<isStarted, device>>

(* A stop() that reports the stream stopped whatever the adapter answered.    *)
StopAnyway ==
  /\ state \in {"running", "stopping", "faulted"}
  /\ isStopRequested' = TRUE
  /\ state' = "opened" /\ UNCHANGED faultReason
  /\ AdapterStops \/ AdapterStopFails
  /\ UNCHANGED <<isDeviceInitialized, ring, isSignalGated, underrunFrames, callback,
                 lateCallbacks>>

Stop ==
  /\ state \in {"running", "stopping", "faulted"}
  /\ isStopRequested' = TRUE
  /\ \/ AdapterStops /\ state' = "opened" /\ UNCHANGED faultReason
     \/ AdapterStopFails /\ markAdapterFault
  /\ UNCHANGED <<isDeviceInitialized, ring, isSignalGated, underrunFrames, callback,
                 lateCallbacks>>

(* stop() of the stream, unless it is only opened, then close() of the        *)
(* adapter, which tries to stop once more and destroys the device whatever    *)
(* that answers.                                                            *)
Close ==
  /\ state # "closed" /\ callback.at = "idle"
  /\ LET tries == IF state \in {"opened", "primed"} THEN 1 ELSE 2 IN
     \E failures \in IF isDeviceInitialized /\ isStarted THEN 0 .. tries ELSE {0} :
       /\ IF failures = 0 THEN state' = "closed" /\ UNCHANGED faultReason ELSE markAdapterFault
       /\ isStarted' = (isStarted /\ (~isDeviceInitialized \/ failures = tries))
  /\ isStopRequested' = TRUE
  /\ isDeviceInitialized' = FALSE /\ device' = "stopped"
  /\ UNCHANGED <<ring, isSignalGated, underrunFrames, callback, lateCallbacks>>

Resettable == {"closed", "opened", "primed"}

resetRings ==
  /\ state \in Resettable
  /\ ring' = <<>> /\ isSignalGated' = FALSE /\ lateCallbacks' = 0
  /\ UNCHANGED <<controlVars, faultReason, underrunFrames, isStopRequested, device, callback>>

gatePlaybackSignal ==
  /\ isSignalGated' = TRUE
  /\ UNCHANGED <<controlVars, ring, faultReason, underrunFrames, isStopRequested, deviceVars>>

(* A queue that takes a block as a whole, with or without room for it.        *)
AcceptedWhole(samples) == IF isSignalGated THEN 0 ELSE Len(samples)

Accepted(samples) == IF isSignalGated THEN 0 ELSE Min({Len(samples), Capacity - Len(ring)})

queuePlayback(samples) ==
  /\ ring' = ring \o SubSeq(samples, 1, Accepted(samples))
  /\ UNCHANGED <<controlVars, isSignalGated, faultReason, underrunFrames, isStopRequested,
                 deviceVars>>

(* The state poll() returns.                                                *)
Polled == IF faultReason # "none" /\ state # "closed" THEN "faulted" ELSE state

poll ==
  /\ state' = Polled
  /\ UNCHANGED <<isDeviceInitialized, isStarted, ring, isSignalGated, faultReason,
                 underrunFrames, isStopRequested, deviceVars>>

-----------------------------------------------------------------------------
(* The device thread.                                                       *)

(* A callback starts with silence in the buffer.                            *)
BeginWith(gate) ==
  /\ device = "running" /\ callback.at = "idle"
  /\ \E frameCount \in Periods :
       /\ Len(ring) >= frameCount \/ underrunFrames < MaxUnderrun
       /\ callback' = [NoCallback EXCEPT !.at = IF frameCount = 0 THEN "account" ELSE "pop",
                                         !.frameCount = frameCount,
                                         !.isSignalGated = gate]
  /\ UNCHANGED <<controlVars, ring, isSignalGated, faultReason, underrunFrames, isStopRequested,
                 device, lateCallbacks>>

(* A callback that never looks at the gate.                                 *)
CallbackIgnoresGate == BeginWith(FALSE)

(* It loads the gate once.                                                  *)
CallbackBegin == BeginWith(isSignalGated)

(* Pops a chunk of what is there through the scratch buffer; a short pop is    *)
(* the last one, and the samples of a gated callback are dropped.            *)
PopChunk(available) ==
  /\ callback.at = "pop"
  /\ LET chunk == Min({callback.frameCount - callback.processed, ScratchFrames})
         popped == Min({chunk, available})
         processed == callback.processed + chunk
     IN
     /\ ring' = SubSeq(ring, popped + 1, Len(ring))
     /\ callback' = [callback EXCEPT
          !.at = IF popped < chunk \/ processed = callback.frameCount THEN "account" ELSE "pop",
          !.processed = processed,
          !.output = IF callback.isSignalGated THEN @ ELSE @ \o SubSeq(ring, 1, popped)]
  /\ UNCHANGED <<controlVars, isSignalGated, faultReason, underrunFrames, isStopRequested,
                 device, lateCallbacks>>

(* A gated callback that leaves the ring alone.                             *)
CallbackKeepsGated == PopChunk(IF callback.isSignalGated THEN 0 ELSE Len(ring))

CallbackPop == PopChunk(Len(ring))

zeroFilled == callback.frameCount - Len(callback.output)

PlaysSignal == \E i \in 1 .. Len(callback.output) : callback.output[i] # Silence

(* Adds up what was played and returns the buffer to the device.             *)
CallbackAccount ==
  /\ callback.at = "account"
  /\ underrunFrames' = underrunFrames + (IF callback.isSignalGated THEN 0 ELSE zeroFilled)
  /\ lateCallbacks' = lateCallbacks + (IF isSignalGated /\ PlaysSignal THEN 1 ELSE 0)
  /\ callback' = NoCallback
  /\ UNCHANGED <<controlVars, ring, isSignalGated, faultReason, isStopRequested, device>>

(* Only the first reason is kept.                                           *)
notifyCallbackFault(reason) ==
  faultReason' = IF faultReason = "none" THEN reason ELSE faultReason

(* A callback with no buffer to play into.                                  *)
CallbackWithoutOutput ==
  /\ device = "running" /\ callback.at = "idle"
  /\ underrunFrames < MaxUnderrun
  /\ \E frameCount \in Periods \ {0} :
       underrunFrames' = underrunFrames + (IF isSignalGated THEN 0 ELSE frameCount)
  /\ notifyCallbackFault("callbackContract")
  /\ UNCHANGED <<controlVars, ring, isSignalGated, isStopRequested, deviceVars>>

(* The device stops by itself, after its last callback; a stop that was asked *)
(* for is no fault.                                                         *)
DeviceStopped ==
  /\ device = "running" /\ callback.at = "idle"
  /\ device' = "stopped"
  /\ IF isStopRequested THEN UNCHANGED faultReason ELSE notifyCallbackFault("backendDisconnect")
  /\ UNCHANGED <<controlVars, ring, isSignalGated, underrunFrames, isStopRequested, callback,
                 lateCallbacks>>

(* The device is rerouted or interrupted and goes on.                        *)
DeviceDisturbed ==
  /\ device = "running"
  /\ \E reason \in Notifications : notifyCallbackFault(reason)
  /\ UNCHANGED <<controlVars, ring, isSignalGated, underrunFrames, isStopRequested, deviceVars>>

Device ==
  \/ CallbackBegin \/ CallbackPop \/ CallbackAccount \/ CallbackWithoutOutput
  \/ DeviceStopped \/ DeviceDisturbed

(* The control thread of any client of the stream.                          *)
Control ==
  \/ Open \/ Prime \/ Start \/ requestStop \/ Stop \/ Close
  \/ resetRings \/ gatePlaybackSignal \/ poll
  \/ \E count \in 1 .. MaxBlock : \E samples \in [1 .. count -> Frames] : queuePlayback(samples)

StreamNext == Control \/ Device

StreamSpec == StreamInit /\ [][StreamNext]_streamVars

-----------------------------------------------------------------------------
(* The rings are only reset, and the gate opened again, when no callback runs *)
(* and none can start: every failure to stop the device leaves a state in     *)
(* which resetRings() is refused.                                           *)
ResetIsSafe == state \in Resettable => device = "stopped" /\ callback.at = "idle"

(* Closed means that the device is destroyed, and a destroyed device calls    *)
(* nothing back, whatever part of closing failed.                           *)
DeviceOwned ==
  /\ state = "closed" => ~isDeviceInitialized
  /\ ~isDeviceInitialized => device = "stopped" /\ callback.at = "idle"

(* After gatePlaybackSignal() at most the one callback that was in progress   *)
(* plays signal; every later one plays silence until the rings are reset.     *)
GateHolds == lateCallbacks <= 1
=============================================================================
