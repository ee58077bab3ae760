--------------------------- MODULE TransmitEndpoint ---------------------------
(***************************************************************************)
(* AudioStreamTransmitEndpoint (src/src/app/rendered_transmit.cpp) on an     *)
(* AudioStream, driven in the order of TransmitCoordinator::run: open,       *)
(* prefill with silence, prime, start, queue the signal block by block with   *)
(* a look at the status before each, declare it finished, wait until it is    *)
(* drained, look once more, and stop; a fault gates the signal and goes       *)
(* straight to stop and close.  Signal frames are numbered from 1.          *)
(***************************************************************************)
EXTENDS AudioStream

CONSTANT SignalFrames    \* sourceFrames

ASSUME SignalAssumption ==
  SignalFrames \in Nat /\ 1 .. SignalFrames \subseteq Frames \ {Silence}

VARIABLES
  (* the session's                                                          *)
  control,
  sent,                \* signal frames the endpoint accepted
  pending,             \* frames of the block that was read and are not yet accepted
  outcome,
  (* the endpoint's                                                         *)
  underrunBaseline, hasSignalStarted, hasSignalUnderrun, isSignalFinished,
  (* history                                                                *)
  heard,               \* frames of the ring that were played, in the order they were
  isQuiet,             \* silence was played since the last of them
  hasGap,              \* silence was played between two of them
  hasOpenUnderrun      \* a callback accounted for an underrun while the signal was open

endpointVars == <<underrunBaseline, hasSignalStarted, hasSignalUnderrun, isSignalFinished>>
historyVars == <<heard, isQuiet, hasGap, hasOpenUnderrun>>
vars == <<streamVars, control, sent, pending, outcome, endpointVars, historyVars>>

Places == {"new", "opened", "prefilled", "primed", "head", "sending", "baseline", "backpressure",
           "draining", "drained", "tail", "failed", "requestStop", "stop", "close", "done"}

TypeOK ==
  /\ StreamTypeOK
  /\ control \in Places /\ outcome \in {"none", "played", "failed"}
  /\ sent \in 0 .. SignalFrames /\ pending \in 0 .. MaxBlock
  /\ underrunBaseline \in Nat
  /\ hasSignalStarted \in BOOLEAN /\ hasSignalUnderrun \in BOOLEAN /\ isSignalFinished \in BOOLEAN
  /\ heard \in Seq(Frames)
  /\ isQuiet \in BOOLEAN /\ hasGap \in BOOLEAN /\ hasOpenUnderrun \in BOOLEAN

Init ==
  /\ StreamInit
  /\ control = "new" /\ outcome = "none" /\ sent = 0 /\ pending = 0
  /\ underrunBaseline = 0 /\ hasSignalStarted = FALSE
  /\ hasSignalUnderrun = FALSE /\ isSignalFinished = FALSE
  /\ heard = <<>> /\ isQuiet = FALSE /\ hasGap = FALSE /\ hasOpenUnderrun = FALSE

-----------------------------------------------------------------------------
(* The endpoint as the session sees it.                                     *)

IsUnderrun == underrunFrames > underrunBaseline

(* Whether status() reports a fault.                                        *)
HasFault ==
  \/ faultReason # "none"
  \/ hasSignalUnderrun
  \/ (hasSignalStarted /\ ~isSignalFinished /\ IsUnderrun)

isDrained == isSignalFinished /\ ring = <<>>

(* The calls before the signal; the one that fails is the last.              *)
Call(here, Action, next) ==
  /\ control = here /\ Action
  /\ control' = IF state' = "faulted" THEN "failed" ELSE next
  /\ UNCHANGED <<sent, pending, outcome, endpointVars, historyVars>>

(* A refused opening leaves nothing to clean up.                             *)
open ==
  /\ control = "new" /\ Open
  /\ control' = IF state' = "opened" THEN "opened" ELSE "done"
  /\ outcome' = IF state' = "opened" THEN outcome ELSE "failed"
  /\ UNCHANGED <<sent, pending, endpointVars, historyVars>>

prefillSilence ==
  Call("opened", queuePlayback([frame \in 1 .. PrefillFrames |-> Silence]), "prefilled")

prime == Call("prefilled", Prime, "primed")

start == Call("primed", Start, "head")

(* What the session looks at between its steps lets it go on.                *)
Check(here, next) ==
  /\ control = here /\ ~HasFault
  /\ control' = next
  /\ UNCHANGED <<streamVars, sent, outcome, endpointVars, historyVars>>

ReadBlock ==
  /\ sent < SignalFrames /\ pending' \in 1 .. Min({MaxBlock, SignalFrames - sent})
  /\ Check("head", "sending")

(* An endpoint that reports the whole block as accepted.                     *)
OverReported(samples) == Len(samples)

Written(samples) == Accepted(samples)

(* queue() of what is left of the block.                                    *)
queue ==
  /\ control = "sending"
  /\ LET samples == [i \in 1 .. pending |-> sent + i]
         written == Written(samples)
     IN
     /\ queuePlayback(samples)
     /\ sent' = sent + written /\ pending' = pending - written
     /\ hasSignalStarted' = (hasSignalStarted \/ written # 0)
     /\ control' = IF written = 0 THEN "backpressure"
                   ELSE IF ~hasSignalStarted THEN "baseline"
                   ELSE IF written = pending THEN "head" ELSE "sending"
  /\ UNCHANGED <<outcome, underrunBaseline, hasSignalUnderrun, isSignalFinished, historyVars>>

(* The underruns so far were of silence; they are read after the push.        *)
ReadBaseline ==
  /\ control = "baseline"
  /\ underrunBaseline' = underrunFrames
  /\ control' = IF pending = 0 THEN "head" ELSE "sending"
  /\ UNCHANGED <<streamVars, sent, pending, outcome, hasSignalStarted, hasSignalUnderrun,
                 isSignalFinished, historyVars>>

(* The ring was full; after a while the block goes on.                       *)
Retry == Check("backpressure", "sending") /\ UNCHANGED pending

(* A finish that does not keep an underrun seen up to then.                  *)
FinishOnly ==
  /\ control = "head" /\ sent = SignalFrames
  /\ isSignalFinished' = TRUE
  /\ control' = "draining"
  /\ UNCHANGED <<streamVars, sent, pending, outcome, underrunBaseline, hasSignalStarted,
                 hasSignalUnderrun, historyVars>>

finishSignal ==
  /\ control = "head" /\ sent = SignalFrames
  /\ hasSignalUnderrun' = (hasSignalUnderrun \/ (hasSignalStarted /\ IsUnderrun))
  /\ isSignalFinished' = TRUE
  /\ control' = "draining"
  /\ UNCHANGED <<streamVars, sent, pending, outcome, underrunBaseline, hasSignalStarted,
                 historyVars>>

Drained == isDrained /\ Check("draining", "drained") /\ UNCHANGED pending

HoldTail == Check("drained", "tail") /\ UNCHANGED pending

FinishTail ==
  /\ control = "tail" /\ ~HasFault
  /\ control' = "requestStop" /\ outcome' = "played"
  /\ UNCHANGED <<streamVars, sent, pending, endpointVars, historyVars>>

(* A fault, or a cancellation, an expired lease or the end of the drain time.  *)
gateSignal ==
  /\ control \in {"opened", "head", "backpressure", "draining", "drained", "tail", "failed"}
  /\ state' \in {state, Polled} /\ isSignalGated' = TRUE
  /\ control' = "requestStop" /\ outcome' = "failed"
  /\ UNCHANGED <<isDeviceInitialized, isStarted, ring, faultReason, underrunFrames, isStopRequested,
                 deviceVars, sent, pending, endpointVars, historyVars>>

(* The three calls of the cleanup, each made whatever the others answered; a   *)
(* call the stream has no use for returns at once.                          *)
Cleanup(here, Action, useless, next) ==
  /\ control = here
  /\ IF state \in useless THEN UNCHANGED streamVars ELSE Action
  /\ control' = next
  /\ outcome' = IF state' = "faulted" THEN "failed" ELSE outcome
  /\ UNCHANGED <<sent, pending, endpointVars, historyVars>>

requestStopEndpoint == Cleanup("requestStop", requestStop, {"closed", "stopping"}, "stop")

stop == Cleanup("stop", Stop, {"closed", "opened", "primed"}, "close")

close == Cleanup("close", Close, {"closed"}, "done")

Session ==
  \/ open \/ prefillSilence \/ prime \/ start
  \/ ReadBlock \/ queue \/ ReadBaseline \/ Retry \/ finishSignal
  \/ Drained \/ HoldTail \/ FinishTail
  \/ gateSignal \/ requestStopEndpoint \/ stop \/ close

-----------------------------------------------------------------------------
(* The device thread, with what is heard of it.                             *)

IsOpen == hasSignalStarted /\ control # "baseline" /\ ~isSignalFinished

Hear ==
  /\ heard' = heard \o callback.output
  /\ hasGap' = (hasGap \/ (isQuiet /\ PlaysSignal))
  /\ isQuiet' = IF zeroFilled > 0 THEN \E i \in DOMAIN heard' : heard'[i] # Silence
                ELSE isQuiet /\ ~PlaysSignal
  /\ hasOpenUnderrun' = (hasOpenUnderrun \/ (underrunFrames' > underrunFrames /\ IsOpen))

DeviceThread ==
  /\ \/ CallbackAccount /\ Hear
     \/ /\ \/ CallbackBegin \/ CallbackPop \/ CallbackWithoutOutput
           \/ DeviceStopped \/ DeviceDisturbed
        /\ UNCHANGED historyVars
  /\ UNCHANGED <<control, sent, pending, outcome, endpointVars>>

Next == Session \/ DeviceThread

Spec == Init /\ [][Next]_vars

(* The device goes on calling back, and a callback that began ends.          *)
FairSpec == Spec /\ WF_vars(CallbackBegin /\ DeviceThread)
                 /\ WF_vars(CallbackPop /\ DeviceThread)
                 /\ WF_vars(CallbackAccount /\ DeviceThread)

-----------------------------------------------------------------------------
(* The frame that is given to the ring as the i-th.                           *)
frameAt(i) == IF i <= PrefillFrames THEN Silence ELSE i - PrefillFrames

(* The prefill and after it the signal are played once and in order, and all of  *)
(* them when the session ends as completed.                                   *)
PlayedOnce ==
  /\ heard = [i \in 1 .. Len(heard) |-> frameAt(i)]
  /\ outcome = "played" /\ control = "done" => Len(heard) = PrefillFrames + SignalFrames

(* An underrun that a callback accounted for between the baseline and the end  *)
(* of the signal is never lost: the session that saw it does not complete.     *)
OpenUnderrunIsReported == outcome = "played" => ~hasOpenUnderrun

(* A signal with silence in its middle was not transmitted; a session that     *)
(* played one does not complete.  The code does not keep this: TLC finds a      *)
(* callback that has emptied the ring and not yet counted its underrun.         *)
GapIsReported == outcome = "played" => ~hasGap

(* A finished or gated signal leaves the ring as long as the device runs: no   *)
(* drain waits for a ring that is never emptied.                            *)
DrainEnds == (isSignalFinished \/ isSignalGated) ~> (ring = <<>> \/ device = "stopped")
=============================================================================
