--------------------------- MODULE TransmitSession ---------------------------
(***************************************************************************)
(* TransmitCoordinator::run of src/src/app/transmit_coordinator.cpp as a    *)
(* control thread that keys and unkeys the rig, next to the watchdog        *)
(* thread (module PttWatchdog), the audio device, a user who cancels, a     *)
(* thread in shutdown() and a thread in retryHazardCleanup().               *)
(*                                                                         *)
(* pc names the place in run().  A step is one access to state another      *)
(* thread can change, or several that no other thread can tell apart; the   *)
(* error codes and the trace, which run() only reports, are left out.       *)
(***************************************************************************)
EXTENDS PttWatchdog, FiniteSetsExt

CONSTANTS
  SourceFrames,      \* frames of the finite source
  BlockFrames,       \* request.blockFrames
  RingFrames,        \* signal frames the playback ring takes
  MaxSessions,       \* bound: calls of run()
  MaxRetries,        \* bound: calls of retryHazardCleanup()
  KeyWithinLease,    \* TRUE: the key command is issued before the lease runs out
  RetryAlone,        \* TRUE: no session starts during a retryHazardCleanup()
  AllocationFails    \* TRUE: an allocation may throw

ASSUME SizesAssumption ==
  /\ SourceFrames \in Nat \ {0}
  /\ BlockFrames \in Nat \ {0}
  /\ RingFrames \in Nat \ {0}
  /\ MaxSessions \in Nat
  /\ MaxRetries \in Nat
ASSUME SwitchesAssumption ==
  /\ KeyWithinLease \in BOOLEAN
  /\ RetryAlone \in BOOLEAN
  /\ AllocationFails \in BOOLEAN

VARIABLES
  pc,                      \* where the control thread is in run()
  isActive, isCancelled, isShuttingDown,
  hasFault, wasCancelled,  \* of the RunContext
  keyReply,                \* the answer to the key command
  leaseActive, leaseReleased,
  left,                    \* frames not yet read from the source
  inHand,                  \* frames of the block not yet queued
  audio,                   \* the endpoint and its device
  outcome,                 \* what run() returned, "none" while it runs or if it threw
  sessions, retries,
  stopper,                 \* where the thread in shutdown() is
  stopAsked,               \* history: when a stop was asked for in this session
  stray                    \* history: the device played signal with the rig off

leaseVars == <<keyReply, leaseActive, leaseReleased>>
sourceVars == <<left, inHand>>
resultVars == <<outcome, sessions, stray>>
contextVars == <<hasFault, wasCancelled, leaseVars, sourceVars, audio, resultVars>>
controlVars == <<isActive, isCancelled, isShuttingDown, retries, stopper, stopAsked>>
vars == <<safetyVars, watchdogVars, pc, contextVars, controlVars>>

(* Places from the arming of the watchdog to the key command.               *)
BeforeKeyCommand == {"armedCheck", "keying", "keyCommand"}

(* Places where a stop request still decides the outcome.                   *)
StopDecides == BeforeKeyCommand \cup
  {"preparing", "checkingPtt", "clearingPtt", "openingAudio", "primingAudio",
   "creatingWatchdog", "armingWatchdog", "keyResult", "preKeyDelay", "transmitting",
   "queueing", "drainStart", "draining", "drainCheck", "drainVerdict", "postAudioTail",
   "gating", "unkeying", "finishing", "cancelRecheck"}

(* Places where run() is left, at the end through the destructors of its    *)
(* locals: audio, lease, watchdog, ActiveSessionGuard.                      *)
Leaving == {"audioCleanup", "deciding", "unwindAudio", "leaseDestructor", "leaseUnkeying",
            "stoppingWatchdog", "notifyingWatchdog", "joining", "deactivating", "notifying"}

Places == {"idle", "entered"} \cup StopDecides \cup Leaving

(* Places where run() publishes a snapshot or allocates.                    *)
Allocating == {"preparing", "checkingPtt", "openingAudio", "primingAudio", "creatingWatchdog",
               "armingWatchdog", "keying", "preKeyDelay", "transmitting", "drainStart",
               "postAudioTail", "gating"}

Outcomes == {"rejected", "completed", "cancelled", "faulted", "hazardous"}

ClosedAudio == [open |-> FALSE, running |-> FALSE, gated |-> FALSE, finished |-> FALSE,
                ring |-> 0, fault |-> FALSE]

(* Every variable stays in its range; the bounds on attempts, ring and       *)
(* source say that no loop overruns.                                        *)
TypeOK ==
  /\ SafetyTypeOK
  /\ WatchdogTypeOK
  /\ pc \in Places
  /\ isActive \in BOOLEAN /\ isCancelled \in BOOLEAN /\ isShuttingDown \in BOOLEAN
  /\ hasFault \in BOOLEAN /\ wasCancelled \in BOOLEAN
  /\ keyReply \in {"none"} \cup KeyReplies
  /\ leaseActive \in BOOLEAN /\ leaseReleased \in BOOLEAN
  /\ left \in 0 .. SourceFrames
  /\ inHand \in 0 .. SourceFrames
  /\ audio \in [open: BOOLEAN, running: BOOLEAN, gated: BOOLEAN, finished: BOOLEAN,
                ring: 0 .. RingFrames, fault: BOOLEAN]
  /\ outcome \in {"none"} \cup Outcomes
  /\ sessions \in 0 .. MaxSessions
  /\ retries \in 0 .. MaxRetries
  /\ stopper \in {"none", "testing", "fallingAsleep", "asleep", "returned"}
  /\ stopAsked \in {"no", "entering", "running"}
  /\ stray \in BOOLEAN

Init ==
  /\ SafetyInit
  /\ WatchdogInit
  /\ pc = "idle"
  /\ isActive = FALSE /\ isCancelled = FALSE /\ isShuttingDown = FALSE
  /\ hasFault = FALSE /\ wasCancelled = FALSE
  /\ keyReply = "none" /\ leaseActive = FALSE /\ leaseReleased = FALSE
  /\ left = 0 /\ inHand = 0
  /\ audio = ClosedAudio
  /\ outcome = "none"
  /\ sessions = 0 /\ retries = 0
  /\ stopper = "none"
  /\ stopAsked = "no" /\ stray = FALSE

-----------------------------------------------------------------------------
(* Control flow of run().                                                   *)

GoOn(place) == pc' = place /\ UNCHANGED <<hasFault, wasCancelled, audio>>

(* fail(): gates the signal of the endpoint; the phases that follow are      *)
(* skipped.                                                                 *)
Fail(endpoint) ==
  /\ hasFault' = TRUE
  /\ audio' = [endpoint EXCEPT !.gated = TRUE]
  /\ pc' = "gating"

FailPhase == Fail(audio) /\ UNCHANGED wasCancelled

StopAsked == isCancelled \/ isShuttingDown

(* checkControl without its look at the watchdog.                           *)
ControlFaultBlind == StopAsked \/ audio.fault

(* checkControl: a stop request, the watchdog, the endpoint.  A flag raised  *)
(* between two of these looks only changes which of them is named.          *)
ControlFault == StopAsked \/ hasExpired \/ audio.fault

FailControl(endpoint) ==
  /\ ControlFault
  /\ wasCancelled' = (wasCancelled \/ StopAsked)
  /\ Fail(endpoint)

CheckControl(next, endpoint) ==
  \/ ~ControlFault /\ audio' = endpoint /\ pc' = next /\ UNCHANGED <<hasFault, wasCancelled>>
  \/ FailControl(endpoint)

(* One more round of waitPhase.                                             *)
WaitRound == ~ControlFault /\ Heartbeat /\ UNCHANGED <<pc, hasFault, wasCancelled, audio>>

HeartbeatRefused == ~ControlFault /\ ~HeartbeatAccepted

-----------------------------------------------------------------------------
(* run() up to the open audio endpoint.                                     *)

(* The compare-exchange on isActive_ and the fresh RunContext; a second     *)
(* run() in a session is turned away and changes nothing.                   *)
BeginRun ==
  /\ pc = "idle" /\ ~isActive
  /\ sessions < MaxSessions
  /\ RetryAlone => cleanup["retry"] = NoCleanup
  /\ isActive' = TRUE
  /\ sessions' = sessions + 1
  /\ hasFault' = FALSE /\ wasCancelled' = FALSE
  /\ keyReply' = "none" /\ leaseActive' = FALSE /\ leaseReleased' = FALSE
  /\ left' = SourceFrames /\ inHand' = 0
  /\ audio' = ClosedAudio
  /\ outcome' = "none" /\ stopAsked' = "no" /\ stray' = FALSE
  /\ pc' = "entered"
  /\ UNCHANGED <<safetyVars, watchdogVars, isCancelled, isShuttingDown, retries, stopper>>

(* isCancelled_.store(false): whatever was asked for before is forgotten.   *)
ForgetCancel ==
  /\ pc = "entered"
  /\ isCancelled' = FALSE
  /\ pc' = "preparing"
  /\ UNCHANGED <<safetyVars, outcome, wasCancelled>>

(* run() returns a result, unless publishing it throws.                     *)
EndEarly(result) ==
  /\ outcome' \in {result} \cup (IF AllocationFails THEN {"none"} ELSE {})
  /\ pc' = "leaseDestructor"

HazardIsRecorded == record.hasHazard

(* Validation, the early look at a stop request, and the look at a hazard   *)
(* left by an earlier session.                                              *)
Prepare ==
  /\ pc = "preparing"
  /\ \/ EndEarly("rejected") /\ UNCHANGED wasCancelled
     \/ StopAsked /\ EndEarly("cancelled") /\ wasCancelled' = TRUE
     \/ ~StopAsked /\ HazardIsRecorded /\ EndEarly("hazardous") /\ UNCHANGED wasCancelled
     \/ /\ ~StopAsked /\ ~HazardIsRecorded
        /\ pc' = "checkingPtt"
        /\ UNCHANGED <<outcome, wasCancelled>>
  /\ UNCHANGED <<safetyVars, isCancelled>>

(* Only a certain "unkeyed" lets the preflight go on without an unkey.      *)
IsDefinitelyUnkeyed(answer) == answer = "unkeyed"

CheckPtt ==
  /\ pc = "checkingPtt"
  /\ \E answer \in QueryAnswers :
       IF IsDefinitelyUnkeyed(answer)
       THEN pc' = "openingAudio" /\ UNCHANGED cleanup
       ELSE pc' = "clearingPtt" /\ StartCleanup("session")
  /\ UNCHANGED <<rigKeyed, keySent, unkeySent, record, outcome, wasCancelled, isCancelled>>

ClearPtt ==
  /\ pc = "clearingPtt"
  /\ \/ AttemptUnkey("session") /\ UNCHANGED <<pc, outcome>>
     \/ /\ RecordCleanup("session", FALSE)
        /\ IF cleanup["session"].verdict = "hazard"
           THEN EndEarly("hazardous")
           ELSE pc' = "openingAudio" /\ UNCHANGED outcome
        /\ UNCHANGED <<rigKeyed, keySent, unkeySent>>
  /\ UNCHANGED <<wasCancelled, isCancelled>>

StartStep ==
  /\ ForgetCancel \/ Prepare \/ CheckPtt \/ ClearPtt
  /\ UNCHANGED <<watchdogVars, hasFault, leaseVars, sourceVars, audio, sessions, stray,
                 isActive, isShuttingDown, retries, stopper, stopAsked>>

-----------------------------------------------------------------------------
(* Audio, watchdog, delays.  These phases touch nothing of the rig, the lease *)
(* and the source: PhaseStep says so once for all of them.                   *)

OpenAudio ==
  /\ pc = "openingAudio"
  /\ \/ FailPhase
     \/ CheckControl("primingAudio", [audio EXCEPT !.open = TRUE])
  /\ UNCHANGED watchdogVars

(* prefillSilence, prime and start; any of them may report an error.        *)
PrimeAudio ==
  /\ pc = "primingAudio"
  /\ \/ FailPhase
     \/ CheckControl("creatingWatchdog", [audio EXCEPT !.running = TRUE])
  /\ UNCHANGED watchdogVars

StartWatchdog ==
  /\ pc = "creatingWatchdog"
  /\ \/ (FailPhase \/ FailControl(audio)) /\ UNCHANGED watchdogVars
     \/ CreateWatchdog /\ GoOn("armingWatchdog")

ArmWatchdog == pc = "armingWatchdog" /\ Arm /\ GoOn("armedCheck")

CheckArmed == pc = "armedCheck" /\ CheckControl("keying", audio) /\ UNCHANGED watchdogVars

(* A refused heartbeat is reported as a cancellation.                       *)
PreKeyDelay ==
  /\ pc = "preKeyDelay"
  /\ \/ CheckControl("transmitting", audio) /\ UNCHANGED watchdogVars
     \/ WaitRound
     \/ HeartbeatRefused /\ FailPhase /\ UNCHANGED watchdogVars

(* Drained as soon as the signal is declared finished.                      *)
IsDrainedEarly == audio.finished

IsDrained == audio.finished /\ audio.ring = 0

StartDrain == pc = "drainStart" /\ CheckControl("draining", audio) /\ UNCHANGED watchdogVars

(* The drain loop ends when the ring is empty, at its deadline, or with a   *)
(* refused heartbeat.                                                       *)
Drain ==
  /\ pc = "draining"
  /\ \/ GoOn("drainCheck") /\ UNCHANGED watchdogVars
     \/ ~IsDrained /\ FailControl(audio) /\ UNCHANGED watchdogVars
     \/ ~IsDrained /\ WaitRound

CheckDrain ==
  pc = "drainCheck" /\ CheckControl("drainVerdict", audio) /\ UNCHANGED watchdogVars

JudgeDrain ==
  /\ pc = "drainVerdict"
  /\ IF IsDrained THEN GoOn("postAudioTail") ELSE FailPhase
  /\ UNCHANGED watchdogVars

(* What waitPhase returns is ignored: a refused heartbeat ends the tail      *)
(* early and is no fault.                                                   *)
Tail ==
  /\ pc = "postAudioTail"
  /\ \/ CheckControl("gating", audio) /\ UNCHANGED watchdogVars
     \/ WaitRound
     \/ HeartbeatRefused /\ GoOn("gating") /\ UNCHANGED watchdogVars

FinishWatchdog ==
  /\ pc = "finishing"
  /\ IF worker = "absent" THEN UNCHANGED watchdogVars ELSE Finish
  /\ GoOn("cancelRecheck")

(* run() without its last look at a stop request.                           *)
SkipRecheck == pc = "cancelRecheck" /\ GoOn("audioCleanup") /\ UNCHANGED watchdogVars

RecheckCancel ==
  /\ pc = "cancelRecheck"
  /\ wasCancelled' = (wasCancelled \/ StopAsked)
  /\ pc' = "audioCleanup"
  /\ UNCHANGED <<hasFault, audio, watchdogVars>>

(* AudioEndpointGuard::cleanup.  Closing uninitialises the device whatever  *)
(* errors stop and close report.                                            *)
StopAudio == audio' = [audio EXCEPT !.open = FALSE, !.running = FALSE]

CleanAudio ==
  /\ pc = "audioCleanup"
  /\ hasFault' \in {hasFault, hasFault \/ audio.open}
  /\ StopAudio
  /\ pc' = "deciding"
  /\ UNCHANGED <<wasCancelled, watchdogVars>>

(* An exception skips the rest of run() and unwinds its locals.             *)
Throw ==
  /\ AllocationFails
  /\ pc \in Allocating
  /\ GoOn("unwindAudio")
  /\ UNCHANGED watchdogVars

(* The lease is released before anything stops the audio.                   *)
UnwindLeaseFirst == pc = "unwindAudio" /\ GoOn("leaseDestructor") /\ UNCHANGED watchdogVars

UnwindAudio ==
  /\ pc = "unwindAudio"
  /\ StopAudio
  /\ pc' = "leaseDestructor"
  /\ UNCHANGED <<hasFault, wasCancelled, watchdogVars>>

(* ~PttWatchdog: request_stop, notify_all, join.                            *)
StopWatchdog ==
  /\ pc = "stoppingWatchdog"
  /\ IF worker = "absent"
     THEN UNCHANGED watchdogVars /\ GoOn("deactivating")
     ELSE RequestStop /\ GoOn("notifyingWatchdog")

NotifyWatchdog == pc = "notifyingWatchdog" /\ NotifyStop /\ GoOn("joining")

JoinWatchdog == pc = "joining" /\ Join /\ GoOn("deactivating")

PhaseStep ==
  /\ \/ OpenAudio \/ PrimeAudio \/ StartWatchdog \/ ArmWatchdog \/ CheckArmed
     \/ PreKeyDelay \/ StartDrain \/ Drain \/ CheckDrain \/ JudgeDrain \/ Tail
     \/ FinishWatchdog \/ RecheckCancel \/ CleanAudio
     \/ Throw \/ UnwindAudio \/ StopWatchdog \/ NotifyWatchdog \/ JoinWatchdog
  /\ UNCHANGED <<safetyVars, controlVars, leaseVars, sourceVars, resultVars>>

-----------------------------------------------------------------------------
(* Key and unkey.                                                           *)

(* PttLease::markKeyAttempt.                                                *)
MarkKeyAttempt ==
  /\ pc = "keying"
  /\ leaseActive' = TRUE /\ leaseReleased' = FALSE
  /\ RecordKeyAttempt
  /\ GoOn("keyCommand")
  /\ UNCHANGED <<rigKeyed, keySent, unkeySent, cleanup, keyReply>>

SendKey ==
  /\ pc = "keyCommand"
  /\ \E reply \in KeyReplies : ExecuteKey(reply) /\ keyReply' = reply
  /\ GoOn("keyResult")
  /\ UNCHANGED <<record, cleanup, leaseActive, leaseReleased>>

(* PttLease::recordKeyResult and the verdict on the answer.                 *)
TakeKeyReply ==
  /\ pc = "keyResult"
  /\ IF keyReply = "refused"
     THEN leaseActive' = FALSE /\ RecordResult(TRUE, FALSE)
     ELSE UNCHANGED <<leaseActive, record>>
  /\ IF keyReply = "accepted" THEN GoOn("preKeyDelay") ELSE FailPhase
  /\ UNCHANGED <<rigKeyed, keySent, unkeySent, cleanup, keyReply, leaseReleased>>

(* A fault gates the signal; an active lease starts its release.            *)
Gate ==
  /\ pc = "gating"
  /\ audio' = [audio EXCEPT !.gated = @ \/ hasFault]
  /\ IF leaseActive
     THEN StartCleanup("session") /\ pc' = "unkeying"
     ELSE UNCHANGED cleanup /\ pc' = "finishing"
  /\ UNCHANGED <<rigKeyed, keySent, unkeySent, record, hasFault, wasCancelled, leaseVars>>

(* The loop of PttLease::release and its end.                               *)
TryRelease == AttemptUnkey("session") /\ UNCHANGED <<pc, hasFault, leaseVars>>

EndRelease(next) ==
  /\ RecordCleanup("session", FALSE)
  /\ leaseReleased' = TRUE
  /\ leaseActive' = (cleanup["session"].verdict = "hazard")
  /\ pc' = next
  /\ UNCHANGED <<rigKeyed, keySent, unkeySent, keyReply>>

Unkey ==
  /\ pc = "unkeying"
  /\ \/ TryRelease
     \/ EndRelease("finishing") /\ hasFault' = (hasFault \/ cleanup["session"].verdict = "hazard")
  /\ UNCHANGED <<wasCancelled, audio>>

(* A lease whose destructor releases nothing.                               *)
ForgetLease ==
  /\ pc = "leaseDestructor"
  /\ GoOn("stoppingWatchdog")
  /\ UNCHANGED <<safetyVars, leaseVars>>

(* ~PttLease releases what was not released.                                *)
DestroyLease ==
  /\ pc = "leaseDestructor"
  /\ IF leaseActive /\ ~leaseReleased
     THEN StartCleanup("session") /\ GoOn("leaseUnkeying")
     ELSE UNCHANGED cleanup /\ GoOn("stoppingWatchdog")
  /\ UNCHANGED <<rigKeyed, keySent, unkeySent, record, leaseVars>>

UnkeyInDestructor ==
  /\ pc = "leaseUnkeying"
  /\ TryRelease \/ (EndRelease("stoppingWatchdog") /\ UNCHANGED hasFault)
  /\ UNCHANGED <<wasCancelled, audio>>

LeaseStep ==
  /\ \/ MarkKeyAttempt \/ SendKey \/ TakeKeyReply \/ Gate \/ Unkey
     \/ DestroyLease \/ UnkeyInDestructor
  /\ UNCHANGED <<watchdogVars, controlVars, sourceVars, resultVars>>

-----------------------------------------------------------------------------
(* Signal.                                                                  *)

(* The outer loop of the transmitting phase: control, heartbeat, read.  A    *)
(* fault ends it, and so does a refused heartbeat or a failing source.      *)
ReadBlock ==
  /\ pc = "transmitting"
  /\ \/ /\ left = 0
        /\ audio' = [audio EXCEPT !.finished = TRUE]
        /\ pc' = "drainStart"
        /\ UNCHANGED <<hasFault, wasCancelled, sourceVars, watchdogVars>>
     \/ left > 0 /\ FailControl(audio) /\ UNCHANGED <<sourceVars, watchdogVars>>
     \/ left > 0 /\ HeartbeatRefused /\ FailPhase /\ UNCHANGED <<sourceVars, watchdogVars>>
     \/ /\ left > 0 /\ ~ControlFault /\ Heartbeat
        /\ \/ FailPhase /\ UNCHANGED sourceVars
           \/ /\ inHand' = Min({left, BlockFrames})
              /\ left' = left - inHand'
              /\ GoOn("queueing")

(* The inner loop: the endpoint takes what its ring has room for.  When it  *)
(* takes nothing the thread waits and looks again, without a heartbeat.     *)
QueueBlock ==
  /\ pc = "queueing"
  /\ LET taken == Min({inHand, RingFrames - audio.ring}) IN
       \/ /\ taken > 0
          /\ audio' = [audio EXCEPT !.ring = @ + taken]
          /\ inHand' = inHand - taken
          /\ pc' = IF inHand' = 0 THEN "transmitting" ELSE "queueing"
          /\ UNCHANGED <<hasFault, wasCancelled>>
       \/ taken = 0 /\ FailControl(audio) /\ UNCHANGED inHand
  /\ UNCHANGED <<left, watchdogVars>>

SignalStep ==
  /\ ReadBlock \/ QueueBlock
  /\ UNCHANGED <<safetyVars, controlVars, leaseVars, resultVars>>

-----------------------------------------------------------------------------
(* The end of a session.                                                    *)

Decide ==
  /\ pc = "deciding"
  /\ EndEarly(IF record.hasHazard THEN "hazardous"
              ELSE IF wasCancelled THEN "cancelled"
              ELSE IF hasFault THEN "faulted" ELSE "completed")
  /\ UNCHANGED <<isActive, stopper>>

(* ~ActiveSessionGuard: the store and the notification, without mutex_.     *)
Deactivate ==
  /\ pc = "deactivating"
  /\ isActive' = FALSE
  /\ pc' = "notifying"
  /\ UNCHANGED <<outcome, stopper>>

(* A session that ends without a notification.                              *)
NotifyNobody == pc = "notifying" /\ pc' = "idle" /\ UNCHANGED <<outcome, isActive, stopper>>

NotifyStopper ==
  /\ pc = "notifying"
  /\ stopper' = IF stopper = "asleep" THEN "testing" ELSE stopper
  /\ pc' = "idle"
  /\ UNCHANGED <<outcome, isActive>>

EndStep ==
  /\ Decide \/ Deactivate \/ NotifyStopper
  /\ UNCHANGED <<safetyVars, watchdogVars, hasFault, wasCancelled, leaseVars, sourceVars, audio,
                 sessions, stray, isCancelled, isShuttingDown, retries, stopAsked>>

-----------------------------------------------------------------------------
(* The other threads, the user and the device.                              *)

RequestCancel ==
  /\ isCancelled' = TRUE
  /\ stopAsked' = IF pc \in StopDecides THEN "running"
                  ELSE IF pc = "entered" /\ stopAsked = "no" THEN "entering" ELSE stopAsked
  /\ UNCHANGED <<isActive, isShuttingDown, retries, stopper>>

(* shutdown(): ask, then wait under mutex_ until no session is active.      *)
RequestShutdown ==
  /\ stopper = "none"
  /\ isShuttingDown' = TRUE /\ isCancelled' = TRUE
  /\ stopAsked' = IF pc \in StopDecides \cup {"entered"} THEN "running" ELSE stopAsked
  /\ stopper' = "testing"
  /\ UNCHANGED <<isActive, retries>>

TestActive ==
  /\ stopper = "testing"
  /\ stopper' = IF ~isActive THEN "returned"
                ELSE IF WaitIsAtomic THEN "asleep" ELSE "fallingAsleep"
  /\ UNCHANGED <<isActive, isCancelled, isShuttingDown, retries, stopAsked>>

FallAsleep ==
  /\ stopper = "fallingAsleep"
  /\ stopper' = "asleep"
  /\ UNCHANGED <<isActive, isCancelled, isShuttingDown, retries, stopAsked>>

StopStep ==
  /\ RequestCancel \/ RequestShutdown \/ TestActive \/ FallAsleep
  /\ UNCHANGED <<safetyVars, watchdogVars, pc, contextVars>>

(* retryHazardCleanup(): refused while a session is active.                 *)
StartRetry ==
  /\ ~isActive
  /\ retries < MaxRetries
  /\ cleanup["retry"] = NoCleanup
  /\ retries' = retries + 1
  /\ StartCleanup("retry")
  /\ UNCHANGED <<rigKeyed, keySent, unkeySent, record>>

Retry ==
  /\ \/ AttemptUnkey("retry")
     \/ RecordCleanup("retry", FALSE) /\ UNCHANGED <<rigKeyed, keySent, unkeySent>>
  /\ UNCHANGED retries

RetryStep ==
  /\ StartRetry \/ Retry
  /\ UNCHANGED <<watchdogVars, pc, contextVars, isActive, isCancelled, isShuttingDown,
                 stopper, stopAsked>>

(* One callback: it takes a signal frame out of the ring and, unless the      *)
(* signal is gated, plays it.  A callback neither waits nor allocates, and   *)
(* is one step next to provider calls and their network traffic.            *)
PlayFrame ==
  /\ audio.running /\ audio.ring > 0
  /\ audio' = [audio EXCEPT !.ring = @ - 1]
  /\ stray' = (stray \/ (~audio.gated /\ ~rigKeyed))

(* An underrun, a disconnect or a removal shows up in the endpoint status.  *)
LoseDevice ==
  /\ audio.open /\ ~audio.fault
  /\ audio' = [audio EXCEPT !.fault = TRUE]
  /\ UNCHANGED stray

DeviceStep ==
  /\ PlayFrame \/ LoseDevice
  /\ UNCHANGED <<safetyVars, watchdogVars, pc, hasFault, wasCancelled, leaseVars, sourceVars,
                 outcome, sessions, controlVars>>

Worker == WorkerStep /\ UNCHANGED <<pc, contextVars, controlVars>>

(* With KeyWithinLease the clock cannot overtake the key command.           *)
Clock ==
  /\ LeaseTick
  /\ KeyWithinLease /\ pc \in BeforeKeyCommand => leaseLeft > 1
  /\ UNCHANGED <<pc, contextVars, controlVars>>

-----------------------------------------------------------------------------
ControlStep == StartStep \/ PhaseStep \/ LeaseStep \/ SignalStep \/ EndStep

Next ==
  \/ BeginRun \/ ControlStep
  \/ Worker \/ Clock \/ StopStep \/ RetryStep \/ DeviceStep

Spec == Init /\ [][Next]_vars

(* Every thread that can run does, and time passes.  The control thread      *)
(* leaves its waiting loops, whose rounds are bounded by a deadline; nothing  *)
(* is assumed of the user, the device or the rig.                            *)
FairSpec ==
  /\ Spec
  /\ WF_vars(ControlStep /\ pc' # pc)
  /\ WF_vars(ControlStep /\ (cleanup' # cleanup \/ inHand' # inHand))
  /\ WF_vars(Worker)
  /\ WF_vars(Clock)
  /\ WF_vars(StopStep /\ stopper # "none" /\ stopper' # stopper)
  /\ WF_vars(RetryStep /\ retries' = retries)

(* The watchdog's own fairness: the control thread may stop anywhere.       *)
StallSpec ==
  /\ Spec
  /\ WF_vars(Worker)
  /\ WF_vars(Clock)
=============================================================================
