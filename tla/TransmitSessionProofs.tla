------------------------- MODULE TransmitSessionProofs -------------------------
(***************************************************************************)
(* Proofs about TransmitSession for every size of source, block, ring,      *)
(* lease and retry policy.                                                  *)
(***************************************************************************)
EXTENDS TransmitProperties, TLAPS

-----------------------------------------------------------------------------
(* Types.                                                                   *)

(* A loop that still tries has an attempt left.                             *)
AttemptsLeft == \A c \in Callers : cleanup[c].verdict = "trying" => cleanup[c].attempts < UnkeyAttempts

CleanupType ==
  /\ cleanup \in [Callers -> [attempts: 0 .. UnkeyAttempts,
                              verdict: {"none", "trying", "unkeyed", "hazard"}]]
  /\ AttemptsLeft

RecordType ==
  record \in [certainty: {"definitelyUnkeyed", "indeterminate"},
              hasHazard: BOOLEAN, watchdogExpired: BOOLEAN]

(* TypeOK, part by part: numbers and truth values go to different provers.   *)
SafetyFlags == rigKeyed \in BOOLEAN /\ keySent \in BOOLEAN /\ unkeySent \in BOOLEAN
WatchdogFlags == isArmed \in BOOLEAN /\ hasExpired \in BOOLEAN /\ stopRequested \in BOOLEAN
ControlFlags == isActive \in BOOLEAN /\ isCancelled \in BOOLEAN /\ isShuttingDown \in BOOLEAN
ContextFlags ==
  /\ hasFault \in BOOLEAN /\ wasCancelled \in BOOLEAN
  /\ leaseActive \in BOOLEAN /\ leaseReleased \in BOOLEAN /\ stray \in BOOLEAN
Flags == SafetyFlags /\ WatchdogFlags /\ ControlFlags /\ ContextFlags

Names ==
  /\ worker \in WorkerPlaces
  /\ pc \in Places
  /\ keyReply \in {"none"} \cup KeyReplies
  /\ outcome \in {"none"} \cup Outcomes
  /\ stopper \in {"none", "testing", "fallingAsleep", "asleep", "returned"}
  /\ stopAsked \in {"no", "entering", "running"}

Numbers ==
  /\ leaseLeft \in 0 .. LeaseTicks
  /\ left \in 0 .. SourceFrames
  /\ inHand \in 0 .. SourceFrames
  /\ sessions \in 0 .. MaxSessions
  /\ retries \in 0 .. MaxRetries

AudioType ==
  audio \in [open: BOOLEAN, running: BOOLEAN, gated: BOOLEAN, finished: BOOLEAN,
             ring: 0 .. RingFrames, fault: BOOLEAN]

TypeInv == CleanupType /\ RecordType /\ Flags /\ Names /\ Numbers /\ AudioType

(* The parts make up TypeOK.                                                *)
LEMMA TypeInvImpliesTypeOK == TypeInv => TypeOK
BY Zenon DEF TypeInv, TypeOK, SafetyTypeOK, WatchdogTypeOK, CleanupType, RecordType, Flags,
   SafetyFlags, WatchdogFlags, ControlFlags, ContextFlags, Names, Numbers, AudioType

(* What Min returns for two numbers.                                        *)
LEMMA MinOfTwo ==
  ASSUME NEW a \in Nat, NEW b \in Nat
  PROVE  /\ Min({a, b}) \in {a, b}
         /\ Min({a, b}) <= a /\ Min({a, b}) <= b
<1>1. \E x \in {a, b} : \A y \in {a, b} : x <= y
  BY SMT
<1> QED
  BY <1>1 DEF Min

(* A cleanup loop that starts has its first attempt left.                    *)
LEMMA StartCleanupType ==
  ASSUME CleanupType, NEW c \in Callers, StartCleanup(c)
  PROVE  CleanupType'
BY UnkeyAttemptsAssumption DEF CleanupType, AttemptsLeft, StartCleanup

(* One round of the loop keeps the count within the policy.                  *)
LEMMA AttemptUnkeyType ==
  ASSUME CleanupType, RecordType, rigKeyed \in BOOLEAN, keySent \in BOOLEAN,
         NEW c \in Callers, AttemptUnkey(c)
  PROVE  CleanupType' /\ RecordType' /\ rigKeyed' \in BOOLEAN /\ keySent' \in BOOLEAN
         /\ unkeySent' \in BOOLEAN
<1>1. PICK certain \in BOOLEAN :
        cleanup' = [cleanup EXCEPT ![c] =
          [attempts |-> cleanup[c].attempts + 1,
           verdict |-> Verdict(certain, cleanup[c].attempts + 1)]]
  BY DEF AttemptUnkey
<1>2. cleanup[c].attempts \in 0 .. UnkeyAttempts /\ cleanup[c].attempts < UnkeyAttempts
  BY DEF AttemptUnkey, CleanupType, AttemptsLeft
<1> DEFINE n == cleanup[c].attempts + 1
<1>3. /\ n \in 0 .. UnkeyAttempts
      /\ Verdict(certain, n) \in {"unkeyed", "hazard", "trying"}
      /\ Verdict(certain, n) = "trying" => n < UnkeyAttempts
  BY <1>2, UnkeyAttemptsAssumption DEF Verdict
<1>4. cleanup' = [cleanup EXCEPT ![c] = [attempts |-> n, verdict |-> Verdict(certain, n)]]
  BY <1>1
<1>5. CleanupType'
  <2> HIDE DEF n
  <2> QED
    BY <1>3, <1>4 DEF CleanupType, AttemptsLeft
<1> QED
  BY <1>5 DEF AttemptUnkey, RecordType

(* A verdict on record.                                                      *)
LEMMA RecordCleanupType ==
  ASSUME CleanupType, RecordType, NEW c \in Callers, NEW expired \in BOOLEAN,
         RecordCleanup(c, expired)
  PROVE  CleanupType' /\ RecordType'
<1>1. CleanupType'
  BY UnkeyAttemptsAssumption DEF CleanupType, AttemptsLeft, RecordCleanup, NoCleanup
<1>2. RecordType'
  BY DEF RecordType, RecordCleanup, RecordResult
<1> QED
  BY <1>1, <1>2

(* The initial state has its types.                                         *)
LEMMA TypeInit == Init => TypeInv
<1> SUFFICES ASSUME Init PROVE TypeInv
  OBVIOUS
<1>1. CleanupType
  BY UnkeyAttemptsAssumption DEF Init, SafetyInit, CleanupType, AttemptsLeft, NoCleanup
<1>2. RecordType
  BY DEF Init, SafetyInit, RecordType
<1>3. Flags
  BY DEF Init, SafetyInit, WatchdogInit, Flags, SafetyFlags, WatchdogFlags, ControlFlags,
         ContextFlags
<1>4. Names
  BY DEF Init, WatchdogInit, Names, Places, WorkerPlaces
<1>5. Numbers
  BY LeaseTicksAssumption, SizesAssumption DEF Init, WatchdogInit, Numbers
<1>6. AudioType
  BY SizesAssumption DEF Init, ClosedAudio, AudioType
<1> QED
  BY <1>1, <1>2, <1>3, <1>4, <1>5, <1>6 DEF TypeInv

(* run() up to the open audio endpoint keeps the types.                      *)
LEMMA StartStepType == ASSUME TypeInv, BeginRun \/ StartStep PROVE TypeInv'
<1> "session" \in Callers
  BY DEF Callers
<1>1. CleanupType' /\ RecordType'
  <2>1. CASE BeginRun \/ ForgetCancel \/ Prepare
    BY <2>1 DEF TypeInv, BeginRun, ForgetCancel, Prepare, safetyVars, CleanupType, AttemptsLeft,
                RecordType
  <2>2. CASE CheckPtt
    BY <2>2, StartCleanupType DEF TypeInv, CheckPtt, CleanupType, AttemptsLeft, RecordType
  <2>3. CASE ClearPtt
    <3>1. CASE AttemptUnkey("session")
      BY <3>1, AttemptUnkeyType DEF TypeInv, Flags, SafetyFlags
    <3>2. CASE RecordCleanup("session", FALSE)
      BY <3>2, RecordCleanupType DEF TypeInv
    <3> QED
      BY <2>3, <3>1, <3>2 DEF ClearPtt
  <2> QED
    BY <2>1, <2>2, <2>3 DEF StartStep
<1>2. SafetyFlags'
  BY DEF TypeInv, Flags, SafetyFlags, BeginRun, StartStep, ForgetCancel, Prepare, CheckPtt,
         ClearPtt, AttemptUnkey, safetyVars
<1>3. WatchdogFlags' /\ leaseLeft' = leaseLeft /\ worker' = worker
  BY DEF TypeInv, Flags, WatchdogFlags, BeginRun, StartStep, watchdogVars
<1>4. ControlFlags'
  <2>1. CASE BeginRun
    <3>1. isActive' = TRUE /\ isCancelled' = isCancelled /\ isShuttingDown' = isShuttingDown
      BY <2>1 DEF BeginRun
    <3> QED
      BY <3>1, Zenon DEF TypeInv, Flags, ControlFlags
  <2>2. CASE StartStep
    <3>1. UNCHANGED <<isActive, isShuttingDown>>
      BY <2>2 DEF StartStep
    <3>2. isCancelled' \in {isCancelled, FALSE}
      BY <2>2 DEF StartStep, ForgetCancel, Prepare, CheckPtt, ClearPtt, safetyVars
    <3> QED
      BY <3>1, <3>2, Zenon DEF TypeInv, Flags, ControlFlags
  <2> QED
    BY <2>1, <2>2
<1>5. ContextFlags'
  <2>1. CASE BeginRun
    <3>1. /\ hasFault' = FALSE /\ wasCancelled' = FALSE
          /\ leaseActive' = FALSE /\ leaseReleased' = FALSE /\ stray' = FALSE
      BY <2>1 DEF BeginRun
    <3> QED
      BY <3>1, Zenon DEF ContextFlags
  <2>2. CASE StartStep
    <3>1. UNCHANGED <<hasFault, leaseActive, leaseReleased, stray>>
      BY <2>2 DEF StartStep, leaseVars
    <3>2. wasCancelled' \in {wasCancelled, TRUE}
      BY <2>2 DEF StartStep, ForgetCancel, Prepare, CheckPtt, ClearPtt
    <3> QED
      BY <3>1, <3>2, Zenon DEF TypeInv, Flags, ContextFlags
  <2> QED
    BY <2>1, <2>2
<1>6. Names'
  <2>1. worker \in WorkerPlaces /\ keyReply \in {"none"} \cup KeyReplies
          /\ outcome \in {"none"} \cup Outcomes
          /\ stopper \in {"none", "testing", "fallingAsleep", "asleep", "returned"}
          /\ stopAsked \in {"no", "entering", "running"}
    BY DEF TypeInv, Names
  <2>2. CASE BeginRun
    <3>1. pc' = "entered" /\ keyReply' = "none" /\ outcome' = "none" /\ stopAsked' = "no"
            /\ stopper' = stopper
      BY <2>2 DEF BeginRun
    <3> QED
      BY <1>3, <2>1, <3>1 DEF Names, Places, StopDecides
  <2>3. CASE StartStep
    <3>1. UNCHANGED <<keyReply, stopper, stopAsked>>
      BY <2>3 DEF StartStep, leaseVars
    <3>2. pc' \in {"preparing", "checkingPtt", "openingAudio", "clearingPtt", "leaseDestructor"}
      BY <2>3 DEF StartStep, ForgetCancel, Prepare, EndEarly, CheckPtt, ClearPtt
    <3>3. outcome' \in {outcome, "none", "rejected", "cancelled", "hazardous"}
      BY <2>3 DEF StartStep, ForgetCancel, Prepare, EndEarly, CheckPtt, ClearPtt
    <3> QED
      BY <1>3, <2>1, <3>1, <3>2, <3>3 DEF Names, Places, StopDecides, Leaving, BeforeKeyCommand,
         Outcomes
  <2> QED
    BY <2>2, <2>3
<1>7. Numbers'
  BY <1>3, SizesAssumption DEF TypeInv, Numbers, BeginRun, StartStep, sourceVars
<1>8. AudioType'
  <2>1. audio' = audio \/ audio' = ClosedAudio
    BY DEF BeginRun, StartStep
  <2>2. ASSUME audio' = ClosedAudio PROVE AudioType'
    BY <2>2, SizesAssumption DEF AudioType, ClosedAudio
  <2>3. ASSUME audio' = audio PROVE AudioType'
    BY <2>3 DEF TypeInv, AudioType
  <2> QED
    BY <2>1, <2>2, <2>3
<1> QED
  BY <1>1, <1>2, <1>3, <1>4, <1>5, <1>6, <1>7, <1>8 DEF TypeInv, Flags

(* Audio, watchdog and delays keep the types.                                *)
LEMMA PhaseStepType == ASSUME TypeInv, PhaseStep PROVE TypeInv'
<1>1. CleanupType' /\ RecordType'
  BY DEF TypeInv, PhaseStep, safetyVars, CleanupType, AttemptsLeft, RecordType
<1>2. SafetyFlags' /\ ControlFlags'
  BY DEF TypeInv, Flags, SafetyFlags, ControlFlags, PhaseStep, safetyVars, controlVars
<1>3. WatchdogFlags'
  BY DEF TypeInv, Flags, WatchdogFlags, PhaseStep, OpenAudio, PrimeAudio, StartWatchdog, ArmWatchdog, CheckArmed,
     PreKeyDelay, StartDrain, Drain, CheckDrain, JudgeDrain, Tail, FinishWatchdog, RecheckCancel,
     CleanAudio, StopAudio, Throw, UnwindAudio, StopWatchdog, NotifyWatchdog, JoinWatchdog,
     CheckControl, FailControl, FailPhase, Fail, GoOn, WaitRound,
     CreateWatchdog, Arm, NotifyStart, Heartbeat, Finish,
     RequestStop, NotifyStop, Join, watchdogVars
<1>4. ContextFlags'
  BY DEF TypeInv, Flags, ContextFlags, StopAsked, leaseVars, resultVars,
     PhaseStep, OpenAudio, PrimeAudio, StartWatchdog, ArmWatchdog, CheckArmed,
     PreKeyDelay, StartDrain, Drain, CheckDrain, JudgeDrain, Tail, FinishWatchdog, RecheckCancel,
     CleanAudio, StopAudio, Throw, UnwindAudio, StopWatchdog, NotifyWatchdog, JoinWatchdog,
     CheckControl, FailControl, FailPhase, Fail, GoOn, WaitRound
<1>5. Names'
  BY DEF TypeInv, Names, leaseVars, resultVars, controlVars,
     Places, StopDecides, Leaving, BeforeKeyCommand, WorkerPlaces,
     PhaseStep, OpenAudio, PrimeAudio, StartWatchdog, ArmWatchdog, CheckArmed,
     PreKeyDelay, StartDrain, Drain, CheckDrain, JudgeDrain, Tail, FinishWatchdog, RecheckCancel,
     CleanAudio, StopAudio, Throw, UnwindAudio, StopWatchdog, NotifyWatchdog, JoinWatchdog,
     CheckControl, FailControl, FailPhase, Fail, GoOn, WaitRound,
     CreateWatchdog, Arm, NotifyStart, Heartbeat, Finish,
     RequestStop, NotifyStop, Join, watchdogVars
<1>6. leaseLeft' \in 0 .. LeaseTicks
  BY LeaseTicksAssumption DEF TypeInv, Numbers, PhaseStep,
     OpenAudio, PrimeAudio, StartWatchdog, ArmWatchdog, CheckArmed,
     PreKeyDelay, StartDrain, Drain, CheckDrain, JudgeDrain, Tail, FinishWatchdog, RecheckCancel,
     CleanAudio, StopAudio, Throw, UnwindAudio, StopWatchdog, NotifyWatchdog, JoinWatchdog,
     CheckControl, FailControl, FailPhase, Fail, GoOn, WaitRound,
     CreateWatchdog, Arm, NotifyStart, Heartbeat, Finish,
     RequestStop, NotifyStop, Join, watchdogVars
<1>7. Numbers'
  BY <1>6 DEF TypeInv, Numbers, PhaseStep, sourceVars, controlVars, resultVars
<1>8. AudioType'
  BY DEF TypeInv, AudioType, PhaseStep,
     OpenAudio, PrimeAudio, StartWatchdog, ArmWatchdog, CheckArmed,
     PreKeyDelay, StartDrain, Drain, CheckDrain, JudgeDrain, Tail, FinishWatchdog, RecheckCancel,
     CleanAudio, StopAudio, Throw, UnwindAudio, StopWatchdog, NotifyWatchdog, JoinWatchdog,
     CheckControl, FailControl, FailPhase, Fail, GoOn, WaitRound
<1> QED
  BY <1>1, <1>2, <1>3, <1>4, <1>5, <1>7, <1>8 DEF TypeInv, Flags

(* Key and unkey keep the types.                                            *)
LEMMA LeaseStepType == ASSUME TypeInv, LeaseStep PROVE TypeInv'
<1> "session" \in Callers
  BY DEF Callers
<1>1. CleanupType' /\ RecordType' /\ rigKeyed' \in BOOLEAN /\ keySent' \in BOOLEAN
      /\ unkeySent' \in BOOLEAN
  <2>1. CASE AttemptUnkey("session")
    BY <2>1, AttemptUnkeyType DEF TypeInv, Flags, SafetyFlags
  <2>2. CASE EndRelease("finishing") \/ EndRelease("stoppingWatchdog")
    BY <2>2, RecordCleanupType DEF TypeInv, Flags, SafetyFlags, EndRelease
  <2>3. CASE Gate \/ DestroyLease
    BY <2>3, StartCleanupType DEF TypeInv, Flags, SafetyFlags, Gate, DestroyLease, CleanupType,
                                  AttemptsLeft, RecordType
  <2>4. CASE MarkKeyAttempt \/ SendKey \/ TakeKeyReply
    <3>1. CleanupType'
      BY <2>4 DEF TypeInv, MarkKeyAttempt, SendKey, TakeKeyReply, CleanupType, AttemptsLeft
    <3>2. RecordType'
      <4>1. \/ RecordKeyAttempt \/ RecordResult(TRUE, FALSE) \/ record' = record
        BY <2>4 DEF MarkKeyAttempt, SendKey, TakeKeyReply
      <4>2. CASE RecordKeyAttempt
        BY <4>2 DEF TypeInv, RecordType, RecordKeyAttempt
      <4>3. CASE RecordResult(TRUE, FALSE)
        BY <4>3 DEF TypeInv, RecordType, RecordResult
      <4> QED
        BY <4>1, <4>2, <4>3 DEF TypeInv, RecordType
    <3>3. rigKeyed' \in BOOLEAN /\ keySent' \in BOOLEAN /\ unkeySent' \in BOOLEAN
      BY <2>4 DEF TypeInv, Flags, SafetyFlags, MarkKeyAttempt, SendKey, TakeKeyReply, ExecuteKey
    <3> QED
      BY <3>1, <3>2, <3>3
  <2> QED
    BY <2>1, <2>2, <2>3, <2>4 DEF LeaseStep, Unkey, UnkeyInDestructor, TryRelease
<1>2. WatchdogFlags' /\ ControlFlags' /\ worker' = worker /\ leaseLeft' = leaseLeft
  BY DEF TypeInv, Flags, WatchdogFlags, ControlFlags, LeaseStep, watchdogVars, controlVars
<1>3. ContextFlags'
  BY DEF TypeInv, Flags, ContextFlags, LeaseStep, MarkKeyAttempt, SendKey, TakeKeyReply, Gate,
         Unkey, DestroyLease, UnkeyInDestructor, TryRelease, EndRelease, GoOn, FailPhase, Fail,
         leaseVars, resultVars
<1>4. Names'
  BY <1>2 DEF TypeInv, Names, LeaseStep, MarkKeyAttempt, SendKey, TakeKeyReply, Gate,
         Unkey, DestroyLease, UnkeyInDestructor, TryRelease, EndRelease, GoOn, FailPhase, Fail,
         leaseVars, resultVars, controlVars, Places, StopDecides, Leaving, BeforeKeyCommand
<1>5. Numbers'
  BY <1>2 DEF TypeInv, Numbers, LeaseStep, sourceVars, controlVars, resultVars
<1>6. AudioType'
  BY DEF TypeInv, AudioType, LeaseStep, MarkKeyAttempt, SendKey, TakeKeyReply, Gate,
         Unkey, DestroyLease, UnkeyInDestructor, GoOn, FailPhase, Fail, ContextFlags, Flags
<1> QED
  BY <1>1, <1>2, <1>3, <1>4, <1>5, <1>6 DEF TypeInv, Flags, SafetyFlags

(* Reading and queueing keep the types: no loop overruns the ring or the     *)
(* source.                                                                  *)
LEMMA SignalStepType == ASSUME TypeInv, SignalStep PROVE TypeInv'
<1>1. CleanupType' /\ RecordType'
  BY DEF TypeInv, SignalStep, safetyVars, CleanupType, AttemptsLeft, RecordType
<1>2. SafetyFlags' /\ ControlFlags'
  BY DEF TypeInv, Flags, SafetyFlags, ControlFlags, SignalStep, safetyVars, controlVars
<1>3. WatchdogFlags'
  BY DEF TypeInv, Flags, WatchdogFlags, SignalStep, ReadBlock, QueueBlock, Heartbeat, watchdogVars
<1>4. ContextFlags'
  BY DEF TypeInv, Flags, ContextFlags, SignalStep, ReadBlock, QueueBlock, FailControl, FailPhase,
         Fail, GoOn, StopAsked, leaseVars, resultVars
<1>5. Names'
  BY DEF TypeInv, Names, SignalStep, ReadBlock, QueueBlock, FailControl, FailPhase, Fail, GoOn,
         Heartbeat, watchdogVars, leaseVars, resultVars, controlVars, Places, StopDecides
<1>6. leaseLeft' \in 0 .. LeaseTicks /\ sessions' \in 0 .. MaxSessions /\ retries' \in 0 .. MaxRetries
  BY LeaseTicksAssumption DEF TypeInv, Numbers, SignalStep, ReadBlock, QueueBlock, Heartbeat,
     watchdogVars, resultVars, controlVars
<1> DEFINE room == RingFrames - audio.ring
<1>7. room \in 0 .. RingFrames /\ left \in Nat /\ inHand \in Nat
  BY SizesAssumption DEF TypeInv, Numbers, AudioType
<1>8. CASE ReadBlock
  <2>1. Min({left, BlockFrames}) \in 0 .. left
    BY <1>7, MinOfTwo, SizesAssumption
  <2>2. left' \in 0 .. SourceFrames /\ inHand' \in 0 .. SourceFrames
    BY <1>8, <2>1, SizesAssumption DEF TypeInv, Numbers, ReadBlock, sourceVars
  <2>3. AudioType'
    BY <1>8 DEF TypeInv, AudioType, ReadBlock, FailControl, FailPhase, Fail, GoOn
  <2> QED
    BY <1>1, <1>2, <1>3, <1>4, <1>5, <1>6, <2>2, <2>3 DEF TypeInv, Flags, Numbers
<1>9. CASE QueueBlock
  <2> DEFINE taken == Min({inHand, room})
  <2>1. taken \in 0 .. inHand /\ taken \in 0 .. room
    BY <1>7, MinOfTwo
  <2>2. /\ left' = left
        /\ \/ inHand' = inHand - taken /\ audio' = [audio EXCEPT !.ring = @ + taken]
           \/ inHand' = inHand /\ Fail(audio)
    BY <1>9 DEF QueueBlock, FailControl
  <2>3. left' \in 0 .. SourceFrames /\ inHand' \in 0 .. SourceFrames
    <3> HIDE DEF taken
    <3> QED
      BY <2>1, <2>2, SizesAssumption DEF TypeInv, Numbers
  <2>4. AudioType'
    <3>1. audio.ring + taken \in 0 .. RingFrames
      <4> HIDE DEF taken
      <4> QED
        BY <2>1, <1>7, SizesAssumption DEF TypeInv, AudioType
    <3> HIDE DEF taken
    <3>2. CASE audio' = [audio EXCEPT !.ring = @ + taken]
      BY <3>1, <3>2 DEF TypeInv, AudioType
    <3>3. CASE Fail(audio)
      BY <3>3 DEF TypeInv, AudioType, Fail
    <3> QED
      BY <2>2, <3>2, <3>3
  <2> QED
    BY <1>1, <1>2, <1>3, <1>4, <1>5, <1>6, <2>3, <2>4 DEF TypeInv, Flags, Numbers
<1> QED
  BY <1>8, <1>9 DEF SignalStep

(* The end of a session keeps the types.                                    *)
LEMMA EndStepType == ASSUME TypeInv, EndStep PROVE TypeInv'
<1>1. CleanupType' /\ RecordType' /\ SafetyFlags'
  BY DEF TypeInv, Flags, SafetyFlags, EndStep, safetyVars, CleanupType, AttemptsLeft, RecordType
<1>2. WatchdogFlags' /\ ContextFlags'
  BY DEF TypeInv, Flags, WatchdogFlags, ContextFlags, EndStep, watchdogVars, leaseVars
<1>3. ControlFlags'
  BY DEF TypeInv, Flags, ControlFlags, EndStep, Decide, Deactivate, NotifyStopper
<1>4. Names'
  BY DEF TypeInv, Names, EndStep, Decide, EndEarly, Deactivate, NotifyStopper, watchdogVars,
         leaseVars, Places, Leaving, Outcomes
<1>5. Numbers' /\ AudioType'
  BY DEF TypeInv, Numbers, AudioType, EndStep, watchdogVars, sourceVars
<1> QED
  BY <1>1, <1>2, <1>3, <1>4, <1>5 DEF TypeInv, Flags

(* The watchdog's worker and the clock keep the types.                       *)
LEMMA WatchdogStepType == ASSUME TypeInv, Worker \/ Clock PROVE TypeInv'
<1> "watchdog" \in Callers
  BY DEF Callers
<1>1. CleanupType' /\ RecordType' /\ SafetyFlags'
  <2>1. CASE AttemptUnkey("watchdog")
    BY <2>1, AttemptUnkeyType DEF TypeInv, Flags, SafetyFlags
  <2>2. CASE WorkerRecord
    BY <2>2, RecordCleanupType DEF TypeInv, Flags, SafetyFlags, WorkerRecord
  <2>3. CASE WorkerExpire
    BY <2>3, StartCleanupType DEF TypeInv, Flags, SafetyFlags, WorkerExpire, RecordType
  <2>4. CASE UNCHANGED safetyVars
    BY <2>4 DEF TypeInv, Flags, SafetyFlags, safetyVars, CleanupType, AttemptsLeft, RecordType
  <2> QED
    BY <2>1, <2>2, <2>3, <2>4
    DEF Worker, WorkerStep, WorkerLoop, WorkerSleep, WorkerWake, WorkerUnkey, WorkerDisarm, Clock,
        LeaseTick
<1>2. WatchdogFlags'
  BY DEF TypeInv, Flags, WatchdogFlags, watchdogVars, Worker, WorkerStep, WorkerLoop, WorkerSleep,
         WorkerWake, WorkerExpire, WorkerUnkey, WorkerRecord, WorkerDisarm, Clock, LeaseTick
<1>3. ControlFlags' /\ ContextFlags'
  BY DEF TypeInv, Flags, ControlFlags, ContextFlags, Worker, Clock, contextVars, controlVars,
         leaseVars, resultVars
<1>4. Names'
  BY DEF TypeInv, Names, watchdogVars, Worker, WorkerStep, WorkerLoop, WorkerSleep, WorkerWake,
         WorkerExpire, WorkerUnkey, WorkerRecord, WorkerDisarm, Clock, LeaseTick, contextVars,
         controlVars, leaseVars, resultVars, WorkerPlaces
<1>5. leaseLeft' \in 0 .. LeaseTicks
  <2>1. leaseLeft' = leaseLeft \/ (leaseLeft > 0 /\ leaseLeft' = leaseLeft - 1)
    BY DEF watchdogVars, Worker, WorkerStep, WorkerLoop, WorkerSleep, WorkerWake, WorkerExpire,
           WorkerUnkey, WorkerRecord, WorkerDisarm, Clock, LeaseTick
  <2> QED
    BY <2>1, LeaseTicksAssumption DEF TypeInv, Numbers
<1>6. Numbers' /\ AudioType'
  BY <1>5 DEF TypeInv, Numbers, AudioType, Worker, Clock, contextVars, controlVars, resultVars,
              sourceVars
<1> QED
  BY <1>1, <1>2, <1>3, <1>4, <1>6 DEF TypeInv, Flags

(* The other threads, the user and the device keep the types.                *)
LEMMA OtherStepType == ASSUME TypeInv, StopStep \/ RetryStep \/ DeviceStep PROVE TypeInv'
<1> "retry" \in Callers
  BY DEF Callers
<1>1. CASE StopStep
  <2>1. CleanupType' /\ RecordType' /\ SafetyFlags'
    BY <1>1 DEF TypeInv, Flags, SafetyFlags, StopStep, safetyVars, CleanupType, AttemptsLeft,
                RecordType
  <2>2. WatchdogFlags' /\ ContextFlags'
    BY <1>1 DEF TypeInv, Flags, WatchdogFlags, ContextFlags, StopStep, watchdogVars, contextVars,
                leaseVars, resultVars
  <2>3. ControlFlags'
    BY <1>1 DEF TypeInv, Flags, ControlFlags, StopStep, RequestCancel, RequestShutdown, TestActive,
                FallAsleep
  <2>4. Names'
    BY <1>1 DEF TypeInv, Names, StopStep, RequestCancel, RequestShutdown, TestActive, FallAsleep,
                watchdogVars, contextVars, leaseVars, resultVars
  <2>5. Numbers' /\ AudioType'
    BY <1>1 DEF TypeInv, Numbers, AudioType, StopStep, RequestCancel, RequestShutdown, TestActive,
                FallAsleep, watchdogVars, contextVars, sourceVars, resultVars
  <2> QED
    BY <2>1, <2>2, <2>3, <2>4, <2>5 DEF TypeInv, Flags
<1>2. CASE RetryStep
  <2>1. CleanupType' /\ RecordType' /\ SafetyFlags'
    <3>1. CASE StartRetry
      BY <3>1, StartCleanupType DEF TypeInv, Flags, SafetyFlags, StartRetry, RecordType
    <3>2. CASE AttemptUnkey("retry")
      BY <3>2, AttemptUnkeyType DEF TypeInv, Flags, SafetyFlags
    <3>3. CASE RecordCleanup("retry", FALSE) /\ UNCHANGED <<rigKeyed, keySent, unkeySent>>
      BY <3>3, RecordCleanupType DEF TypeInv, Flags, SafetyFlags
    <3> QED
      BY <1>2, <3>1, <3>2, <3>3 DEF RetryStep, Retry
  <2>2. WatchdogFlags' /\ ContextFlags'
    BY <1>2 DEF TypeInv, Flags, WatchdogFlags, ContextFlags, RetryStep, watchdogVars, contextVars,
                leaseVars, resultVars
  <2>3. ControlFlags' /\ Names' /\ AudioType'
    BY <1>2 DEF TypeInv, Flags, ControlFlags, Names, AudioType, RetryStep, watchdogVars,
                contextVars, leaseVars, resultVars
  <2>4. retries' \in 0 .. MaxRetries
    <3>1. retries' = retries \/ (retries < MaxRetries /\ retries' = retries + 1)
      BY <1>2 DEF RetryStep, StartRetry, Retry
    <3> QED
      BY <3>1, SizesAssumption DEF TypeInv, Numbers
  <2>5. Numbers'
    BY <1>2, <2>4 DEF TypeInv, Numbers, RetryStep, watchdogVars, contextVars, sourceVars,
                      resultVars
  <2> QED
    BY <2>1, <2>2, <2>3, <2>5 DEF TypeInv, Flags
<1>3. CASE DeviceStep
  <2>1. CleanupType' /\ RecordType' /\ SafetyFlags'
    BY <1>3 DEF TypeInv, Flags, SafetyFlags, DeviceStep, safetyVars, CleanupType, AttemptsLeft,
                RecordType
  <2>2. WatchdogFlags' /\ ControlFlags'
    BY <1>3 DEF TypeInv, Flags, WatchdogFlags, ControlFlags, DeviceStep, watchdogVars, controlVars
  <2>3. ContextFlags'
    BY <1>3 DEF TypeInv, Flags, ContextFlags, DeviceStep, PlayFrame, LoseDevice, leaseVars
  <2>4. Names' /\ Numbers'
    BY <1>3 DEF TypeInv, Names, Numbers, DeviceStep, watchdogVars, controlVars, leaseVars,
                sourceVars
  <2>5. AudioType'
    <3>1. CASE PlayFrame
      <4>1. audio.ring - 1 \in 0 .. RingFrames
        BY <3>1, SizesAssumption DEF TypeInv, AudioType, PlayFrame
      <4> QED
        BY <3>1, <4>1 DEF TypeInv, AudioType, PlayFrame
    <3>2. CASE LoseDevice
      BY <3>2 DEF TypeInv, AudioType, LoseDevice
    <3> QED
      BY <1>3, <3>1, <3>2 DEF DeviceStep
  <2> QED
    BY <2>1, <2>2, <2>3, <2>4, <2>5 DEF TypeInv, Flags
<1> QED
  BY <1>1, <1>2, <1>3

(* A stuttering step keeps the types.                                       *)
LEMMA StutterType == ASSUME TypeInv, UNCHANGED vars PROVE TypeInv'
<1>1. CleanupType' /\ RecordType' /\ SafetyFlags' /\ WatchdogFlags'
  BY DEF TypeInv, Flags, SafetyFlags, WatchdogFlags, vars, safetyVars, watchdogVars, CleanupType,
         AttemptsLeft, RecordType
<1>2. ControlFlags' /\ ContextFlags'
  BY DEF TypeInv, Flags, ControlFlags, ContextFlags, vars, contextVars, controlVars, leaseVars,
         resultVars
<1>3. Names' /\ Numbers' /\ AudioType'
  BY DEF TypeInv, Names, Numbers, AudioType, vars, watchdogVars, contextVars, controlVars,
         leaseVars, sourceVars, resultVars
<1> QED
  BY <1>1, <1>2, <1>3 DEF TypeInv, Flags

(* Every step keeps the types.                                              *)
LEMMA TypeNext == TypeInv /\ [Next]_vars => TypeInv'
BY StartStepType, PhaseStepType, LeaseStepType, SignalStepType, EndStepType, WatchdogStepType,
   OtherStepType, StutterType
DEF Next, ControlStep

(* The types hold in every reachable state, for every size of source, block, *)
(* ring, lease and retry policy.                                            *)
THEOREM TypeCorrect == Spec => []TypeOK
<1>1. Spec => []TypeInv
  BY TypeInit, TypeNext, PTL DEF Spec
<1> QED
  BY <1>1, TypeInvImpliesTypeOK, PTL

-----------------------------------------------------------------------------
(* The inductive invariant.                                                 *)

(* Places before the session has a watchdog, or after it has joined it.      *)
NoWatchdogPlaces == {"idle", "entered", "preparing", "checkingPtt", "clearingPtt",
  "openingAudio", "primingAudio", "creatingWatchdog", "deactivating", "notifying"}

(* Places behind a preflight that found or made the rig off.                *)
RigIsOffPlaces == {"openingAudio", "primingAudio", "creatingWatchdog", "armingWatchdog"}
  \cup BeforeKeyCommand

(* Places between the look at the record and the key attempt.               *)
NoHazardPlaces == ({"checkingPtt", "clearingPtt"} \cup RigIsOffPlaces) \ {"keyCommand"}

CleanupPlaces == {"clearingPtt", "unkeying", "leaseUnkeying"}

(* Who is in a cleanup loop: the session at three places, the watchdog in    *)
(* one, a retry only outside of a session.                                  *)
CleanupInv ==
  /\ isActive <=> pc \notin {"idle", "notifying"}
  /\ pc \notin CleanupPlaces => cleanup["session"] = NoCleanup
  /\ worker # "unkeying" => cleanup["watchdog"] = NoCleanup
  /\ isActive => cleanup["retry"] = NoCleanup
  /\ \A c \in Callers : cleanup[c].verdict = "unkeyed" => ~rigKeyed

(* The watchdog is out of the way until the key command is sent.            *)
WatchdogInv ==
  /\ pc = "armingWatchdog" \/ pc \in BeforeKeyCommand => ~stopRequested
  /\ pc \in NoWatchdogPlaces => worker = "absent"
  /\ pc = "armingWatchdog" => worker \in {"looping", "fallingAsleep", "asleep"} /\ ~isArmed
  /\ pc \in BeforeKeyCommand =>
       leaseLeft > 0 /\ worker \in {"looping", "fallingAsleep", "asleep", "timing"}

(* What the session knows of the rig and the record.                        *)
RigInv ==
  /\ rigKeyed /\ keySent => record.hasHazard
  /\ pc \in NoHazardPlaces => ~record.hasHazard
  /\ pc \in RigIsOffPlaces => ~rigKeyed
  /\ pc \in NoHazardPlaces \cup {"entered", "preparing", "keyCommand"} => keyReply = "none"
  /\ pc = "keyCommand" => record.hasHazard
  /\ pc = "keyResult" => keyReply # "none" /\ (keyReply = "refused" => ~rigKeyed)

IInv == TypeInv /\ CleanupInv /\ WatchdogInv /\ RigInv

-----------------------------------------------------------------------------
(* The effect of the cleanup operations.                                    *)

UnkeyedIsOff == \A c \in Callers : cleanup[c].verdict = "unkeyed" => ~rigKeyed

(* A loop that starts has no verdict yet and touches no other loop.          *)
LEMMA StartCleanupEffect ==
  ASSUME CleanupType, UnkeyedIsOff, NEW c \in Callers, StartCleanup(c), rigKeyed' => rigKeyed
  PROVE  UnkeyedIsOff' /\ \A d \in Callers \ {c} : cleanup'[d] = cleanup[d]
BY DEF CleanupType, UnkeyedIsOff, StartCleanup

(* A round of the loop never keys the rig, and says "unkeyed" of a rig that is *)
(* off.                                                                     *)
LEMMA AttemptUnkeyEffect ==
  ASSUME CleanupType, UnkeyedIsOff, NEW c \in Callers, AttemptUnkey(c)
  PROVE  /\ UnkeyedIsOff'
         /\ \A d \in Callers \ {c} : cleanup'[d] = cleanup[d]
         /\ rigKeyed' => rigKeyed
         /\ keySent' = keySent /\ record' = record
<1>0. rigKeyed' => rigKeyed
  <2>1. rigKeyed' = rigKeyed \/ rigKeyed' = FALSE
    BY DEF AttemptUnkey
  <2> QED
    BY <2>1
<1>1. keySent' = keySent /\ record' = record
  BY DEF AttemptUnkey
<1>2. PICK certain \in BOOLEAN :
        /\ certain => ~rigKeyed'
        /\ cleanup' = [cleanup EXCEPT ![c] =
             [attempts |-> cleanup[c].attempts + 1,
              verdict |-> Verdict(certain, cleanup[c].attempts + 1)]]
  BY DEF AttemptUnkey
<1>3. cleanup'[c].verdict = "unkeyed" => ~rigKeyed'
  BY <1>2 DEF CleanupType, Verdict
<1>4. \A d \in Callers \ {c} : cleanup'[d] = cleanup[d]
  BY <1>2 DEF CleanupType
<1> QED
  BY <1>0, <1>1, <1>3, <1>4 DEF UnkeyedIsOff

(* What a caller records, and that it leaves its loop.                       *)
LEMMA RecordCleanupEffect ==
  ASSUME CleanupType, UnkeyedIsOff, NEW c \in Callers, NEW expired, RecordCleanup(c, expired),
         rigKeyed' = rigKeyed
  PROVE  /\ UnkeyedIsOff'
         /\ cleanup'[c] = NoCleanup
         /\ \A d \in Callers \ {c} : cleanup'[d] = cleanup[d]
         /\ record'.hasHazard \/ ~rigKeyed
         /\ cleanup[c].verdict = "hazard" <=> record'.hasHazard
BY DEF CleanupType, UnkeyedIsOff, RecordCleanup, RecordResult, CleanupEnded, NoCleanup

-----------------------------------------------------------------------------
(* IInv is inductive when the key command is issued within its lease and no  *)
(* session starts during a retry.                                           *)

(* Nothing has happened yet.                                                *)
LEMMA InvInit == Init => IInv
BY TypeInit DEF Init, SafetyInit, WatchdogInit, IInv, CleanupInv, WatchdogInv, RigInv, NoCleanup,
   CleanupPlaces, NoWatchdogPlaces, RigIsOffPlaces, NoHazardPlaces, BeforeKeyCommand, Callers

(* Audio, watchdog and delays keep the invariant: none of them touches the   *)
(* rig or the record.                                                       *)
LEMMA PhaseStepInv == ASSUME IInv, PhaseStep PROVE CleanupInv' /\ WatchdogInv' /\ RigInv'
<1>1. CleanupInv'
  BY DEF IInv, CleanupInv, PhaseStep, safetyVars, controlVars, OpenAudio, PrimeAudio, StartWatchdog, ArmWatchdog, CheckArmed,
     PreKeyDelay, StartDrain, Drain, CheckDrain, JudgeDrain, Tail, FinishWatchdog, RecheckCancel,
     CleanAudio, StopAudio, Throw, UnwindAudio, StopWatchdog, NotifyWatchdog, JoinWatchdog,
     CheckControl, FailControl, FailPhase, Fail, GoOn, WaitRound,
     CreateWatchdog, Arm, NotifyStart, Heartbeat, Finish,
     RequestStop, NotifyStop, Join, watchdogVars,
     CleanupPlaces, Allocating, NoWatchdogPlaces, WatchdogInv
<1>2. WatchdogInv'
  BY LeaseTicksAssumption DEF IInv, WatchdogInv, TypeInv, Numbers, PhaseStep, OpenAudio, PrimeAudio, StartWatchdog, ArmWatchdog, CheckArmed,
     PreKeyDelay, StartDrain, Drain, CheckDrain, JudgeDrain, Tail, FinishWatchdog, RecheckCancel,
     CleanAudio, StopAudio, Throw, UnwindAudio, StopWatchdog, NotifyWatchdog, JoinWatchdog,
     CheckControl, FailControl, FailPhase, Fail, GoOn, WaitRound,
     CreateWatchdog, Arm, NotifyStart, Heartbeat, Finish,
     RequestStop, NotifyStop, Join, watchdogVars,
     NoWatchdogPlaces, RigIsOffPlaces, NoHazardPlaces, CleanupPlaces,
     BeforeKeyCommand, Allocating
<1>3. RigInv'
  BY DEF IInv, RigInv, PhaseStep, safetyVars, leaseVars, OpenAudio, PrimeAudio, StartWatchdog, ArmWatchdog, CheckArmed,
     PreKeyDelay, StartDrain, Drain, CheckDrain, JudgeDrain, Tail, FinishWatchdog, RecheckCancel,
     CleanAudio, StopAudio, Throw, UnwindAudio, StopWatchdog, NotifyWatchdog, JoinWatchdog,
     CheckControl, FailControl, FailPhase, Fail, GoOn, WaitRound,
     NoWatchdogPlaces, RigIsOffPlaces, NoHazardPlaces, CleanupPlaces,
     BeforeKeyCommand, Allocating
<1> QED
  BY <1>1, <1>2, <1>3

(* The preflight keeps the invariant: it ends with a rig that is off or with *)
(* a hazard, and goes on to the audio only with the rig off.                *)
LEMMA StartStepInv ==
  ASSUME IInv, RetryAlone, BeginRun \/ StartStep
  PROVE  CleanupInv' /\ WatchdogInv' /\ RigInv'
<1> "session" \in Callers /\ "watchdog" \in Callers /\ "retry" \in Callers
  BY DEF Callers
<1> CleanupType /\ UnkeyedIsOff
  BY DEF IInv, TypeInv, CleanupInv, UnkeyedIsOff
<1>1. CASE BeginRun
  BY <1>1 DEF IInv, CleanupInv, WatchdogInv, RigInv, BeginRun, safetyVars, watchdogVars,
     NoWatchdogPlaces, RigIsOffPlaces, NoHazardPlaces, CleanupPlaces, BeforeKeyCommand
<1>2. CASE StartStep
  <2>1. WatchdogInv'
    BY <1>2 DEF IInv, WatchdogInv, StartStep, ForgetCancel, Prepare, CheckPtt, ClearPtt, EndEarly,
       watchdogVars, NoWatchdogPlaces, BeforeKeyCommand
  <2>2. CASE ForgetCancel \/ Prepare
    BY <1>2, <2>1, <2>2 DEF IInv, CleanupInv, RigInv, StartStep, ForgetCancel, Prepare, EndEarly,
       HazardIsRecorded, safetyVars, leaseVars, watchdogVars, RigIsOffPlaces, NoHazardPlaces,
       CleanupPlaces, BeforeKeyCommand
  <2>3. CASE CheckPtt
    <3>1. CleanupInv'
      BY <1>2, <2>3, StartCleanupEffect DEF IInv, CleanupInv, StartStep, CheckPtt, watchdogVars,
         CleanupPlaces, UnkeyedIsOff
    <3>2. RigInv'
      BY <1>2, <2>3 DEF IInv, RigInv, StartStep, CheckPtt, QueryAnswers, IsDefinitelyUnkeyed,
         leaseVars, RigIsOffPlaces, NoHazardPlaces, BeforeKeyCommand
    <3> QED
      BY <2>1, <3>1, <3>2
  <2>4. CASE ClearPtt
    <3>1. CASE AttemptUnkey("session") /\ UNCHANGED <<pc, outcome>>
      BY <1>2, <2>1, <2>4, <3>1, AttemptUnkeyEffect
      DEF IInv, CleanupInv, RigInv, UnkeyedIsOff, StartStep, ClearPtt, watchdogVars, leaseVars,
          CleanupPlaces, NoHazardPlaces, RigIsOffPlaces, BeforeKeyCommand
    <3>2. CASE /\ RecordCleanup("session", FALSE)
               /\ IF cleanup["session"].verdict = "hazard"
                  THEN EndEarly("hazardous")
                  ELSE pc' = "openingAudio" /\ UNCHANGED outcome
               /\ UNCHANGED <<rigKeyed, keySent, unkeySent>>
      <4>1. /\ UnkeyedIsOff'
            /\ cleanup'["session"] = NoCleanup
            /\ cleanup'["watchdog"] = cleanup["watchdog"] /\ cleanup'["retry"] = cleanup["retry"]
            /\ record'.hasHazard \/ ~rigKeyed
            /\ cleanup["session"].verdict = "hazard" <=> record'.hasHazard
        BY <3>2, RecordCleanupEffect
      <4>2. CleanupInv'
        BY <1>2, <2>4, <3>2, <4>1 DEF IInv, CleanupInv, UnkeyedIsOff, StartStep, ClearPtt, EndEarly,
           watchdogVars
      <4>3. RigInv'
        BY <1>2, <2>4, <3>2, <4>1 DEF IInv, RigInv, StartStep, ClearPtt, EndEarly, leaseVars,
           RigIsOffPlaces, NoHazardPlaces, BeforeKeyCommand
      <4> QED
        BY <2>1, <4>2, <4>3
    <3> QED
      BY <2>4, <3>1, <3>2 DEF ClearPtt
  <2> QED
    BY <1>2, <2>2, <2>3, <2>4 DEF StartStep
<1> QED
  BY <1>1, <1>2

(* Marking, sending and taking back a key attempt keep the invariant.        *)
LEMMA LeaseStepInv == ASSUME IInv, LeaseStep PROVE CleanupInv' /\ WatchdogInv' /\ RigInv'
<1> "session" \in Callers /\ "watchdog" \in Callers /\ "retry" \in Callers
  BY DEF Callers
<1> CleanupType /\ UnkeyedIsOff
  BY DEF IInv, TypeInv, CleanupInv, UnkeyedIsOff
<1>1. WatchdogInv'
  BY DEF IInv, WatchdogInv, LeaseStep, MarkKeyAttempt, SendKey, TakeKeyReply, Gate, Unkey,
     DestroyLease, UnkeyInDestructor, TryRelease, EndRelease, GoOn, FailPhase, Fail, watchdogVars,
     NoWatchdogPlaces, BeforeKeyCommand
<1>2. CASE MarkKeyAttempt
  BY <1>1, <1>2 DEF IInv, CleanupInv, RigInv, LeaseStep, MarkKeyAttempt, RecordKeyAttempt, GoOn,
     watchdogVars, controlVars, CleanupPlaces, NoHazardPlaces, RigIsOffPlaces, BeforeKeyCommand
<1>3. CASE SendKey
  <2>1. \A c \in Callers : cleanup[c] = NoCleanup
    BY <1>3 DEF IInv, CleanupInv, WatchdogInv, SendKey, CleanupPlaces, BeforeKeyCommand, Callers
  <2>2. CleanupInv'
    BY <1>3, <2>1 DEF IInv, CleanupInv, LeaseStep, SendKey, GoOn, watchdogVars, controlVars,
       CleanupPlaces, NoCleanup
  <2>3. RigInv'
    BY <1>3 DEF IInv, RigInv, SendKey, ExecuteKey, KeyReplies, GoOn, NoHazardPlaces,
       RigIsOffPlaces, BeforeKeyCommand
  <2> QED
    BY <1>1, <2>2, <2>3
<1>4. CASE TakeKeyReply
  <2>1. CleanupInv'
    BY <1>4 DEF IInv, CleanupInv, LeaseStep, TakeKeyReply, GoOn, FailPhase, Fail, watchdogVars,
       controlVars, CleanupPlaces
  <2>2. RigInv'
    BY <1>4 DEF IInv, RigInv, TakeKeyReply, RecordResult, GoOn, FailPhase, Fail, NoHazardPlaces,
       RigIsOffPlaces, BeforeKeyCommand
  <2> QED
    BY <1>1, <2>1, <2>2
<1>5. CASE Gate \/ DestroyLease
  <2>1. CleanupInv'
    BY <1>5, StartCleanupEffect DEF IInv, CleanupInv, UnkeyedIsOff, LeaseStep, Gate, DestroyLease,
       GoOn, watchdogVars, controlVars, CleanupPlaces
  <2>2. RigInv'
    BY <1>5 DEF IInv, RigInv, Gate, DestroyLease, GoOn, leaseVars, NoHazardPlaces, RigIsOffPlaces,
       BeforeKeyCommand
  <2> QED
    BY <1>1, <2>1, <2>2
<1>6. CASE TryRelease /\ (Unkey \/ UnkeyInDestructor)
  BY <1>1, <1>6, AttemptUnkeyEffect
  DEF IInv, CleanupInv, RigInv, UnkeyedIsOff, LeaseStep, TryRelease, Unkey, UnkeyInDestructor,
      watchdogVars, controlVars, leaseVars, CleanupPlaces, NoHazardPlaces, RigIsOffPlaces,
      BeforeKeyCommand
<1>7. CASE \/ Unkey /\ EndRelease("finishing")
           \/ UnkeyInDestructor /\ EndRelease("stoppingWatchdog")
  <2>1. RecordCleanup("session", FALSE) /\ rigKeyed' = rigKeyed /\ keySent' = keySent
    BY <1>7 DEF EndRelease
  <2>2. /\ UnkeyedIsOff'
        /\ cleanup'["session"] = NoCleanup
        /\ cleanup'["watchdog"] = cleanup["watchdog"] /\ cleanup'["retry"] = cleanup["retry"]
        /\ record'.hasHazard \/ ~rigKeyed
    BY <2>1, RecordCleanupEffect
  <2>3. CleanupInv'
    BY <1>7, <2>2 DEF IInv, CleanupInv, UnkeyedIsOff, LeaseStep, EndRelease, Unkey,
       UnkeyInDestructor, watchdogVars, controlVars
  <2>4. RigInv'
    BY <1>7, <2>1, <2>2 DEF IInv, RigInv, EndRelease, NoHazardPlaces, RigIsOffPlaces,
       BeforeKeyCommand
  <2> QED
    BY <1>1, <2>3, <2>4
<1> QED
  BY <1>2, <1>3, <1>4, <1>5, <1>6, <1>7 DEF LeaseStep, Unkey, UnkeyInDestructor

(* The signal and the end of a session keep the invariant.                   *)
LEMMA SignalEndStepInv ==
  ASSUME IInv, SignalStep \/ EndStep
  PROVE  CleanupInv' /\ WatchdogInv' /\ RigInv'
<1>1. CASE SignalStep
  BY <1>1 DEF IInv, CleanupInv, WatchdogInv, RigInv, SignalStep, ReadBlock, QueueBlock, FailControl,
     FailPhase, Fail, GoOn, Heartbeat, safetyVars, watchdogVars, controlVars, leaseVars,
     CleanupPlaces, NoWatchdogPlaces, NoHazardPlaces, RigIsOffPlaces, BeforeKeyCommand
<1>2. CASE EndStep
  BY <1>2 DEF IInv, CleanupInv, WatchdogInv, RigInv, EndStep, Decide, EndEarly, Deactivate,
     NotifyStopper, safetyVars, watchdogVars, leaseVars,
     CleanupPlaces, NoWatchdogPlaces, NoHazardPlaces, RigIsOffPlaces, BeforeKeyCommand
<1> QED
  BY <1>1, <1>2

(* The watchdog keeps the invariant when its lease does not run out before   *)
(* the key command: what it records of a rig it found off stays true.        *)
LEMMA WatchdogStepInv ==
  ASSUME IInv, KeyWithinLease, Worker \/ Clock
  PROVE  CleanupInv' /\ WatchdogInv' /\ RigInv'
<1> "session" \in Callers /\ "watchdog" \in Callers /\ "retry" \in Callers
  BY DEF Callers
<1> CleanupType /\ UnkeyedIsOff
  BY DEF IInv, TypeInv, CleanupInv, UnkeyedIsOff
<1>1. UNCHANGED <<pc, isActive, keyReply>>
  BY DEF Worker, Clock, contextVars, controlVars, leaseVars
<1>2. CASE Worker /\ (WorkerLoop \/ WorkerSleep \/ WorkerWake \/ WorkerDisarm)
  BY <1>1, <1>2 DEF IInv, CleanupInv, WatchdogInv, RigInv, WorkerLoop, WorkerSleep, WorkerWake,
     WorkerDisarm, safetyVars, NoWatchdogPlaces, BeforeKeyCommand
<1>3. CASE Worker /\ WorkerExpire
  <2>1. WatchdogInv'
    BY <1>1, <1>3 DEF IInv, WatchdogInv, WorkerExpire, NoWatchdogPlaces, BeforeKeyCommand
  <2>2. CleanupInv'
    BY <1>1, <1>3, StartCleanupEffect DEF IInv, CleanupInv, UnkeyedIsOff, WorkerExpire
  <2>3. RigInv'
    BY <1>1, <1>3 DEF IInv, RigInv, WorkerExpire
  <2> QED
    BY <2>1, <2>2, <2>3
<1>4. CASE Worker /\ WorkerUnkey
  <2>1. WatchdogInv'
    BY <1>1, <1>4 DEF IInv, WatchdogInv, WorkerUnkey, watchdogVars
  <2>2. CleanupInv'
    BY <1>1, <1>4, AttemptUnkeyEffect DEF IInv, CleanupInv, UnkeyedIsOff, WorkerUnkey, watchdogVars
  <2>3. RigInv'
    BY <1>1, <1>4, AttemptUnkeyEffect DEF IInv, RigInv, WorkerUnkey
  <2> QED
    BY <2>1, <2>2, <2>3
<1>5. CASE Worker /\ WorkerRecord
  <2>1. RecordCleanup("watchdog", TRUE) /\ rigKeyed' = rigKeyed /\ keySent' = keySent
    BY <1>5 DEF WorkerRecord
  <2>2. /\ UnkeyedIsOff'
        /\ cleanup'["watchdog"] = NoCleanup
        /\ cleanup'["session"] = cleanup["session"] /\ cleanup'["retry"] = cleanup["retry"]
        /\ record'.hasHazard \/ ~rigKeyed
    BY <2>1, RecordCleanupEffect
  <2>3. pc \notin NoWatchdogPlaces \cup {"armingWatchdog"} \cup BeforeKeyCommand
    BY <1>5 DEF IInv, WatchdogInv, WorkerRecord
  <2>4. CleanupInv'
    BY <1>1, <2>2 DEF IInv, CleanupInv, UnkeyedIsOff
  <2>5. WatchdogInv'
    BY <1>1, <2>3 DEF WatchdogInv
  <2>6. RigInv'
    BY <1>1, <2>1, <2>2, <2>3 DEF IInv, RigInv, NoWatchdogPlaces, NoHazardPlaces, RigIsOffPlaces,
       BeforeKeyCommand
  <2> QED
    BY <2>4, <2>5, <2>6
<1>6. CASE Clock
  <2>1. CleanupInv' /\ RigInv'
    BY <1>1, <1>6 DEF IInv, CleanupInv, RigInv, Clock, LeaseTick, safetyVars
  <2>2. WatchdogInv'
    BY <1>1, <1>6, LeaseTicksAssumption DEF IInv, TypeInv, Numbers, WatchdogInv, Clock, LeaseTick
  <2> QED
    BY <2>1, <2>2
<1> QED
  BY <1>2, <1>3, <1>4, <1>5, <1>6 DEF Worker, WorkerStep

(* The user, the thread in shutdown(), the retry and the device keep the     *)
(* invariant.                                                               *)
LEMMA OtherStepInv ==
  ASSUME IInv, StopStep \/ RetryStep \/ DeviceStep \/ UNCHANGED vars
  PROVE  CleanupInv' /\ WatchdogInv' /\ RigInv'
<1> "session" \in Callers /\ "watchdog" \in Callers /\ "retry" \in Callers
  BY DEF Callers
<1> CleanupType /\ UnkeyedIsOff
  BY DEF IInv, TypeInv, CleanupInv, UnkeyedIsOff
<1>1. UNCHANGED <<pc, isActive, keyReply, watchdogVars>>
  BY DEF StopStep, RequestCancel, RequestShutdown, TestActive, FallAsleep, RetryStep, DeviceStep,
         vars, contextVars, controlVars, leaseVars
<1>2. WatchdogInv'
  BY <1>1 DEF IInv, WatchdogInv, watchdogVars
<1>3. CASE UNCHANGED safetyVars
  BY <1>1, <1>2, <1>3 DEF IInv, CleanupInv, RigInv, watchdogVars, safetyVars
<1>4. CASE StartRetry
  <2>1. CleanupInv'
    BY <1>1, <1>4, StartCleanupEffect DEF IInv, CleanupInv, UnkeyedIsOff, StartRetry, watchdogVars
  <2>2. RigInv'
    BY <1>1, <1>4 DEF IInv, RigInv, StartRetry
  <2> QED
    BY <1>2, <2>1, <2>2
<1>5. CASE RetryStep /\ AttemptUnkey("retry")
  <2>1. pc \in {"idle", "notifying"}
    BY <1>5 DEF IInv, CleanupInv, AttemptUnkey, NoCleanup
  <2>2. CleanupInv'
    BY <1>1, <1>5, <2>1, AttemptUnkeyEffect DEF IInv, CleanupInv, UnkeyedIsOff, watchdogVars
  <2>3. RigInv'
    BY <1>1, <1>5, AttemptUnkeyEffect DEF IInv, RigInv
  <2> QED
    BY <1>2, <2>2, <2>3
<1>6. CASE RetryStep /\ RecordCleanup("retry", FALSE) /\ UNCHANGED <<rigKeyed, keySent, unkeySent>>
  <2>1. pc \in {"idle", "notifying"}
    BY <1>6 DEF IInv, CleanupInv, RecordCleanup, CleanupEnded, NoCleanup
  <2>2. /\ UnkeyedIsOff'
        /\ cleanup'["retry"] = NoCleanup
        /\ cleanup'["session"] = cleanup["session"] /\ cleanup'["watchdog"] = cleanup["watchdog"]
        /\ record'.hasHazard \/ ~rigKeyed
    BY <1>6, RecordCleanupEffect
  <2>3. CleanupInv'
    BY <1>1, <2>2 DEF IInv, CleanupInv, UnkeyedIsOff, watchdogVars
  <2>4. RigInv'
    BY <1>1, <1>6, <2>1, <2>2 DEF IInv, RigInv, NoHazardPlaces, RigIsOffPlaces, BeforeKeyCommand
  <2> QED
    BY <1>2, <2>3, <2>4
<1> QED
  BY <1>3, <1>4, <1>5, <1>6 DEF StopStep, RetryStep, Retry, DeviceStep, vars

(* Every step keeps the invariant.                                          *)
LEMMA InvNext == ASSUME KeyWithinLease, RetryAlone PROVE IInv /\ [Next]_vars => IInv'
<1>1. IInv /\ [Next]_vars => TypeInv'
  BY TypeNext DEF IInv
<1> QED
  BY <1>1, StartStepInv, PhaseStepInv, LeaseStepInv, SignalEndStepInv, WatchdogStepInv, OtherStepInv
  DEF IInv, Next, ControlStep

(* The invariant holds in every reachable state.                            *)
THEOREM InvCorrect == ASSUME KeyWithinLease, RetryAlone PROVE Spec => []IInv
  BY InvInit, InvNext, PTL DEF Spec

-----------------------------------------------------------------------------
(* What follows.                                                            *)

(* No writer of the shared record takes the hazard of a key attempt back     *)
(* while the rig may be on, for every lease, ring, source and retry policy.  *)
THEOREM KeyedMeansHazardHolds ==
  ASSUME KeyWithinLease, RetryAlone PROVE Spec => []KeyedMeansHazard
<1>1. IInv => KeyedMeansHazard
  BY DEF IInv, RigInv, KeyedMeansHazard
<1> QED
  BY <1>1, InvCorrect, PTL

(* The step that sends the key command finds the rig off.                    *)
THEOREM KeyOnlyWhenOffHolds ==
  ASSUME KeyWithinLease, RetryAlone PROVE Spec => KeyOnlyWhenOff
<1> DEFINE Off == keyReply = "none" /\ keyReply' # "none" => ~rigKeyed
<1>1. IInv /\ [Next]_vars => [Off]_vars
  <2> SUFFICES ASSUME IInv, Next, keyReply = "none", keyReply' # "none" PROVE ~rigKeyed
    OBVIOUS
  <2>1. CASE LeaseStep
    <3>1. SendKey
      BY <2>1 DEF LeaseStep, MarkKeyAttempt, TakeKeyReply, Gate, Unkey, DestroyLease,
                  UnkeyInDestructor, TryRelease, EndRelease, leaseVars
    <3> QED
      BY <3>1 DEF IInv, RigInv, SendKey, RigIsOffPlaces, BeforeKeyCommand
  <2>2. CASE ~LeaseStep
    BY <2>2 DEF Next, ControlStep, BeginRun, StartStep, PhaseStep, SignalStep, EndStep, Worker,
       Clock, StopStep, RetryStep, DeviceStep, contextVars, leaseVars
  <2> QED
    BY <2>1, <2>2
<1> QED
  BY <1>1, InvCorrect, PTL DEF Spec, KeyOnlyWhenOff

(* A lease in its release loop is active.                                   *)
LeaseInv == pc \in {"unkeying", "leaseUnkeying"} => leaseActive

(* Only the two places that enter a release loop test leaseActive, and the   *)
(* lease stays active until the loop is left.                               *)
LEMMA LeaseInvNext == LeaseInv /\ [Next]_vars => LeaseInv'
<1> SUFFICES ASSUME LeaseInv, [Next]_vars PROVE LeaseInv'
  OBVIOUS
<1>1. CASE LeaseStep
  BY <1>1 DEF LeaseInv, LeaseStep, MarkKeyAttempt, SendKey, TakeKeyReply, Gate, Unkey, DestroyLease,
     UnkeyInDestructor, TryRelease, EndRelease, leaseVars, FailPhase, Fail, GoOn
<1>2. CASE BeginRun \/ StartStep
  BY <1>2 DEF LeaseInv, BeginRun, StartStep, ForgetCancel, Prepare, CheckPtt, ClearPtt, EndEarly,
     leaseVars
<1>3. CASE PhaseStep
  BY <1>3 DEF LeaseInv, PhaseStep, OpenAudio, PrimeAudio, StartWatchdog, ArmWatchdog, CheckArmed,
     PreKeyDelay, StartDrain, Drain, CheckDrain, JudgeDrain, Tail, FinishWatchdog, RecheckCancel,
     CleanAudio, Throw, UnwindAudio, StopWatchdog, NotifyWatchdog, JoinWatchdog, CheckControl,
     FailControl, FailPhase, Fail, GoOn, WaitRound, leaseVars
<1>4. CASE SignalStep
  <2>1. pc' \notin {"unkeying", "leaseUnkeying"}
    BY <1>4 DEF SignalStep, ReadBlock, QueueBlock, FailControl, FailPhase, Fail, GoOn
  <2> QED
    BY <2>1 DEF LeaseInv
<1>5. CASE EndStep
  BY <1>5 DEF LeaseInv, EndStep, Decide, Deactivate, NotifyStopper, EndEarly, leaseVars
<1>6. CASE ~ControlStep /\ ~BeginRun
  BY <1>6 DEF LeaseInv, Next, ControlStep, Worker, Clock, StopStep, RetryStep, DeviceStep, vars,
     contextVars, leaseVars
<1> QED
  BY <1>1, <1>2, <1>3, <1>4, <1>5, <1>6 DEF Next, ControlStep

(* A lease is claimed only while no hazard is on record, whoever wrote the   *)
(* record since the session looked at it.                                   *)
THEOREM ClaimOnlyWithoutHazardHolds ==
  ASSUME KeyWithinLease, RetryAlone PROVE Spec => ClaimOnlyWithoutHazard
<1> DEFINE Free == leaseActive' /\ ~leaseActive => ~record.hasHazard
<1>1. Init => LeaseInv
  BY DEF Init, LeaseInv
<1>2. IInv /\ LeaseInv /\ [Next]_vars => [Free]_vars
  <2> SUFFICES ASSUME IInv, LeaseInv, Next, leaseActive', ~leaseActive PROVE ~record.hasHazard
    OBVIOUS
  <2>1. CASE LeaseStep
    <3>1. MarkKeyAttempt
      BY <2>1 DEF LeaseInv, LeaseStep, SendKey, TakeKeyReply, Gate, Unkey, DestroyLease,
                  UnkeyInDestructor, TryRelease, EndRelease, leaseVars
    <3> QED
      BY <3>1 DEF IInv, RigInv, MarkKeyAttempt, NoHazardPlaces, RigIsOffPlaces, BeforeKeyCommand
  <2>2. CASE ~LeaseStep
    BY <2>2 DEF Next, ControlStep, BeginRun, StartStep, PhaseStep, SignalStep, EndStep, Worker,
       Clock, StopStep, RetryStep, DeviceStep, contextVars, leaseVars
  <2> QED
    BY <2>1, <2>2
<1> QED
  BY <1>1, <1>2, LeaseInvNext, InvCorrect, PTL DEF Spec, ClaimOnlyWithoutHazard

-----------------------------------------------------------------------------
(* The session implements PttSessionContract.                               *)

(* The phase of the contract, as the refinement mapping gives it.            *)
Phase == IF pc \in {"idle", "notifying"} THEN "idle"
         ELSE IF pc = "keyCommand" THEN "claimed"
         ELSE IF keyReply # "none" THEN "used" ELSE "active"

Owned == rigKeyed /\ keySent

(* A step that leaves phase, rig and hazard alone stutters; one that only     *)
(* lowers the rig is an Unkey; one that only writes the record is a Raise or, *)
(* with the rig off and no claim open, a Clear.                              *)
ContractStep ==
  \/ /\ Phase' = Phase
     /\ \/ Owned' = Owned /\ record'.hasHazard = record.hasHazard
        \/ ~Owned' /\ record'.hasHazard = record.hasHazard
        \/ Owned' = Owned /\ record'.hasHazard
        \/ Owned' = Owned /\ ~record'.hasHazard /\ ~Owned /\ Phase # "claimed"
  \/ /\ Owned' = Owned /\ record'.hasHazard = record.hasHazard
     /\ \/ Phase = "idle" /\ Phase' = "active"
        \/ Phase \in {"active", "used"} /\ Phase' = "idle"
  \/ /\ Phase = "active" /\ ~record.hasHazard /\ Owned' = Owned
     /\ Phase' = "claimed" /\ record'.hasHazard
  \/ /\ Phase = "claimed" /\ ~Owned /\ Owned' \in BOOLEAN
     /\ Phase' = "used" /\ record'.hasHazard = record.hasHazard

(* The cases of ContractStep are the steps of the contract.                  *)
LEMMA ContractStepIsContract ==
  ASSUME RecordType, RecordType', ContractStep
  PROVE  [Contract!Next]_(Contract!contractVars)
BY DEF RecordType, ContractStep, Phase, Owned, Contract!Next, Contract!Begin, Contract!Claim,
  Contract!KeyCommand, Contract!Unkey, Contract!Clear, Contract!Raise, Contract!End,
  Contract!contractVars

(* A round of an unkey loop is an Unkey or a stutter.                        *)
LEMMA AttemptUnkeyIsContract ==
  ASSUME CleanupType, UnkeyedIsOff, NEW c \in Callers, AttemptUnkey(c), Phase' = Phase
  PROVE  ContractStep
<1>1. /\ rigKeyed' = rigKeyed \/ rigKeyed' = FALSE
      /\ keySent' = keySent /\ record' = record
  BY DEF AttemptUnkey
<1> QED
  BY <1>1 DEF ContractStep, Owned

(* A verdict on record is a Raise, or a Clear of a rig that is off.          *)
LEMMA RecordCleanupIsContract ==
  ASSUME CleanupType, RecordType, RecordType', UnkeyedIsOff, NEW c \in Callers, NEW expired,
         RecordCleanup(c, expired), UNCHANGED <<rigKeyed, keySent>>,
         Phase' = Phase, Phase # "claimed"
  PROVE  ContractStep
<1>1. record'.hasHazard \/ ~rigKeyed
  BY RecordCleanupEffect
<1> QED
  BY <1>1 DEF ContractStep, Owned, RecordType

(* Every step of run() is a step of the contract or a stutter.               *)
LEMMA SessionIsContract ==
  ASSUME IInv, RecordType', BeginRun \/ ControlStep
  PROVE  ContractStep
<1> "session" \in Callers
  BY DEF Callers
<1> CleanupType /\ RecordType /\ UnkeyedIsOff
  BY DEF IInv, TypeInv, CleanupInv, UnkeyedIsOff
<1>1. CASE BeginRun
  BY <1>1 DEF BeginRun, safetyVars, ContractStep, Phase, Owned
<1>2. CASE StartStep
  <2>1. Phase' = Phase /\ Phase = "active"
    BY <1>2 DEF IInv, RigInv, StartStep, ForgetCancel, Prepare, CheckPtt, ClearPtt, EndEarly,
       leaseVars, Phase, NoHazardPlaces, RigIsOffPlaces
  <2>2. CASE UNCHANGED <<rigKeyed, keySent, record>>
    BY <2>1, <2>2 DEF ContractStep, Owned
  <2>3. CASE AttemptUnkey("session")
    BY <2>1, <2>3, AttemptUnkeyIsContract
  <2>4. CASE RecordCleanup("session", FALSE) /\ UNCHANGED <<rigKeyed, keySent>>
    BY <2>1, <2>4, RecordCleanupIsContract
  <2> QED
    BY <1>2, <2>2, <2>3, <2>4
    DEF StartStep, ForgetCancel, Prepare, CheckPtt, ClearPtt, safetyVars
<1>3. CASE PhaseStep
  <2>1. Phase' = Phase
    BY <1>3 DEF PhaseStep, OpenAudio, PrimeAudio, StartWatchdog, ArmWatchdog, CheckArmed,
     PreKeyDelay, StartDrain, Drain, CheckDrain, JudgeDrain, Tail, FinishWatchdog, RecheckCancel,
     CleanAudio, StopAudio, Throw, UnwindAudio, StopWatchdog, NotifyWatchdog, JoinWatchdog,
     CheckControl, FailControl, FailPhase, Fail, GoOn, WaitRound, Allocating, leaseVars, Phase
  <2> QED
    BY <1>3, <2>1 DEF PhaseStep, safetyVars, ContractStep, Owned
<1>4. CASE MarkKeyAttempt
  BY <1>4 DEF IInv, RigInv, MarkKeyAttempt, RecordKeyAttempt, GoOn, ContractStep, Phase, Owned,
     NoHazardPlaces, RigIsOffPlaces, BeforeKeyCommand, RecordType
<1>5. CASE SendKey
  <2>1. ~Owned /\ record' = record /\ Phase = "claimed"
    BY <1>5 DEF IInv, RigInv, SendKey, RigIsOffPlaces, BeforeKeyCommand, Owned, Phase
  <2>2. Phase' = "used"
    BY <1>5 DEF SendKey, GoOn, KeyReplies, Phase
  <2> QED
    BY <2>1, <2>2 DEF ContractStep, Owned
<1>6. CASE TakeKeyReply
  <2>1. Phase' = Phase /\ Phase = "used" /\ UNCHANGED <<rigKeyed, keySent>>
    BY <1>6 DEF IInv, RigInv, TakeKeyReply, GoOn, FailPhase, Fail, Phase
  <2>2. CASE keyReply = "refused"
    BY <1>6, <2>1, <2>2 DEF IInv, RigInv, TakeKeyReply, RecordResult, ContractStep, Owned
  <2>3. CASE keyReply # "refused"
    BY <1>6, <2>1, <2>3 DEF TakeKeyReply, ContractStep, Owned
  <2> QED
    BY <2>2, <2>3
<1>7. CASE Gate \/ DestroyLease \/ Unkey \/ UnkeyInDestructor
  <2>1. Phase' = Phase /\ Phase # "claimed"
    BY <1>7 DEF Gate, DestroyLease, Unkey, UnkeyInDestructor, TryRelease, EndRelease, GoOn,
       leaseVars, Phase
  <2>2. CASE UNCHANGED <<rigKeyed, keySent, record>>
    BY <2>1, <2>2 DEF ContractStep, Owned
  <2>3. CASE AttemptUnkey("session")
    BY <2>1, <2>3, AttemptUnkeyIsContract
  <2>4. CASE RecordCleanup("session", FALSE) /\ UNCHANGED <<rigKeyed, keySent>>
    BY <2>1, <2>4, RecordCleanupIsContract
  <2> QED
    BY <1>7, <2>2, <2>3, <2>4 DEF Gate, DestroyLease, Unkey, UnkeyInDestructor, TryRelease, EndRelease
<1>8. CASE SignalStep
  <2>1. Phase' = Phase
    BY <1>8 DEF SignalStep, ReadBlock, QueueBlock, FailControl, FailPhase, Fail, GoOn, leaseVars,
       Phase
  <2> QED
    BY <1>8, <2>1 DEF SignalStep, safetyVars, ContractStep, Owned
<1>9. CASE EndStep
  BY <1>9 DEF EndStep, Decide, EndEarly, Deactivate, NotifyStopper, leaseVars, safetyVars,
     ContractStep, Phase, Owned
<1> QED
  BY <1>1, <1>2, <1>3, <1>4, <1>5, <1>6, <1>7, <1>8, <1>9 DEF ControlStep, LeaseStep

(* So is every step of another thread.                                      *)
LEMMA OthersAreContract ==
  ASSUME IInv, RecordType',
         Worker \/ Clock \/ StopStep \/ RetryStep \/ DeviceStep \/ UNCHANGED vars
  PROVE  ContractStep
<1> "watchdog" \in Callers /\ "retry" \in Callers
  BY DEF Callers
<1> CleanupType /\ RecordType /\ UnkeyedIsOff
  BY DEF IInv, TypeInv, CleanupInv, UnkeyedIsOff
<1>1. UNCHANGED <<pc, keyReply>>
  BY DEF Worker, Clock, StopStep, RetryStep, DeviceStep, vars, contextVars, controlVars, leaseVars
<1>2. Phase' = Phase
  BY <1>1 DEF Phase
<1>3. CASE UNCHANGED <<rigKeyed, keySent, record>>
  BY <1>2, <1>3 DEF ContractStep, Owned
<1>4. CASE AttemptUnkey("watchdog") \/ AttemptUnkey("retry")
  BY <1>2, <1>4, AttemptUnkeyIsContract
<1>5. CASE WorkerRecord
  <2>1. Phase # "claimed"
    BY <1>5 DEF IInv, WatchdogInv, WorkerRecord, BeforeKeyCommand, Phase
  <2> QED
    BY <1>2, <1>5, <2>1, RecordCleanupIsContract DEF WorkerRecord
<1>6. CASE RecordCleanup("retry", FALSE) /\ UNCHANGED <<rigKeyed, keySent, unkeySent>>
  <2>1. Phase # "claimed"
    BY <1>6 DEF IInv, CleanupInv, RecordCleanup, CleanupEnded, NoCleanup, Phase
  <2> QED
    BY <1>2, <1>6, <2>1, RecordCleanupIsContract
<1> QED
  BY <1>3, <1>4, <1>5, <1>6
  DEF Worker, WorkerStep, WorkerLoop, WorkerSleep, WorkerWake, WorkerExpire, WorkerUnkey,
      WorkerDisarm, Clock, LeaseTick, StopStep, RetryStep, StartRetry, Retry, DeviceStep, vars,
      safetyVars

(* The session implements its contract: one claim, made with no hazard on     *)
(* record, one key command, and a hazard only taken back with the rig off.   *)
THEOREM KeepsContractHolds ==
  ASSUME KeyWithinLease, RetryAlone PROVE Spec => KeepsContract
<1>1. Init => Contract!Init
  BY DEF Init, SafetyInit, Contract!Init
<1>2. IInv /\ IInv' /\ [Next]_vars => [Contract!Next]_(Contract!contractVars)
  <2> SUFFICES ASSUME IInv, IInv', [Next]_vars PROVE [Contract!Next]_(Contract!contractVars)
    OBVIOUS
  <2>1. RecordType /\ RecordType'
    BY DEF IInv, TypeInv
  <2>2. ContractStep
    BY <2>1, SessionIsContract, OthersAreContract DEF Next
  <2> QED
    BY <2>1, <2>2, ContractStepIsContract
<1> QED
  BY <1>1, <1>2, InvCorrect, PTL DEF Spec, KeepsContract, Contract!Spec

-----------------------------------------------------------------------------
(* What run() returns.                                                      *)

(* Places where run() has returned nothing yet.                              *)
UndecidedPlaces == StopDecides \cup {"entered", "audioCleanup", "deciding", "unwindAudio"}

(* A stop asked for in time stays visible until the last look at it, and is  *)
(* in the RunContext from there on.                                         *)
StopInv ==
  /\ stopAsked = "running" => isShuttingDown \/ (isCancelled /\ pc # "entered")
  /\ pc \in UndecidedPlaces => outcome = "none"
  /\ pc \in {"audioCleanup", "deciding"} /\ stopAsked = "running" => wasCancelled
  /\ StopWins

(* Places with no device: not opened yet, or closed.                         *)
ClosedPlaces == {"idle", "entered", "preparing", "checkingPtt", "clearingPtt", "openingAudio",
  "deciding", "leaseDestructor", "leaseUnkeying", "stoppingWatchdog", "notifyingWatchdog",
  "joining", "deactivating", "notifying"}

(* Places before the first frame of signal is read.                         *)
SilentPlaces == {"entered", "preparing", "checkingPtt", "clearingPtt", "keyResult", "preKeyDelay"}
  \cup RigIsOffPlaces

AudioInv ==
  /\ pc \in ClosedPlaces => ~audio.open /\ ~audio.running
  /\ pc \in SilentPlaces => audio.ring = 0 /\ inHand = 0 /\ ~stray

MayHaveKeyed == keyReply \in {"accepted", "doubtful"}

(* Places that a lease has left behind it.                                  *)
NoLeasePlaces == {"stoppingWatchdog", "notifyingWatchdog", "joining", "deactivating", "notifying"}

(* A key command that may have worked is followed by an unkey command, or the *)
(* lease still owes one.                                                    *)
UnkeyInv ==
  /\ keyReply # "none" => keySent
  /\ \A c \in Callers : CleanupEnded(c) => unkeySent
  /\ pc = "keyCommand" => leaseActive /\ ~leaseReleased
  /\ MayHaveKeyed => unkeySent \/ (leaseActive /\ ~leaseReleased)
  /\ pc \in NoLeasePlaces /\ MayHaveKeyed => unkeySent

(* The watchdog raises its flag before it unkeys and has it on record before  *)
(* its thread can be joined.                                                *)
ExpiryInv ==
  /\ worker \in {"unkeying", "disarming"} => hasExpired
  /\ hasExpired /\ worker # "unkeying" => record.watchdogExpired
  /\ StrayOnlyAfterExpiry

KeyedOrExpired == worker # "absent" /\ (rigKeyed \/ hasExpired)

SignalPlaces == {"transmitting", "queueing", "drainStart", "draining", "drainCheck",
                 "drainVerdict", "postAudioTail"}

(* Signal that is not gated goes to a rig that is on, or that the watchdog    *)
(* has taken.                                                               *)
AirInv ==
  /\ pc \in {"preKeyDelay"} \cup SignalPlaces => keyReply = "accepted" /\ KeyedOrExpired
  /\ pc = "keyResult" /\ keyReply = "accepted" => KeyedOrExpired
  /\ audio.running /\ audio.ring > 0 /\ ~audio.gated =>
       pc \in SignalPlaces \cup {"unwindAudio"} /\ KeyedOrExpired

DrainPlaces == {"drainStart", "draining", "drainCheck", "drainVerdict", "postAudioTail"}
FinalPlaces == {"gating", "unkeying", "finishing", "cancelRecheck", "audioCleanup", "deciding"}

Aired == left = 0 /\ inHand = 0 /\ audio.ring = 0 /\ ~stray

(* Without a fault, every frame was read, queued and played.                 *)
AiredInv ==
  /\ pc = "transmitting" => inHand = 0
  /\ pc \in DrainPlaces => left = 0 /\ inHand = 0
  /\ pc = "postAudioTail" => audio.ring = 0
  /\ pc \in FinalPlaces /\ ~hasFault => Aired /\ keyReply = "accepted"
  /\ outcome = "completed" => Aired /\ ~rigKeyed

OutcomeInv == StopInv /\ AudioInv /\ UnkeyInv /\ ExpiryInv /\ AirInv /\ AiredInv

-----------------------------------------------------------------------------
(* OutcomeInv is inductive, relative to IInv.                                *)

LEMMA OutcomeInit == Init => OutcomeInv
BY DEF Init, SafetyInit, WatchdogInit, OutcomeInv, StopInv, StopWins, AudioInv, UnkeyInv, MayHaveKeyed,
   ExpiryInv, StrayOnlyAfterExpiry, AirInv, AiredInv, ClosedAudio, ClosedPlaces, SilentPlaces,
   RigIsOffPlaces, NoLeasePlaces, UndecidedPlaces, StopDecides, BeforeKeyCommand, SignalPlaces,
   DrainPlaces, FinalPlaces, Callers, CleanupEnded, NoCleanup

(* A stop is not lost between the threads and the last look at it.            *)
LEMMA StopInvNext == ASSUME IInv, StopInv, [Next]_vars PROVE StopInv'
<1> stopAsked \in {"no", "entering", "running"}
  BY DEF IInv, TypeInv, Names
<1>1. CASE BeginRun \/ StartStep
  BY <1>1 DEF StopInv, StopWins, BeginRun, StartStep, ForgetCancel, Prepare, CheckPtt, ClearPtt,
     EndEarly, StopAsked, UndecidedPlaces, StopDecides, BeforeKeyCommand
<1>2. CASE PhaseStep
  BY <1>2 DEF StopInv, StopWins, StopAsked, controlVars, resultVars, Allocating, PhaseStep, OpenAudio, PrimeAudio, StartWatchdog, ArmWatchdog, CheckArmed,
     PreKeyDelay, StartDrain, Drain, CheckDrain, JudgeDrain, Tail, FinishWatchdog, RecheckCancel,
     CleanAudio, StopAudio, Throw, UnwindAudio, StopWatchdog, NotifyWatchdog, JoinWatchdog,
     CheckControl, FailControl, FailPhase, Fail, GoOn, WaitRound,
     UndecidedPlaces, StopDecides, BeforeKeyCommand
<1>3. CASE LeaseStep
  BY <1>3 DEF StopInv, StopWins, controlVars, resultVars, LeaseStep, MarkKeyAttempt, SendKey, TakeKeyReply, Gate, Unkey, DestroyLease,
     UnkeyInDestructor, TryRelease, EndRelease, FailPhase, Fail, GoOn, UndecidedPlaces, StopDecides, BeforeKeyCommand
<1>4. CASE SignalStep
  BY <1>4 DEF StopInv, StopWins, StopAsked, controlVars, resultVars, SignalStep, ReadBlock,
     QueueBlock, FailControl, FailPhase, Fail, GoOn, UndecidedPlaces, StopDecides, BeforeKeyCommand
<1>5. CASE EndStep
  BY <1>5 DEF StopInv, StopWins, EndStep, Decide, EndEarly, Deactivate, NotifyStopper, UndecidedPlaces, StopDecides, BeforeKeyCommand
<1>6. CASE StopStep
  BY <1>6 DEF StopInv, StopWins, StopStep, RequestCancel, RequestShutdown, TestActive, FallAsleep,
     contextVars, resultVars, UndecidedPlaces, StopDecides, BeforeKeyCommand
<1>7. CASE Worker \/ Clock \/ RetryStep \/ DeviceStep \/ UNCHANGED vars
  <2>1. UNCHANGED <<pc, stopAsked, isShuttingDown, isCancelled, outcome, wasCancelled>>
    BY <1>7 DEF Worker, Clock, RetryStep, DeviceStep, vars, contextVars, controlVars, resultVars
  <2> QED
    BY <2>1 DEF StopInv, StopWins
<1> QED
  BY <1>1, <1>2, <1>3, <1>4, <1>5, <1>6, <1>7 DEF Next, ControlStep

(* The device is closed on every way out, and silent until the rig is on.     *)
LEMMA AudioInvNext == ASSUME IInv, AudioInv, [Next]_vars PROVE AudioInv'
<1> AudioType
  BY DEF IInv, TypeInv
<1>0. CASE BeginRun
  BY <1>0 DEF AudioInv, BeginRun, ClosedAudio
<1>1. CASE StartStep
  BY <1>1 DEF AudioInv, StartStep, ForgetCancel, Prepare, CheckPtt, ClearPtt, EndEarly,
     sourceVars, ClosedPlaces, SilentPlaces, RigIsOffPlaces, BeforeKeyCommand
<1>2. CASE PhaseStep
  BY <1>2 DEF AudioInv, AudioType, sourceVars, resultVars, Allocating, PhaseStep, OpenAudio, PrimeAudio, StartWatchdog, ArmWatchdog, CheckArmed,
     PreKeyDelay, StartDrain, Drain, CheckDrain, JudgeDrain, Tail, FinishWatchdog, RecheckCancel,
     CleanAudio, StopAudio, Throw, UnwindAudio, StopWatchdog, NotifyWatchdog, JoinWatchdog,
     CheckControl, FailControl, FailPhase, Fail, GoOn, WaitRound,
     ClosedPlaces, SilentPlaces, RigIsOffPlaces, BeforeKeyCommand
<1>3. CASE LeaseStep
  BY <1>3 DEF AudioInv, AudioType, sourceVars, resultVars, LeaseStep, MarkKeyAttempt, SendKey, TakeKeyReply, Gate, Unkey, DestroyLease,
     UnkeyInDestructor, TryRelease, EndRelease, FailPhase, Fail, GoOn,
     ClosedPlaces, SilentPlaces, RigIsOffPlaces, BeforeKeyCommand
<1>4. CASE SignalStep
  <2>1. pc' \notin ClosedPlaces \cup SilentPlaces
    BY <1>4 DEF SignalStep, ReadBlock, QueueBlock, FailControl, FailPhase, Fail, GoOn,
       ClosedPlaces, SilentPlaces, RigIsOffPlaces, BeforeKeyCommand
  <2> QED
    BY <2>1 DEF AudioInv
<1>5. CASE EndStep
  BY <1>5 DEF AudioInv, EndStep, Decide, EndEarly, Deactivate, NotifyStopper, sourceVars,
     ClosedPlaces, SilentPlaces, RigIsOffPlaces, BeforeKeyCommand
<1>6. CASE DeviceStep
  BY <1>6 DEF AudioInv, AudioType, DeviceStep, PlayFrame, LoseDevice, sourceVars, ClosedPlaces,
     SilentPlaces
<1>7. CASE Worker \/ Clock \/ RetryStep \/ StopStep \/ UNCHANGED vars
  <2>1. UNCHANGED <<pc, audio, inHand, stray>>
    BY <1>7 DEF Worker, Clock, RetryStep, StopStep, vars, contextVars, sourceVars, resultVars
  <2> QED
    BY <2>1 DEF AudioInv
<1> QED
  BY <1>0, <1>1, <1>2, <1>3, <1>4, <1>5, <1>6, <1>7 DEF Next, ControlStep

(* What a round of a cleanup loop and its verdict mean for unkeySent.         *)
EndedAreSent == \A c \in Callers : CleanupEnded(c) => unkeySent

LEMMA StartCleanupSent ==
  ASSUME CleanupType, EndedAreSent, NEW c \in Callers, StartCleanup(c), unkeySent' = unkeySent
  PROVE  EndedAreSent'
BY DEF CleanupType, EndedAreSent, StartCleanup, CleanupEnded

LEMMA RecordCleanupSent ==
  ASSUME CleanupType, EndedAreSent, NEW c \in Callers, NEW expired, RecordCleanup(c, expired),
         unkeySent' = unkeySent
  PROVE  EndedAreSent' /\ unkeySent
BY DEF CleanupType, EndedAreSent, RecordCleanup, CleanupEnded, NoCleanup

(* No key command that may have worked is forgotten.                         *)
LEMMA UnkeyInvNext == ASSUME IInv, UnkeyInv, [Next]_vars PROVE UnkeyInv'
<1> "session" \in Callers /\ "watchdog" \in Callers /\ "retry" \in Callers
  BY DEF Callers
<1> CleanupType /\ EndedAreSent
  BY DEF IInv, TypeInv, UnkeyInv, EndedAreSent
<1>1. CASE BeginRun
  BY <1>1 DEF UnkeyInv, BeginRun, safetyVars, CleanupEnded, MayHaveKeyed
<1>2. CASE StartStep
  <2>1. keyReply' = keyReply /\ keyReply = "none" /\ keySent' = keySent /\ pc' # "keyCommand"
    BY <1>2 DEF IInv, RigInv, StartStep, ForgetCancel, Prepare, CheckPtt, ClearPtt, EndEarly,
       AttemptUnkey, safetyVars, leaseVars, NoHazardPlaces, RigIsOffPlaces
  <2>2. EndedAreSent'
    <3>1. CASE UNCHANGED <<cleanup, unkeySent>>
      BY <3>1 DEF EndedAreSent, CleanupEnded
    <3>2. CASE StartCleanup("session") /\ unkeySent' = unkeySent
      BY <3>2, StartCleanupSent
    <3>3. CASE AttemptUnkey("session")
      BY <3>3 DEF EndedAreSent, AttemptUnkey
    <3>4. CASE RecordCleanup("session", FALSE) /\ unkeySent' = unkeySent
      BY <3>4, RecordCleanupSent
    <3> QED
      BY <1>2, <3>1, <3>2, <3>3, <3>4
      DEF StartStep, ForgetCancel, Prepare, CheckPtt, ClearPtt, safetyVars
  <2> QED
    BY <2>1, <2>2 DEF UnkeyInv, EndedAreSent, MayHaveKeyed
<1>3. CASE PhaseStep
  <2>1. UNCHANGED <<keyReply, keySent, unkeySent, cleanup, leaseActive, leaseReleased>>
    BY <1>3 DEF PhaseStep, safetyVars, leaseVars
  <2>2. pc' # "keyCommand" /\ (pc' \in NoLeasePlaces => pc \in NoLeasePlaces)
    BY <1>3 DEF Allocating, NoLeasePlaces, PhaseStep, OpenAudio, PrimeAudio, StartWatchdog, ArmWatchdog, CheckArmed,
     PreKeyDelay, StartDrain, Drain, CheckDrain, JudgeDrain, Tail, FinishWatchdog, RecheckCancel,
     CleanAudio, StopAudio, Throw, UnwindAudio, StopWatchdog, NotifyWatchdog, JoinWatchdog,
     CheckControl, FailControl, FailPhase, Fail, GoOn, WaitRound
  <2> QED
    BY <2>1, <2>2 DEF UnkeyInv, CleanupEnded, MayHaveKeyed
<1>4. CASE LeaseStep
  <2>1. CASE MarkKeyAttempt
    BY <2>1 DEF IInv, RigInv, UnkeyInv, MarkKeyAttempt, GoOn, CleanupEnded, MayHaveKeyed,
       NoLeasePlaces, NoHazardPlaces, RigIsOffPlaces, BeforeKeyCommand
  <2>2. CASE SendKey
    <3>1. \A c \in Callers : cleanup[c] = NoCleanup
      BY <2>2 DEF IInv, CleanupInv, WatchdogInv, SendKey, CleanupPlaces, BeforeKeyCommand, Callers
    <3> QED
      BY <2>2, <3>1 DEF UnkeyInv, SendKey, ExecuteKey, GoOn, CleanupEnded, NoCleanup, MayHaveKeyed,
         NoLeasePlaces
  <2>3. CASE TakeKeyReply
    BY <2>3 DEF UnkeyInv, TakeKeyReply, GoOn, FailPhase, Fail, CleanupEnded, MayHaveKeyed,
       NoLeasePlaces
  <2>4. CASE Gate \/ DestroyLease
    <3>1. EndedAreSent'
      <4>1. (StartCleanup("session") \/ cleanup' = cleanup) /\ unkeySent' = unkeySent
        BY <2>4 DEF Gate, DestroyLease
      <4> QED
        BY <4>1, StartCleanupSent DEF EndedAreSent, CleanupEnded
    <3> QED
      BY <2>4, <3>1 DEF UnkeyInv, EndedAreSent, Gate, DestroyLease, GoOn, leaseVars, MayHaveKeyed,
         NoLeasePlaces
  <2>5. CASE TryRelease /\ (Unkey \/ UnkeyInDestructor)
    BY <2>5 DEF UnkeyInv, TryRelease, AttemptUnkey, leaseVars, MayHaveKeyed, Unkey,
       UnkeyInDestructor
  <2>6. CASE \/ Unkey /\ EndRelease("finishing")
             \/ UnkeyInDestructor /\ EndRelease("stoppingWatchdog")
    <3>1. RecordCleanup("session", FALSE) /\ unkeySent' = unkeySent
      BY <2>6 DEF EndRelease
    <3>2. EndedAreSent' /\ unkeySent
      BY <3>1, RecordCleanupSent
    <3> QED
      BY <2>6, <3>1, <3>2 DEF UnkeyInv, EndedAreSent, EndRelease, MayHaveKeyed
  <2> QED
    BY <1>4, <2>1, <2>2, <2>3, <2>4, <2>5, <2>6 DEF LeaseStep, Unkey, UnkeyInDestructor
<1>5. CASE SignalStep \/ EndStep
  <2>1. UNCHANGED <<keyReply, keySent, unkeySent, cleanup, leaseActive, leaseReleased>>
    BY <1>5 DEF SignalStep, EndStep, safetyVars, leaseVars
  <2>2. pc' # "keyCommand" /\ (pc' \in NoLeasePlaces => pc \in NoLeasePlaces)
    BY <1>5 DEF SignalStep, EndStep, NoLeasePlaces, ReadBlock, QueueBlock, FailControl,
       FailPhase, Fail, GoOn, Decide, EndEarly, Deactivate, NotifyStopper
  <2> QED
    BY <2>1, <2>2 DEF UnkeyInv, CleanupEnded, MayHaveKeyed
<1>6. CASE Worker \/ Clock \/ StopStep \/ RetryStep \/ DeviceStep \/ UNCHANGED vars
  <2>1. UNCHANGED <<pc, keyReply, keySent, leaseActive, leaseReleased>>
    BY <1>6 DEF Worker, WorkerStep, WorkerLoop, WorkerSleep, WorkerWake, WorkerExpire, WorkerUnkey,
       WorkerRecord, WorkerDisarm, Clock, LeaseTick, StopStep, RetryStep, StartRetry, Retry,
       DeviceStep, AttemptUnkey, vars, contextVars, leaseVars, safetyVars
  <2>2. EndedAreSent' /\ (unkeySent => unkeySent')
    <3>1. CASE UNCHANGED <<cleanup, unkeySent>>
      BY <3>1 DEF EndedAreSent, CleanupEnded
    <3>2. CASE \/ StartCleanup("watchdog") /\ unkeySent' = unkeySent
               \/ StartCleanup("retry") /\ unkeySent' = unkeySent
      BY <3>2, StartCleanupSent
    <3>3. CASE AttemptUnkey("watchdog") \/ AttemptUnkey("retry")
      BY <3>3 DEF EndedAreSent, AttemptUnkey
    <3>4. CASE RecordCleanup("watchdog", TRUE) /\ unkeySent' = unkeySent
      BY <3>4, RecordCleanupSent
    <3>5. CASE RecordCleanup("retry", FALSE) /\ unkeySent' = unkeySent
      BY <3>5, RecordCleanupSent
    <3> QED
      BY <1>6, <3>1, <3>2, <3>3, <3>4, <3>5
      DEF Worker, WorkerStep, WorkerLoop, WorkerSleep, WorkerWake, WorkerExpire, WorkerUnkey,
       WorkerRecord, WorkerDisarm, Clock, LeaseTick, StopStep, RetryStep, StartRetry, Retry,
       DeviceStep, vars, safetyVars
  <2> QED
    BY <2>1, <2>2 DEF UnkeyInv, EndedAreSent, MayHaveKeyed
<1> QED
  BY <1>1, <1>2, <1>3, <1>4, <1>5, <1>6 DEF Next, ControlStep

(* No writer of the record takes an expiry back.                              *)
ExpiryKept == record.watchdogExpired => record'.watchdogExpired

LEMMA RecordKeepsExpiry ==
  /\ RecordType /\ RecordKeyAttempt => ExpiryKept
  /\ \A isUnkeyed, expired \in BOOLEAN : RecordResult(isUnkeyed, expired) => ExpiryKept
  /\ \A c \in Callers : AttemptUnkey(c) => ExpiryKept
  /\ \A c \in Callers, expired \in BOOLEAN : RecordCleanup(c, expired) => ExpiryKept
<1>1. RecordType /\ RecordKeyAttempt => ExpiryKept
  BY DEF RecordType, RecordKeyAttempt, ExpiryKept
<1>2. ASSUME NEW isUnkeyed \in BOOLEAN, NEW expired \in BOOLEAN, RecordResult(isUnkeyed, expired)
      PROVE  ExpiryKept
  BY <1>2 DEF RecordResult, ExpiryKept
<1>3. \A c \in Callers : AttemptUnkey(c) => ExpiryKept
  BY DEF AttemptUnkey, ExpiryKept
<1>4. ASSUME NEW c \in Callers, NEW expired \in BOOLEAN, RecordCleanup(c, expired)
      PROVE  ExpiryKept
  <2>1. RecordResult(cleanup[c].verdict = "unkeyed", expired)
    BY <1>4 DEF RecordCleanup
  <2> QED
    BY <1>2, <2>1
<1> QED
  BY <1>1, <1>2, <1>3, <1>4

(* The watchdog's flag and its record keep up with each other, and signal     *)
(* that goes nowhere is on account of it.                                    *)
LEMMA ExpiryInvNext ==
  ASSUME IInv, AudioInv, ExpiryInv, AirInv, [Next]_vars PROVE ExpiryInv'
<1> RecordType
  BY DEF IInv, TypeInv
<1> "session" \in Callers /\ "watchdog" \in Callers /\ "retry" \in Callers
  BY DEF Callers
<1>1. CASE BeginRun
  BY <1>1 DEF ExpiryInv, StrayOnlyAfterExpiry, BeginRun, safetyVars, watchdogVars
<1>2. CASE StartStep \/ EndStep \/ LeaseStep
  <2>1. UNCHANGED <<worker, hasExpired, stray>>
    BY <1>2 DEF StartStep, EndStep, LeaseStep, watchdogVars, resultVars
  <2>2. \/ record' = record \/ RecordKeyAttempt \/ RecordResult(TRUE, FALSE)
        \/ AttemptUnkey("session") \/ RecordCleanup("session", FALSE)
    BY <1>2 DEF StartStep, ForgetCancel, Prepare, CheckPtt, ClearPtt, EndStep,
       LeaseStep, MarkKeyAttempt, SendKey, TakeKeyReply, Gate, Unkey,
       DestroyLease, UnkeyInDestructor, TryRelease, EndRelease, safetyVars
  <2>3. ExpiryKept
    BY <2>2, RecordKeepsExpiry DEF ExpiryKept
  <2> QED
    BY <2>1, <2>3 DEF ExpiryInv, StrayOnlyAfterExpiry, ExpiryKept
<1>3. CASE PhaseStep
  <2>1. stray' = stray /\ record' = record
    BY <1>3 DEF PhaseStep, safetyVars, resultVars
  <2>2. CASE UNCHANGED <<worker, hasExpired>>
    BY <2>1, <2>2 DEF ExpiryInv, StrayOnlyAfterExpiry
  <2>3. CASE StartWatchdog
    BY <2>1, <2>3 DEF IInv, WatchdogInv, AudioInv, ExpiryInv, StrayOnlyAfterExpiry, StartWatchdog,
       CreateWatchdog, watchdogVars, SilentPlaces, RigIsOffPlaces, NoWatchdogPlaces
  <2>4. CASE ArmWatchdog
    BY <2>1, <2>4 DEF IInv, WatchdogInv, AudioInv, ExpiryInv, StrayOnlyAfterExpiry, ArmWatchdog,
       Arm, NotifyStart, SilentPlaces, RigIsOffPlaces
  <2>5. CASE NotifyWatchdog
    BY <2>1, <2>5 DEF ExpiryInv, StrayOnlyAfterExpiry, NotifyWatchdog, NotifyStop, NotifyStart
  <2>6. CASE JoinWatchdog
    BY <2>1, <2>6 DEF ExpiryInv, StrayOnlyAfterExpiry, JoinWatchdog, Join
  <2> QED
    BY <1>3, <2>2, <2>3, <2>4, <2>5, <2>6
    DEF PhaseStep, OpenAudio, PrimeAudio, CheckArmed, PreKeyDelay, StartDrain, Drain, CheckDrain,
     JudgeDrain, Tail, FinishWatchdog, RecheckCancel, CleanAudio, Throw, UnwindAudio,
     StopWatchdog, WaitRound, Heartbeat, Finish, RequestStop, watchdogVars
<1>4. CASE SignalStep
  BY <1>4 DEF ExpiryInv, StrayOnlyAfterExpiry, SignalStep, ReadBlock, QueueBlock, Heartbeat,
     watchdogVars, safetyVars, resultVars
<1>5. CASE Worker
  <2>1. stray' = stray
    BY <1>5 DEF Worker, contextVars, resultVars
  <2>2. CASE WorkerLoop \/ WorkerSleep \/ WorkerWake \/ WorkerExpire \/ WorkerDisarm
    BY <2>1, <2>2 DEF ExpiryInv, StrayOnlyAfterExpiry, WorkerLoop, WorkerSleep, WorkerWake,
       WorkerExpire, WorkerDisarm, safetyVars
  <2>3. CASE WorkerUnkey
    BY <2>1, <2>3 DEF ExpiryInv, StrayOnlyAfterExpiry, WorkerUnkey, AttemptUnkey, watchdogVars
  <2>4. CASE WorkerRecord
    <3>1. record'.watchdogExpired
      BY <2>4 DEF WorkerRecord, RecordCleanup, RecordResult
    <3> QED
      BY <2>1, <2>4, <3>1 DEF ExpiryInv, StrayOnlyAfterExpiry, WorkerRecord
  <2> QED
    BY <1>5, <2>2, <2>3, <2>4 DEF Worker, WorkerStep
<1>6. CASE PlayFrame /\ DeviceStep
  <2>1. stray' => stray \/ (KeyedOrExpired /\ hasExpired)
    BY <1>6 DEF PlayFrame, AirInv, KeyedOrExpired
  <2>2. UNCHANGED <<worker, hasExpired, record>>
    BY <1>6 DEF DeviceStep, safetyVars, watchdogVars
  <2> QED
    BY <2>1, <2>2 DEF ExpiryInv, StrayOnlyAfterExpiry, KeyedOrExpired
<1>7. CASE Clock \/ StopStep \/ (RetryStep /\ ~Retry) \/ (DeviceStep /\ ~PlayFrame)
           \/ UNCHANGED vars
  <2>1. UNCHANGED <<worker, hasExpired, stray, record>>
    BY <1>7 DEF Clock, LeaseTick, StopStep, RetryStep, StartRetry, DeviceStep, LoseDevice, vars,
       safetyVars, watchdogVars, contextVars, resultVars
  <2> QED
    BY <2>1 DEF ExpiryInv, StrayOnlyAfterExpiry
<1>8. CASE Retry /\ RetryStep
  <2>1. UNCHANGED <<worker, hasExpired, stray>>
    BY <1>8 DEF RetryStep, watchdogVars, contextVars, resultVars
  <2>2. ExpiryKept
    BY <1>8, RecordKeepsExpiry DEF Retry
  <2> QED
    BY <2>1, <2>2 DEF ExpiryInv, StrayOnlyAfterExpiry, ExpiryKept
<1> QED
  BY <1>1, <1>2, <1>3, <1>4, <1>5, <1>6, <1>7, <1>8 DEF Next, ControlStep

OnAirPlaces == {"keyResult", "preKeyDelay", "unwindAudio"} \cup SignalPlaces

(* Only a cleanup loop lowers the rig, and on the air that is the watchdog's.  *)
LEMMA KeyedOrExpiredStays ==
  ASSUME IInv, ExpiryInv, [Next]_vars, KeyedOrExpired, pc \in OnAirPlaces
  PROVE  KeyedOrExpired'
<1>0. pc \notin {"idle", "notifying"} /\ pc \notin CleanupPlaces
  BY DEF OnAirPlaces, SignalPlaces, CleanupPlaces
<1>1. CASE ControlStep \/ BeginRun
  <2>1. rigKeyed' = rigKeyed
    BY <1>0, <1>1 DEF ControlStep, BeginRun, StartStep, ForgetCancel, Prepare, CheckPtt, ClearPtt,
       PhaseStep, LeaseStep, MarkKeyAttempt, SendKey, TakeKeyReply, Gate, Unkey, DestroyLease,
       UnkeyInDestructor, SignalStep, EndStep, safetyVars, OnAirPlaces, SignalPlaces,
       CleanupPlaces
  <2>2. worker' = worker /\ hasExpired' = hasExpired
    <3>1. CASE PhaseStep
      BY <3>1 DEF OnAirPlaces, SignalPlaces, PhaseStep, OpenAudio, PrimeAudio, StartWatchdog, ArmWatchdog, CheckArmed,
     PreKeyDelay, StartDrain, Drain, CheckDrain, JudgeDrain, Tail, FinishWatchdog, RecheckCancel,
     CleanAudio, StopAudio, Throw, UnwindAudio, StopWatchdog, NotifyWatchdog, JoinWatchdog,
     CheckControl, FailControl, FailPhase, Fail, GoOn, WaitRound, CreateWatchdog, Arm, NotifyStart, Heartbeat, Finish, RequestStop, NotifyStop, Join,
     watchdogVars
    <3>2. CASE ~PhaseStep
      BY <1>1, <3>2 DEF ControlStep, BeginRun, StartStep, LeaseStep, SignalStep, ReadBlock,
         QueueBlock, Heartbeat, EndStep, watchdogVars
    <3> QED
      BY <3>1, <3>2
  <2> QED
    BY <2>1, <2>2 DEF KeyedOrExpired
<1>2. CASE Worker
  <2>1. CASE WorkerUnkey
    BY <2>1 DEF ExpiryInv, KeyedOrExpired, WorkerUnkey, watchdogVars
  <2>2. CASE ~WorkerUnkey
    BY <1>2, <2>2 DEF KeyedOrExpired, Worker, WorkerStep, WorkerLoop, WorkerSleep, WorkerWake,
       WorkerExpire, WorkerRecord, WorkerDisarm, safetyVars
  <2> QED
    BY <2>1, <2>2
<1>3. CASE RetryStep
  <2>1. ~Retry
    <3>1. isActive
      BY <1>0 DEF IInv, CleanupInv
    <3>2. cleanup["retry"] = NoCleanup
      BY <3>1 DEF IInv, CleanupInv
    <3>3. cleanup["retry"].verdict = "none"
      BY <3>2 DEF NoCleanup
    <3> QED
      BY <3>3 DEF Retry, AttemptUnkey, RecordCleanup, CleanupEnded
  <2> QED
    BY <1>3, <2>1 DEF KeyedOrExpired, RetryStep, StartRetry, watchdogVars
<1>4. CASE Clock \/ StopStep \/ DeviceStep \/ UNCHANGED vars
  BY <1>4 DEF KeyedOrExpired, Clock, LeaseTick, StopStep, DeviceStep, vars, safetyVars, watchdogVars
<1> QED
  BY <1>1, <1>2, <1>3, <1>4 DEF Next

(* How run() gets on the air.                                               *)
LEMMA OnAirFrom ==
  ASSUME [Next]_vars, pc' \in {"preKeyDelay"} \cup SignalPlaces
  PROVE  \/ pc \in {"preKeyDelay"} \cup SignalPlaces /\ keyReply' = keyReply
         \/ pc = "keyResult" /\ keyReply = "accepted" /\ keyReply' = keyReply
<1>1. CASE BeginRun \/ StartStep \/ EndStep
  <2>1. pc' \in {"entered", "preparing", "checkingPtt", "clearingPtt", "openingAudio",
                 "leaseDestructor", "notifying", "idle"} \/ pc' = pc
    BY <1>1 DEF BeginRun, StartStep, ForgetCancel, Prepare, CheckPtt, ClearPtt, EndEarly, EndStep,
       Decide, Deactivate, NotifyStopper
  <2>2. pc' = pc => keyReply' = keyReply
    BY <1>1 DEF BeginRun, StartStep, EndStep, leaseVars
  <2> QED
    BY <2>1, <2>2 DEF SignalPlaces
<1>2. CASE PhaseStep
  BY <1>2 DEF SignalPlaces, leaseVars, PhaseStep, OpenAudio, PrimeAudio, StartWatchdog, ArmWatchdog, CheckArmed,
     PreKeyDelay, StartDrain, Drain, CheckDrain, JudgeDrain, Tail, FinishWatchdog, RecheckCancel,
     CleanAudio, StopAudio, Throw, UnwindAudio, StopWatchdog, NotifyWatchdog, JoinWatchdog,
     CheckControl, FailControl, FailPhase, Fail, GoOn, WaitRound
<1>3. CASE LeaseStep
  BY <1>3 DEF SignalPlaces, leaseVars, LeaseStep, MarkKeyAttempt, SendKey, TakeKeyReply, Gate, Unkey, DestroyLease,
     UnkeyInDestructor, TryRelease, EndRelease, FailPhase, Fail, GoOn
<1>4. CASE SignalStep
  BY <1>4 DEF SignalPlaces, leaseVars, SignalStep, ReadBlock, QueueBlock
<1>5. CASE Worker \/ Clock \/ StopStep \/ RetryStep \/ DeviceStep \/ UNCHANGED vars
  BY <1>5 DEF Worker, Clock, StopStep, RetryStep, DeviceStep, vars, contextVars, leaseVars
<1> QED
  BY <1>1, <1>2, <1>3, <1>4, <1>5 DEF Next, ControlStep

Ungated == audio.running /\ audio.ring > 0 /\ ~audio.gated

(* Signal is ungated from the first frame queued to the end of the drain, to   *)
(* a fault, which gates it, or to an exception.                              *)
LEMMA UngatedFrom ==
  ASSUME IInv, AudioInv, AiredInv, [Next]_vars, Ungated'
  PROVE  \/ Ungated /\ pc' = pc
         \/ pc \in SignalPlaces /\ pc' \in SignalPlaces
         \/ Ungated /\ pc \in SignalPlaces /\ pc' = "unwindAudio"
         \/ Ungated /\ pc \notin SignalPlaces \cup {"unwindAudio"}
<1> AudioType
  BY DEF IInv, TypeInv
<1>1. CASE BeginRun
  BY <1>1 DEF Ungated, BeginRun, ClosedAudio
<1>2. CASE StartStep \/ EndStep
  <2>1. audio' = audio
    BY <1>2 DEF StartStep, EndStep
  <2>2. StartStep => pc \notin SignalPlaces \cup {"unwindAudio"}
    BY DEF StartStep, ForgetCancel, Prepare, CheckPtt, ClearPtt, SignalPlaces
  <2>3. pc \notin SignalPlaces \cup {"unwindAudio"}
    BY <1>2, <2>2 DEF EndStep, Decide, Deactivate, NotifyStopper, SignalPlaces
  <2> QED
    BY <2>1, <2>3 DEF Ungated
<1>3. CASE PhaseStep
  <2>1. CASE PrimeAudio
    <3>1. audio.ring = 0
      BY <2>1 DEF AudioInv, PrimeAudio, SilentPlaces, RigIsOffPlaces
    <3>2. audio'.ring = audio.ring
      BY <2>1 DEF AudioType, PrimeAudio, FailPhase, CheckControl, FailControl, Fail
    <3> QED
      BY <3>1, <3>2 DEF Ungated
  <2>2. CASE Tail
    BY <2>2 DEF Ungated, AiredInv, AudioType, Tail, WaitRound, GoOn, CheckControl, FailControl,
       Fail
  <2>3. CASE ~PrimeAudio /\ ~Tail
    BY <1>3, <2>3 DEF Ungated, AudioType, SignalPlaces, PhaseStep, OpenAudio, PrimeAudio, StartWatchdog, ArmWatchdog, CheckArmed,
     PreKeyDelay, StartDrain, Drain, CheckDrain, JudgeDrain, Tail, FinishWatchdog, RecheckCancel,
     CleanAudio, StopAudio, Throw, UnwindAudio, StopWatchdog, NotifyWatchdog, JoinWatchdog,
     CheckControl, FailControl, FailPhase, Fail, GoOn, WaitRound
  <2> QED
    BY <2>1, <2>2, <2>3
<1>4. CASE LeaseStep
  BY <1>4 DEF Ungated, AudioType, SignalPlaces, LeaseStep, MarkKeyAttempt, SendKey, TakeKeyReply, Gate, Unkey, DestroyLease,
     UnkeyInDestructor, TryRelease, EndRelease, FailPhase, Fail, GoOn
<1>5. CASE SignalStep
  BY <1>5 DEF Ungated, AudioType, SignalPlaces, SignalStep, ReadBlock, QueueBlock, FailControl,
     FailPhase, Fail, GoOn
<1>6. CASE DeviceStep
  BY <1>6 DEF Ungated, AudioType, DeviceStep, PlayFrame, LoseDevice
<1>7. CASE Worker \/ Clock \/ StopStep \/ RetryStep \/ UNCHANGED vars
  BY <1>7 DEF Ungated, Worker, Clock, StopStep, RetryStep, vars, contextVars
<1> QED
  BY <1>1, <1>2, <1>3, <1>4, <1>5, <1>6, <1>7 DEF Next, ControlStep

LEMMA AirInvNext ==
  ASSUME IInv, AudioInv, ExpiryInv, AirInv, AiredInv, [Next]_vars PROVE AirInv'
<1>1. ASSUME pc' \in {"preKeyDelay"} \cup SignalPlaces
      PROVE  keyReply' = "accepted" /\ KeyedOrExpired'
  BY <1>1, OnAirFrom, KeyedOrExpiredStays DEF AirInv, OnAirPlaces
<1>2. ASSUME pc' = "keyResult", keyReply' = "accepted" PROVE KeyedOrExpired'
  <2>1. CASE pc = "keyResult" /\ keyReply = "accepted"
    BY <2>1, KeyedOrExpiredStays DEF AirInv, OnAirPlaces
  <2>2. CASE SendKey /\ LeaseStep
    BY <1>2, <2>2 DEF IInv, WatchdogInv, SendKey, LeaseStep, ExecuteKey, KeyedOrExpired,
       BeforeKeyCommand, watchdogVars
  <2>3. (SendKey /\ LeaseStep) \/ (pc = "keyResult" /\ keyReply' = keyReply)
    <3>1. CASE LeaseStep
      BY <1>2, <3>1 DEF leaseVars, LeaseStep, MarkKeyAttempt, SendKey, TakeKeyReply, Gate, Unkey, DestroyLease,
     UnkeyInDestructor, TryRelease, EndRelease, FailPhase, Fail, GoOn
    <3>2. CASE PhaseStep
      BY <1>2, <3>2 DEF leaseVars, PhaseStep, OpenAudio, PrimeAudio, StartWatchdog, ArmWatchdog, CheckArmed,
     PreKeyDelay, StartDrain, Drain, CheckDrain, JudgeDrain, Tail, FinishWatchdog, RecheckCancel,
     CleanAudio, StopAudio, Throw, UnwindAudio, StopWatchdog, NotifyWatchdog, JoinWatchdog,
     CheckControl, FailControl, FailPhase, Fail, GoOn, WaitRound
    <3>3. CASE ~LeaseStep /\ ~PhaseStep
      BY <1>2, <3>3 DEF Next, ControlStep, BeginRun, StartStep, ForgetCancel, Prepare, CheckPtt,
         ClearPtt, EndEarly, SignalStep, ReadBlock, QueueBlock, FailControl, FailPhase, Fail, GoOn,
         EndStep, Decide, Deactivate, NotifyStopper, Worker, Clock, StopStep, RetryStep, DeviceStep,
         vars, contextVars, leaseVars
    <3> QED
      BY <3>1, <3>2, <3>3
  <2> QED
    BY <1>2, <2>1, <2>2, <2>3
<1>3. ASSUME Ungated' PROVE pc' \in SignalPlaces \cup {"unwindAudio"} /\ KeyedOrExpired'
  <2>1. Ungated => pc \in SignalPlaces \cup {"unwindAudio"} /\ KeyedOrExpired
    BY DEF AirInv, Ungated
  <2>2. pc \in SignalPlaces => KeyedOrExpired
    BY DEF AirInv
  <2>3. pc' \in SignalPlaces \cup {"unwindAudio"} /\ pc \in OnAirPlaces /\ KeyedOrExpired
    BY <1>3, <2>1, <2>2, UngatedFrom DEF OnAirPlaces
  <2> QED
    BY <2>3, KeyedOrExpiredStays
<1> QED
  BY <1>1, <1>2, <1>3 DEF AirInv, Ungated

(* How run() gets to its end without a fault: through the tail.              *)
LEMMA FinalFrom ==
  ASSUME TypeInv, [Next]_vars, pc' \in FinalPlaces, ~hasFault'
  PROVE  /\ keyReply' = keyReply
         /\ \/ pc \in FinalPlaces /\ ~hasFault
            \/ pc = "postAudioTail" /\ ~hasExpired /\ PhaseStep
<1>1. CASE BeginRun \/ StartStep \/ EndStep
  <2>1. pc' \in {"entered", "preparing", "checkingPtt", "clearingPtt", "openingAudio",
                 "leaseDestructor", "notifying", "idle"} \/ (StartStep /\ pc' = pc)
    BY <1>1 DEF BeginRun, StartStep, ForgetCancel, Prepare, CheckPtt, ClearPtt, EndEarly, EndStep,
       Decide, Deactivate, NotifyStopper
  <2>2. StartStep => pc \notin FinalPlaces
    BY DEF StartStep, ForgetCancel, Prepare, CheckPtt, ClearPtt, FinalPlaces
  <2> QED
    BY <2>1, <2>2 DEF FinalPlaces
<1>2. CASE PhaseStep
  BY <1>2 DEF TypeInv, Flags, ContextFlags, FinalPlaces, leaseVars, ControlFault, HeartbeatRefused,
     PhaseStep, OpenAudio, PrimeAudio, StartWatchdog, ArmWatchdog, CheckArmed,
     PreKeyDelay, StartDrain, Drain, CheckDrain, JudgeDrain, Tail, FinishWatchdog, RecheckCancel,
     CleanAudio, StopAudio, Throw, UnwindAudio, StopWatchdog, NotifyWatchdog, JoinWatchdog,
     CheckControl, FailControl, FailPhase, Fail, GoOn, WaitRound
<1>3. CASE LeaseStep
  BY <1>3 DEF TypeInv, Flags, ContextFlags, leaseVars, FinalPlaces, LeaseStep, MarkKeyAttempt, SendKey, TakeKeyReply, Gate, Unkey, DestroyLease,
     UnkeyInDestructor, TryRelease, EndRelease, FailPhase, Fail, GoOn
<1>4. CASE SignalStep
  BY <1>4 DEF FinalPlaces, SignalStep, ReadBlock, QueueBlock, FailControl, FailPhase, Fail, GoOn
<1>5. CASE Worker \/ Clock \/ StopStep \/ RetryStep \/ DeviceStep \/ UNCHANGED vars
  BY <1>5 DEF Worker, Clock, StopStep, RetryStep, DeviceStep, vars, contextVars, leaseVars
<1> QED
  BY <1>1, <1>2, <1>3, <1>4, <1>5 DEF Next, ControlStep

(* Only the session's own signal steps and a new session put frames anywhere. *)
LEMMA AiredStays ==
  ASSUME TypeInv, [Next]_vars, Aired, ~BeginRun, ~SignalStep
  PROVE  Aired'
<1> AudioType
  BY DEF TypeInv
<1>1. left' = left /\ inHand' = inHand
  BY DEF Next, ControlStep, StartStep, PhaseStep, LeaseStep, EndStep, Worker, Clock, StopStep,
     RetryStep, DeviceStep, vars, contextVars, sourceVars
<1>2. audio'.ring = audio.ring /\ stray' = stray
  <2>1. CASE PhaseStep
    BY <2>1 DEF AudioType, resultVars, PhaseStep, OpenAudio, PrimeAudio, StartWatchdog, ArmWatchdog, CheckArmed,
     PreKeyDelay, StartDrain, Drain, CheckDrain, JudgeDrain, Tail, FinishWatchdog, RecheckCancel,
     CleanAudio, StopAudio, Throw, UnwindAudio, StopWatchdog, NotifyWatchdog, JoinWatchdog,
     CheckControl, FailControl, FailPhase, Fail, GoOn, WaitRound
  <2>2. CASE LeaseStep
    BY <2>2 DEF AudioType, resultVars, LeaseStep, MarkKeyAttempt, SendKey, TakeKeyReply, Gate, Unkey, DestroyLease,
     UnkeyInDestructor, TryRelease, EndRelease, FailPhase, Fail, GoOn
  <2>3. CASE DeviceStep
    BY <2>3 DEF AudioType, Aired, DeviceStep, PlayFrame, LoseDevice
  <2>4. CASE StartStep \/ EndStep \/ Worker \/ Clock \/ StopStep \/ RetryStep \/ UNCHANGED vars
    BY <2>4 DEF StartStep, EndStep, Worker, Clock, StopStep, RetryStep, vars, contextVars, resultVars
  <2> QED
    BY <2>1, <2>2, <2>3, <2>4 DEF Next, ControlStep
<1> QED
  BY <1>1, <1>2 DEF Aired

(* The source is read to its end before the drain starts, and the drain ends  *)
(* without a fault on an empty ring only.                                    *)
DrainInv ==
  /\ pc = "transmitting" => inHand = 0
  /\ pc \in DrainPlaces => left = 0 /\ inHand = 0
  /\ pc = "postAudioTail" => audio.ring = 0

LEMMA DrainInvNext == ASSUME IInv, AudioInv, AiredInv, [Next]_vars PROVE DrainInv'
<1> AudioType /\ DrainInv
  BY DEF IInv, TypeInv, AiredInv, DrainInv
<1>1. CASE BeginRun \/ StartStep \/ EndStep
  <2>1. pc' \in {"entered", "preparing", "checkingPtt", "clearingPtt", "openingAudio",
                 "leaseDestructor", "notifying", "idle"} \/ (StartStep /\ pc' = pc)
    BY <1>1 DEF BeginRun, StartStep, ForgetCancel, Prepare, CheckPtt, ClearPtt, EndEarly, EndStep,
       Decide, Deactivate, NotifyStopper
  <2>2. StartStep => pc \notin DrainPlaces \cup {"transmitting"}
    BY DEF StartStep, ForgetCancel, Prepare, CheckPtt, ClearPtt, DrainPlaces
  <2> QED
    BY <2>1, <2>2 DEF DrainInv, DrainPlaces
<1>2. CASE PhaseStep
  <2>1. left' = left /\ inHand' = inHand
    BY <1>2 DEF PhaseStep, sourceVars
  <2>2. pc' = "transmitting" => pc \in {"preKeyDelay"}
    BY <1>2 DEF PhaseStep, OpenAudio, PrimeAudio, StartWatchdog, ArmWatchdog, CheckArmed,
     PreKeyDelay, StartDrain, Drain, CheckDrain, JudgeDrain, Tail, FinishWatchdog, RecheckCancel,
     CleanAudio, StopAudio, Throw, UnwindAudio, StopWatchdog, NotifyWatchdog, JoinWatchdog,
     CheckControl, FailControl, FailPhase, Fail, GoOn, WaitRound
  <2>3. pc' \in DrainPlaces => pc \in DrainPlaces
    BY <1>2 DEF DrainPlaces, PhaseStep, OpenAudio, PrimeAudio, StartWatchdog, ArmWatchdog, CheckArmed,
     PreKeyDelay, StartDrain, Drain, CheckDrain, JudgeDrain, Tail, FinishWatchdog, RecheckCancel,
     CleanAudio, StopAudio, Throw, UnwindAudio, StopWatchdog, NotifyWatchdog, JoinWatchdog,
     CheckControl, FailControl, FailPhase, Fail, GoOn, WaitRound
  <2>4. pc' = "postAudioTail" => audio'.ring = 0
    BY <1>2 DEF DrainInv, AudioType, IsDrained, PhaseStep, OpenAudio, PrimeAudio, StartWatchdog, ArmWatchdog, CheckArmed,
     PreKeyDelay, StartDrain, Drain, CheckDrain, JudgeDrain, Tail, FinishWatchdog, RecheckCancel,
     CleanAudio, StopAudio, Throw, UnwindAudio, StopWatchdog, NotifyWatchdog, JoinWatchdog,
     CheckControl, FailControl, FailPhase, Fail, GoOn, WaitRound
  <2> QED
    BY <2>1, <2>2, <2>3, <2>4 DEF DrainInv, AudioInv, SilentPlaces
<1>3. CASE LeaseStep
  BY <1>3 DEF DrainInv, DrainPlaces, LeaseStep, MarkKeyAttempt, SendKey, TakeKeyReply, Gate, Unkey, DestroyLease,
     UnkeyInDestructor, TryRelease, EndRelease, FailPhase, Fail, GoOn
<1>4. CASE ReadBlock /\ SignalStep
  BY <1>4 DEF DrainInv, DrainPlaces, ReadBlock, FailControl, FailPhase, Fail, GoOn, sourceVars
<1>5. CASE QueueBlock /\ SignalStep
  BY <1>5 DEF DrainInv, DrainPlaces, QueueBlock, FailControl, FailPhase, Fail, GoOn
<1>6. CASE DeviceStep
  BY <1>6 DEF DrainInv, AudioType, DeviceStep, PlayFrame, LoseDevice, sourceVars
<1>7. CASE Worker \/ Clock \/ StopStep \/ RetryStep \/ UNCHANGED vars
  BY <1>7 DEF DrainInv, Worker, Clock, StopStep, RetryStep, vars, contextVars, sourceVars
<1> QED
  BY <1>1, <1>2, <1>3, <1>4, <1>5, <1>6, <1>7 DEF Next, ControlStep, SignalStep

(* Nothing but the key command turns the rig on.                             *)
LEMMA OnlySendKeyKeys == ASSUME [Next]_vars, ~SendKey PROVE rigKeyed' => rigKeyed
<1>1. \/ rigKeyed' = rigKeyed
      \/ AttemptUnkey("session") \/ AttemptUnkey("watchdog") \/ AttemptUnkey("retry")
  <2>1. CASE StartStep
    BY <2>1 DEF StartStep, ForgetCancel, Prepare, CheckPtt, ClearPtt, safetyVars
  <2>2. CASE LeaseStep
    BY <2>2 DEF LeaseStep, MarkKeyAttempt, TakeKeyReply, Gate, Unkey, DestroyLease,
       UnkeyInDestructor, TryRelease, EndRelease
  <2>3. CASE Worker
    BY <2>3 DEF Worker, WorkerStep, WorkerLoop, WorkerSleep, WorkerWake, WorkerExpire, WorkerUnkey,
       WorkerRecord, WorkerDisarm, safetyVars
  <2>4. CASE RetryStep
    BY <2>4 DEF RetryStep, StartRetry, Retry
  <2>5. CASE ~StartStep /\ ~LeaseStep /\ ~Worker /\ ~RetryStep
    BY <2>5 DEF Next, ControlStep, BeginRun, PhaseStep, SignalStep, EndStep, Clock, LeaseTick,
       StopStep, DeviceStep, vars, safetyVars
  <2> QED
    BY <2>1, <2>2, <2>3, <2>4, <2>5
<1>2. ASSUME NEW c \in Callers, AttemptUnkey(c) PROVE rigKeyed' => rigKeyed
  <2>1. rigKeyed' = rigKeyed \/ rigKeyed' = FALSE
    BY <1>2 DEF AttemptUnkey
  <2> QED
    BY <2>1
<1> QED
  BY <1>1, <1>2 DEF Callers

(* What a result says of the run stays true until the next run() starts.      *)
LEMMA AiredInvNext ==
  ASSUME IInv, StopInv, AudioInv, UnkeyInv, ExpiryInv, AirInv, AiredInv, [Next]_vars
  PROVE  AiredInv'
<1> TypeInv
  BY DEF IInv
<1> DrainInv'
  BY DrainInvNext
<1>1. ASSUME pc' \in FinalPlaces, ~hasFault' PROVE Aired' /\ keyReply' = "accepted"
  <2>1. Aired /\ keyReply = "accepted"
    <3>1. CASE pc \in FinalPlaces /\ ~hasFault
      BY <3>1 DEF AiredInv
    <3>2. CASE pc = "postAudioTail" /\ ~hasExpired
      <4>1. ~stray
        BY <3>2 DEF ExpiryInv, StrayOnlyAfterExpiry, AirInv, KeyedOrExpired, SignalPlaces
      <4>2. left = 0 /\ inHand = 0 /\ audio.ring = 0
        BY <3>2 DEF AiredInv, DrainPlaces
      <4>3. keyReply = "accepted"
        BY <3>2 DEF AirInv, SignalPlaces
      <4> QED
        BY <4>1, <4>2, <4>3 DEF Aired
    <3> QED
      BY <1>1, <3>1, <3>2, FinalFrom
  <2>2. pc \in FinalPlaces \cup {"postAudioTail"} /\ keyReply' = keyReply
    BY <1>1, FinalFrom
  <2>3. ~BeginRun /\ ~SignalStep
    BY <2>2 DEF BeginRun, SignalStep, ReadBlock, QueueBlock, FinalPlaces
  <2> QED
    BY <2>1, <2>2, <2>3, AiredStays
<1>2. ASSUME outcome' = "completed" PROVE Aired' /\ ~rigKeyed'
  <2>1. \/ outcome = "completed" /\ outcome' = outcome
        \/ Decide /\ EndStep /\ ~record.hasHazard /\ ~hasFault
    <3>1. CASE StartStep
      BY <1>2, <3>1 DEF StartStep, ForgetCancel, Prepare, CheckPtt, ClearPtt, EndEarly
    <3>2. CASE EndStep
      BY <1>2, <3>2 DEF EndStep, Decide, Deactivate, NotifyStopper, EndEarly
    <3>3. CASE ~StartStep /\ ~EndStep
      BY <1>2, <3>3 DEF Next, ControlStep, BeginRun, PhaseStep, LeaseStep, SignalStep, Worker,
         Clock, StopStep, RetryStep, DeviceStep, vars, contextVars, resultVars
    <3> QED
      BY <3>1, <3>2, <3>3
  <2>2. CASE outcome = "completed" /\ outcome' = outcome
    <3>1. Aired /\ ~rigKeyed
      BY <2>2 DEF AiredInv
    <3>2. pc \notin {"keyCommand", "transmitting", "queueing"}
      BY <2>2 DEF StopInv, UndecidedPlaces, StopDecides, BeforeKeyCommand
    <3>3. ~BeginRun
      BY <1>2 DEF BeginRun
    <3>4. ~SignalStep /\ ~SendKey
      BY <3>2 DEF SignalStep, ReadBlock, QueueBlock, SendKey
    <3>5. rigKeyed' => rigKeyed
      BY <3>4, OnlySendKeyKeys
    <3> QED
      BY <3>1, <3>3, <3>4, <3>5, AiredStays
  <2>3. CASE Decide /\ EndStep /\ ~record.hasHazard /\ ~hasFault
    <3>1. Aired /\ keyReply = "accepted"
      BY <2>3 DEF AiredInv, Decide, FinalPlaces
    <3>2. ~rigKeyed
      BY <2>3, <3>1 DEF UnkeyInv, IInv, RigInv
    <3>3. rigKeyed' = rigKeyed
      BY <2>3 DEF EndStep, safetyVars
    <3>4. ~BeginRun /\ ~SignalStep
      BY <2>3 DEF Decide, BeginRun, SignalStep, ReadBlock, QueueBlock
    <3> QED
      BY <3>1, <3>2, <3>3, <3>4, AiredStays
  <2> QED
    BY <2>1, <2>2, <2>3
<1> QED
  BY <1>1, <1>2 DEF AiredInv, DrainInv

(* Every step keeps the whole of it.                                        *)
LEMMA OutcomeNext == ASSUME IInv, OutcomeInv, [Next]_vars PROVE OutcomeInv'
BY StopInvNext, AudioInvNext, UnkeyInvNext, ExpiryInvNext, AirInvNext, AiredInvNext DEF OutcomeInv

(* The invariant holds in every reachable state.                            *)
THEOREM OutcomeInvCorrect ==
  ASSUME KeyWithinLease, RetryAlone PROVE Spec => []OutcomeInv
<1>1. IInv /\ OutcomeInv /\ [Next]_vars => OutcomeInv'
  BY OutcomeNext
<1> QED
  BY <1>1, OutcomeInit, InvCorrect, PTL DEF Spec

(* Whatever way run() is left: the key command that may have worked has been  *)
(* followed by an unkey command, a rig that is on is on record as a hazard,  *)
(* and the audio device is closed.                                          *)
THEOREM CleanExitHolds == ASSUME KeyWithinLease, RetryAlone PROVE Spec => []CleanExit
<1>1. IInv /\ OutcomeInv => CleanExit
  BY DEF IInv, RigInv, OutcomeInv, AudioInv, UnkeyInv, MayHaveKeyed, ClosedPlaces, NoLeasePlaces,
     CleanExit
<1> QED
  BY <1>1, InvCorrect, OutcomeInvCorrect, PTL

(* A transmission that is reported complete was read, queued and played to    *)
(* its last frame while the rig was on, and the rig is off again.            *)
THEOREM CompletedMeansAiredHolds ==
  ASSUME KeyWithinLease, RetryAlone PROVE Spec => []CompletedMeansAired
<1>1. OutcomeInv => CompletedMeansAired
  BY DEF OutcomeInv, AiredInv, Aired, CompletedMeansAired
<1> QED
  BY <1>1, OutcomeInvCorrect, PTL

(* No path but the watchdog's takes the rig away from signal on its way out.  *)
THEOREM StrayOnlyAfterExpiryHolds ==
  ASSUME KeyWithinLease, RetryAlone PROVE Spec => []StrayOnlyAfterExpiry
<1>1. OutcomeInv => StrayOnlyAfterExpiry
  BY DEF OutcomeInv, ExpiryInv
<1> QED
  BY <1>1, OutcomeInvCorrect, PTL

(* A stop asked for before the last look at it never ends as "completed".     *)
THEOREM StopWinsHolds == ASSUME KeyWithinLease, RetryAlone PROVE Spec => []StopWins
<1>1. OutcomeInv => StopWins
  BY DEF OutcomeInv, StopInv
<1> QED
  BY <1>1, OutcomeInvCorrect, PTL
=============================================================================
