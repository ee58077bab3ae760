-------------------------- MODULE LiveServiceProofs --------------------------
(***************************************************************************)
(* The promises of the live service, for every number of rigs, sessions,     *)
(* confirmations and calls, and whoever owns it.                            *)
(***************************************************************************)
EXTENDS LiveProperties, TLAPS

(* What the calls and the threads of the service may rely on, whoever makes   *)
(* them.  The owner's own variables are not needed for any of it.            *)
HistoryTypeOK ==
  /\ stopped \in [Sessions -> {"no", "early", "heard", "late"}]
  /\ overlapped \in BOOLEAN
  /\ calls \in 0 .. MaxCalls
  /\ agreed \in [1 .. MaxNonces -> MaybeRig]

(* A confirmation that can still be used names the configured rig.            *)
ConfirmedInv ==
  confirmation # 0 => configuration \in Rigs /\ agreed[confirmation] = configuration

(* Where the worker is, and what that says of its coordinator.                *)
WorkerInv ==
  /\ worker.at # "none" => worker.session \in Sessions /\ worker.rig \in Rigs
  /\ coordinator <= worker.session
  /\ worker.at = "preparing" => coordinator # worker.session
  /\ worker.at \in {"starting", "running", "ending", "publishing"} =>
       coordinator = worker.session /\ sessions[current].rig = worker.rig
  /\ worker.at \in {"starting", "running", "ending"} => sessions[current].outcome = "none"
  /\ worker.at = "publishing" => sessions[current].outcome # "none"

(* The record of a coordinator is clear until its session keys the rig.       *)
RecordInv ==
  /\ \A s \in Sessions : s > worker.session => ~sessions[s].record
  /\ worker.at \in {"preparing", "starting"} => ~sessions[current].record
  /\ InSession({"preparing", "checking"}) => ~sessions[current].record

(* A retry never holds the coordinator of a session that is still to end.     *)
RetryInv ==
  /\ retrying.at # "idle" => retrying.session <= coordinator
  /\ retrying.at = "unkeying" /\ isRunning => retrying.session # worker.session

(* A stop that a session heard stays in its flags until it looks at them for   *)
(* the last time, and what it saw decides the outcome; a session that has not   *)
(* looked did not transmit.                                                 *)
StopInv ==
  \A s \in Sessions : stopped[s] = "heard" =>
    /\ s <= worker.session
    /\ s = worker.session => worker.at \notin {"preparing", "starting"}
    /\ sessions[s].outcome = "none" => sessions[s].stop # "no"
    /\ s = worker.session /\ worker.at = "ending" =>
         sessions[s].wasCancelled \/ sessions[s].state = "preparing"
    /\ sessions[s].outcome # "completed"

(* A rig that was left on is a hazard in the record of one of its             *)
(* coordinators.                                                            *)
KeyedInv == \A rig \in keyed : \E s \in Sessions : sessions[s].rig = rig /\ sessions[s].record

(* A hazard that is shown while a session runs is that of a check which the     *)
(* start of the session did not wait for.                                    *)
OverlapInv ==
  /\ isRunning /\ checking # NoRig => overlapped
  /\ worker.at \in {"preparing", "starting", "running", "ending", "publishing"}
       /\ snapshot.hasHazard => overlapped

CoreInv ==
  /\ ServiceTypeOK /\ HistoryTypeOK /\ BusyMeansWorking
  /\ ConfirmedInv /\ WorkerInv /\ RecordInv /\ RetryInv /\ StopInv /\ KeyedInv

OwnerInv ==
  /\ owner \in Places
  /\ held \in 0 .. MaxNonces
  /\ cancellationSent \in BOOLEAN
  /\ gui \in [shown : {"inactive", "active", "terminal", "hazard"},
              hasConfiguration : BOOLEAN, closePending : BOOLEAN]
  /\ owner = "closed" => worker.at \in {"none", "done"}

IInv == CoreInv /\ OverlapInv /\ OwnerInv

(* What a step of any owner does to the service.                             *)
Idle == /\ UNCHANGED <<snapshot, configuration, confirmation, nextNonce, isRunning,
                       coordinator, supervisor, worker, sessions, keyed, checking,
                       retrying, history>>
        /\ isNew' \in {isNew, FALSE}

ServiceStep ==
  \/ \E rig \in Rigs : Configure(rig) \/ CallCheck(rig)
  \/ Confirm \/ RequestCancel \/ CallRetry
  \/ \E nonce \in 0 .. MaxNonces : Start(nonce)
  \/ UNCHANGED history /\ (shutdownCoordinator \/ joinWorker)
  \/ UNCHANGED history /\ (WorkerStep \/ reportCheck \/ RetryStep)
  \/ Idle

-----------------------------------------------------------------------------
(* The service.                                                             *)

(* Before the first call.                                                   *)
LEMMA CoreInit == Init => CoreInv /\ OverlapInv
<1> SUFFICES ASSUME Init PROVE CoreInv /\ OverlapInv
  OBVIOUS
<1>1. /\ MaxSessions \in Nat /\ MaxNonces \in Nat /\ MaxCalls \in Nat
  BY BoundsAssumption, MaxCallsAssumption
<1>2. ServiceTypeOK
  <2>1. NewCoordinator(NoRig) \in Coordinators
    BY DEF NewCoordinator, Coordinators, MaybeRig, SessionStates, Outcomes
  <2>2. sessions \in [Sessions -> Coordinators]
    BY <2>1 DEF Init, ServiceInit
  <2>3. isNew \in BOOLEAN /\ isRunning \in BOOLEAN
    BY DEF Init, ServiceInit
  <2>6. snapshot \in Snapshots
    BY <1>1 DEF Init, ServiceInit, Snapshots, ServiceStates
  <2>4. worker \in Workers /\ retrying \in Retries
    BY <1>1 DEF Init, ServiceInit, Workers, Retries, NoRetry, MaybeRig
  <2>5. /\ configuration \in MaybeRig /\ confirmation \in 0 .. MaxNonces
        /\ nextNonce \in 1 .. MaxNonces + 1 /\ coordinator \in 0 .. MaxSessions
        /\ supervisor \in MaybeRig /\ checking \in MaybeRig /\ keyed \subseteq Rigs
    BY <1>1 DEF Init, ServiceInit, MaybeRig
  <2> QED
    BY <2>2, <2>3, <2>4, <2>5, <2>6 DEF ServiceTypeOK
<1>3. HistoryTypeOK
  <2>1. overlapped \in BOOLEAN
    BY DEF Init
  <2> QED
    BY <1>1, <2>1 DEF Init, HistoryTypeOK, MaybeRig
<1>4. BusyMeansWorking /\ ConfirmedInv /\ WorkerInv
  BY <1>1 DEF Init, ServiceInit, BusyMeansWorking, ConfirmedInv, WorkerInv
<1>5. \A s \in Sessions : sessions[s].record = FALSE /\ stopped[s] = "no"
  BY DEF Init, ServiceInit, NewCoordinator
<1>6. RecordInv /\ StopInv
  BY <1>1, <1>5 DEF Init, ServiceInit, RecordInv, StopInv, InSession
<1>7. RetryInv /\ KeyedInv
  BY DEF Init, ServiceInit, RetryInv, KeyedInv, NoRetry
<1>8. OverlapInv
  BY DEF Init, ServiceInit, OverlapInv
<1> QED
  BY <1>2, <1>3, <1>4, <1>6, <1>7, <1>8 DEF CoreInv

(* What publish() leaves is a snapshot.                                     *)
LEMMA PublishType ==
  ASSUME NEW state \in ServiceStates, NEW session \in 0 .. MaxSessions, NEW hasHazard \in BOOLEAN,
         publishAs(state, session, hasHazard)
  PROVE  snapshot' \in Snapshots /\ isNew' \in BOOLEAN
<1>1. isNew' \in BOOLEAN
  BY DEF publishAs
<1>2. snapshot' \in Snapshots
  BY DEF publishAs, Snapshots
<1> QED
  BY <1>1, <1>2

(* The same for a publication that only changes the state.                   *)
LEMMA SetStateType ==
  ASSUME ServiceTypeOK, NEW state \in ServiceStates, setState(state)
  PROVE  snapshot' \in Snapshots /\ isNew' \in BOOLEAN
<1>1. snapshot.session \in 0 .. MaxSessions /\ snapshot.hasHazard \in BOOLEAN
  BY DEF ServiceTypeOK, Snapshots
<1> QED
  BY <1>1, PublishType DEF setState

(* The states that the calls and the worker publish are states.              *)
LEMMA PublishedStates ==
  /\ {"ready", "confirmed", "checkingPtt", "stopping", "faulted", "hazardous"} \subseteq ServiceStates
  /\ Outcomes \ {"none", "thrown"} \subseteq ServiceStates
BY DEF ServiceStates, Outcomes

(* A step that leaves the worker, the coordinators, the rigs and the retry    *)
(* alone leaves what is said of them.                                       *)
LEMMA Apart ==
  ASSUME CoreInv,
         UNCHANGED <<worker, sessions, keyed, coordinator, isRunning, retrying, stopped>>
  PROVE  BusyMeansWorking' /\ WorkerInv' /\ RecordInv' /\ RetryInv' /\ StopInv' /\ KeyedInv'
<1>1. BusyMeansWorking' /\ WorkerInv'
  BY DEF CoreInv, BusyMeansWorking, WorkerInv, current
<1>2. RecordInv' /\ RetryInv'
  BY DEF CoreInv, RecordInv, RetryInv, InSession, current
<1>3. StopInv' /\ KeyedInv'
  BY DEF CoreInv, StopInv, KeyedInv
<1> QED
  BY <1>1, <1>2, <1>3

-----------------------------------------------------------------------------
(* The calls of the owner.                                                  *)

(* A new configuration revokes the confirmation of the one before it.       *)
LEMMA ConfigureKeeps == ASSUME CoreInv, NEW rig \in Rigs, Configure(rig) PROVE CoreInv'
<1>1. /\ configuration' = rig /\ confirmation' = 0 /\ publishAs("ready", 0, FALSE)
      /\ UNCHANGED <<nextNonce, isRunning, coordinator, supervisor, worker, sessions, keyed,
                     checking, retrying, stopped, overlapped, agreed, calls>>
  BY DEF Configure, configure, history
<1>2. 0 \in 0 .. MaxSessions /\ 0 \in 0 .. MaxNonces
  BY BoundsAssumption
<1>3. snapshot' \in Snapshots /\ isNew' \in BOOLEAN
  BY <1>1, <1>2, PublishType, PublishedStates
<1>4. ServiceTypeOK' /\ HistoryTypeOK'
  BY <1>1, <1>2, <1>3 DEF CoreInv, ServiceTypeOK, HistoryTypeOK, MaybeRig
<1>5. ConfirmedInv'
  BY <1>1 DEF ConfirmedInv
<1> QED
  BY <1>1, <1>4, <1>5, Apart DEF CoreInv

(* A confirmation is given for the rig that is configured.                  *)
LEMMA ConfirmKeeps == ASSUME CoreInv, Confirm PROVE CoreInv'
<1>1. /\ configuration \in Rigs /\ nextNonce <= MaxNonces
      /\ confirmation' = nextNonce /\ nextNonce' = nextNonce + 1 /\ setState("confirmed")
      /\ agreed' = [agreed EXCEPT ![nextNonce] = configuration]
      /\ UNCHANGED <<configuration, isRunning, coordinator, supervisor, worker, sessions, keyed,
                     checking, retrying, stopped, overlapped, calls>>
  BY DEF Confirm, confirm, isConfirmable, CoreInv, ServiceTypeOK, MaybeRig
<1>2. nextNonce \in 1 .. MaxNonces /\ nextNonce + 1 \in 1 .. MaxNonces + 1
  BY <1>1, BoundsAssumption DEF CoreInv, ServiceTypeOK
<1>3. snapshot' \in Snapshots /\ isNew' \in BOOLEAN
  BY <1>1, SetStateType, PublishedStates DEF CoreInv
<1>4. ServiceTypeOK'
  BY <1>1, <1>2, <1>3 DEF CoreInv, ServiceTypeOK
<1>5. HistoryTypeOK' /\ ConfirmedInv'
  BY <1>1, <1>2 DEF CoreInv, HistoryTypeOK, ConfirmedInv, MaybeRig
<1> QED
  BY <1>1, <1>4, <1>5, Apart DEF CoreInv

(* The worker that start() begins has a coordinator still to make, so no       *)
(* retry holds it and no stop was heard by it.                              *)
LEMMA StartKeeps == ASSUME CoreInv, NEW nonce, Start(nonce) PROVE CoreInv'
<1>1. /\ ~isRunning /\ confirmation = nonce /\ confirmation # 0 /\ worker.session < MaxSessions
      /\ confirmation' = 0 /\ isRunning' = TRUE /\ setState("checkingPtt")
      /\ worker' = [at |-> "preparing", rig |-> configuration, session |-> worker.session + 1]
      /\ agreed' = [agreed EXCEPT ![nonce] = NoRig]
      /\ overlapped' = (checking # NoRig)
      /\ UNCHANGED <<configuration, nextNonce, coordinator, supervisor, sessions, keyed,
                     checking, retrying, stopped, calls>>
  BY DEF Start, start, isStartable
<1>2. configuration \in Rigs /\ worker.session \in 0 .. MaxSessions
      /\ coordinator \in 0 .. MaxSessions
  BY <1>1 DEF CoreInv, ConfirmedInv, ServiceTypeOK, Workers
<1>3. worker.session + 1 \in Sessions /\ 0 \in 0 .. MaxNonces
  BY <1>1, <1>2, BoundsAssumption DEF Sessions
<1>4. worker' \in Workers
  BY <1>1, <1>2, <1>3 DEF Workers, MaybeRig, Sessions
<1>5. snapshot' \in Snapshots /\ isNew' \in BOOLEAN
  BY <1>1, SetStateType, PublishedStates DEF CoreInv
<1>0. isRunning' \in BOOLEAN
  BY <1>1
<1>6. ServiceTypeOK'
  BY <1>0, <1>1, <1>3, <1>4, <1>5 DEF CoreInv, ServiceTypeOK
<1>7. overlapped' \in BOOLEAN
  BY <1>1
<1>12. HistoryTypeOK' /\ ConfirmedInv' /\ BusyMeansWorking'
  BY <1>1, <1>7 DEF CoreInv, HistoryTypeOK, ConfirmedInv, BusyMeansWorking, MaybeRig
<1>8. WorkerInv'
  BY <1>1, <1>2, <1>3 DEF CoreInv, WorkerInv
<1>9. RecordInv'
  BY <1>1, <1>2, <1>3 DEF CoreInv, RecordInv, InSession, current, Sessions
<1>10. RetryInv'
  BY <1>1, <1>2 DEF CoreInv, RetryInv, WorkerInv, ServiceTypeOK, Retries
<1>11. StopInv' /\ KeyedInv'
  BY <1>1, <1>2 DEF CoreInv, StopInv, KeyedInv, Sessions
<1> QED
  BY <1>6, <1>8, <1>9, <1>10, <1>11, <1>12 DEF CoreInv

(* A stop of a session that runs stays in the flags of its coordinator.       *)
LEMMA CancelKeeps == ASSUME CoreInv, RequestCancel PROVE CoreInv'
<1> DEFINE hit(s) == s = coordinator /\ sessions[s].stop = "no" /\ sessions[s].outcome = "none"
<1>1. /\ (isRunning /\ setState("stopping")) \/ UNCHANGED <<snapshot, isNew>>
      /\ sessions' = [s \in Sessions |->
            IF hit(s) THEN [sessions[s] EXCEPT !.stop = "cancel"] ELSE sessions[s]]
      /\ stopped' = [s \in Sessions |->
           IF s # worker.session \/ stopped[s] = "heard" THEN stopped[s]
           ELSE CASE worker.at \in {"preparing", "starting"} -> "early"
                  [] worker.at = "running" -> "heard"
                  [] worker.at = "ending" -> "late"
                  [] OTHER -> stopped[s]]
      /\ UNCHANGED <<configuration, confirmation, nextNonce, isRunning, coordinator,
                     supervisor, worker, keyed, checking, retrying, overlapped, agreed, calls>>
  BY DEF RequestCancel, requestCancel
<1>2. \A s \in Sessions :
        /\ sessions'[s] \in Coordinators
        /\ sessions'[s].rig = sessions[s].rig /\ sessions'[s].state = sessions[s].state
        /\ sessions'[s].record = sessions[s].record
        /\ sessions'[s].outcome = sessions[s].outcome
        /\ sessions'[s].wasCancelled = sessions[s].wasCancelled
        /\ sessions[s].stop # "no" => sessions'[s].stop # "no"
        /\ hit(s) => sessions'[s].stop # "no"
  BY <1>1 DEF CoreInv, ServiceTypeOK, Coordinators
<1> HIDE DEF hit
<1>3. snapshot' \in Snapshots /\ isNew' \in BOOLEAN
  BY <1>1, SetStateType, PublishedStates DEF CoreInv, ServiceTypeOK
<1>4. ServiceTypeOK'
  BY <1>1, <1>2, <1>3 DEF CoreInv, ServiceTypeOK
<1>5. HistoryTypeOK' /\ ConfirmedInv' /\ BusyMeansWorking'
  BY <1>1 DEF CoreInv, HistoryTypeOK, ConfirmedInv, BusyMeansWorking
<1>6. worker.at \in {"preparing", "starting", "running", "ending", "publishing"} => worker.session \in Sessions
  BY DEF CoreInv, WorkerInv
<1>7. WorkerInv' /\ RecordInv'
  BY <1>1, <1>2, <1>6 DEF CoreInv, WorkerInv, RecordInv, InSession, current
<1>8. RetryInv' /\ KeyedInv'
  BY <1>1, <1>2 DEF CoreInv, RetryInv, KeyedInv
<1>9. StopInv'
  <2> SUFFICES ASSUME NEW s \in Sessions, stopped'[s] = "heard"
               PROVE  /\ s <= worker.session
                      /\ s = worker.session => worker.at \notin {"preparing", "starting"}
                      /\ sessions'[s].outcome = "none" => sessions'[s].stop # "no"
                      /\ s = worker.session /\ worker.at = "ending" =>
                           sessions'[s].wasCancelled \/ sessions'[s].state = "preparing"
                      /\ sessions'[s].outcome # "completed"
    BY <1>1 DEF StopInv
  <2>1. CASE stopped[s] = "heard"
    BY <1>2, <2>1 DEF CoreInv, StopInv
  <2>2. CASE stopped[s] # "heard"
    <3>1. s = worker.session /\ worker.at = "running"
      BY <1>1, <2>2
    <3>2. coordinator = s /\ sessions[s].outcome = "none"
      BY <3>1 DEF CoreInv, WorkerInv, current
    <3>3. sessions'[s].stop # "no"
      BY <1>2, <3>2 DEF hit
    <3> QED
      BY <1>2, <3>1, <3>2, <3>3 DEF CoreInv, ServiceTypeOK, Workers
  <2> QED
    BY <2>1, <2>2
<1> QED
  BY <1>4, <1>5, <1>7, <1>8, <1>9 DEF CoreInv

(* A shutdown replaces the stop flag of the installed coordinator.          *)
LEMMA ShutdownKeeps == ASSUME CoreInv, UNCHANGED history, shutdownCoordinator PROVE CoreInv'
<1>1. /\ sessions' = [s \in Sessions |->
           IF s = coordinator /\ sessions[s].outcome = "none"
           THEN [sessions[s] EXCEPT !.stop = "shutdown"] ELSE sessions[s]]
      /\ UNCHANGED <<snapshot, isNew, configuration, confirmation, nextNonce, isRunning,
                     coordinator, supervisor, worker, keyed, checking, retrying, stopped,
                     overlapped, agreed, calls>>
  BY DEF shutdownCoordinator, serviceVars, history
<1>2. \A s \in Sessions :
        /\ sessions'[s] \in Coordinators
        /\ sessions'[s].rig = sessions[s].rig /\ sessions'[s].state = sessions[s].state
        /\ sessions'[s].record = sessions[s].record
        /\ sessions'[s].outcome = sessions[s].outcome
        /\ sessions'[s].wasCancelled = sessions[s].wasCancelled
        /\ sessions[s].stop # "no" => sessions'[s].stop # "no"
  BY <1>1 DEF CoreInv, ServiceTypeOK, Coordinators
<1>3. ServiceTypeOK'
  BY <1>1, <1>2 DEF CoreInv, ServiceTypeOK
<1>4. HistoryTypeOK' /\ ConfirmedInv' /\ BusyMeansWorking'
  BY <1>1 DEF CoreInv, HistoryTypeOK, ConfirmedInv, BusyMeansWorking
<1>5. worker.at \in {"preparing", "starting", "running", "ending", "publishing"} => worker.session \in Sessions
  BY DEF CoreInv, WorkerInv
<1>6. WorkerInv' /\ RecordInv'
  BY <1>1, <1>2, <1>5 DEF CoreInv, WorkerInv, RecordInv, InSession, current
<1>7. RetryInv' /\ KeyedInv' /\ StopInv'
  BY <1>1, <1>2 DEF CoreInv, RetryInv, KeyedInv, StopInv
<1> QED
  BY <1>3, <1>4, <1>6, <1>7 DEF CoreInv

(* The flag is FALSE already when the thread has ended.                      *)
LEMMA JoinKeeps == ASSUME CoreInv, UNCHANGED history, joinWorker PROVE CoreInv'
<1>1. /\ worker.at \in {"none", "done"}
      /\ isRunning' = FALSE
      /\ UNCHANGED <<snapshot, isNew, configuration, confirmation, nextNonce, coordinator,
                     supervisor, worker, sessions, keyed, checking, retrying, stopped,
                     overlapped, agreed, calls>>
  BY DEF joinWorker, history
<1>2. isRunning = FALSE
  BY <1>1 DEF CoreInv, BusyMeansWorking, ServiceTypeOK
<1>3. UNCHANGED isRunning
  BY <1>1, <1>2
<1>4. ServiceTypeOK' /\ HistoryTypeOK' /\ ConfirmedInv'
  BY <1>1, <1>3 DEF CoreInv, ServiceTypeOK, HistoryTypeOK, ConfirmedInv
<1> QED
  BY <1>1, <1>3, <1>4, Apart DEF CoreInv

-----------------------------------------------------------------------------
(* The worker.                                                              *)

(* A failed preparation leaves no coordinator behind.                        *)
LEMMA FailKeeps == ASSUME CoreInv, UNCHANGED history, failPreparation PROVE CoreInv'
<1>1. /\ worker.at = "preparing" /\ publishAs("faulted", 0, snapshot.hasHazard)
      /\ worker' = [worker EXCEPT !.at = "clearing"]
      /\ UNCHANGED <<configuration, confirmation, nextNonce, isRunning, coordinator, supervisor,
                     sessions, keyed, checking, retrying, stopped, overlapped, agreed, calls>>
  BY DEF failPreparation, history
<1>2. snapshot.hasHazard \in BOOLEAN /\ 0 \in 0 .. MaxSessions
  BY BoundsAssumption DEF CoreInv, ServiceTypeOK, Snapshots
<1>3. snapshot' \in Snapshots /\ isNew' \in BOOLEAN
  BY <1>1, <1>2, PublishType, PublishedStates
<1>4. /\ worker' \in Workers /\ worker'.at = "clearing"
      /\ worker'.session = worker.session /\ worker'.rig = worker.rig
  BY <1>1 DEF CoreInv, ServiceTypeOK, Workers
<1>5. ServiceTypeOK'
  BY <1>1, <1>3, <1>4 DEF CoreInv, ServiceTypeOK
<1>6. HistoryTypeOK' /\ ConfirmedInv' /\ BusyMeansWorking'
  BY <1>1, <1>4 DEF CoreInv, HistoryTypeOK, ConfirmedInv, BusyMeansWorking
<1>7. WorkerInv' /\ RecordInv'
  BY <1>1, <1>4 DEF CoreInv, WorkerInv, RecordInv, InSession
<1>8. RetryInv' /\ KeyedInv' /\ StopInv'
  BY <1>1, <1>4 DEF CoreInv, RetryInv, KeyedInv, StopInv
<1> QED
  BY <1>5, <1>6, <1>7, <1>8 DEF CoreInv

(* A new coordinator: its record is clear, and no retry can hold it yet.       *)
LEMMA InstallKeeps == ASSUME CoreInv, UNCHANGED history, install PROVE CoreInv'
<1>1. /\ worker.at = "preparing" /\ coordinator' = current /\ supervisor' = worker.rig
      /\ sessions' = [sessions EXCEPT ![current] = NewCoordinator(worker.rig)]
      /\ worker' = [worker EXCEPT !.at = "starting"]
      /\ UNCHANGED <<snapshot, isNew, configuration, confirmation, nextNonce, isRunning, keyed,
                     checking, retrying, stopped, overlapped, agreed, calls>>
  BY DEF install, history
<1>2. current \in Sessions /\ worker.rig \in Rigs /\ current = worker.session
      /\ coordinator < current /\ coordinator \in 0 .. MaxSessions
      /\ current \in 0 .. MaxSessions
  BY <1>1 DEF CoreInv, WorkerInv, ServiceTypeOK, Workers, current, Sessions
<1>3. /\ worker' \in Workers /\ worker'.at = "starting"
      /\ worker'.session = worker.session /\ worker'.rig = worker.rig
  BY <1>1 DEF CoreInv, ServiceTypeOK, Workers
<1>4. NewCoordinator(worker.rig) \in Coordinators
  BY <1>2 DEF NewCoordinator, Coordinators, MaybeRig, SessionStates, Outcomes
<1>5. /\ sessions' \in [Sessions -> Coordinators]
      /\ sessions'[current].rig = worker.rig /\ sessions'[current].outcome = "none"
      /\ sessions'[current].record = FALSE
      /\ \A s \in Sessions : s # current => sessions'[s] = sessions[s]
  BY <1>1, <1>2, <1>4 DEF CoreInv, ServiceTypeOK, NewCoordinator
<1>6. ServiceTypeOK'
  BY <1>1, <1>2, <1>3, <1>5 DEF CoreInv, ServiceTypeOK, MaybeRig
<1>7. HistoryTypeOK' /\ ConfirmedInv' /\ BusyMeansWorking'
  BY <1>1, <1>3 DEF CoreInv, HistoryTypeOK, ConfirmedInv, BusyMeansWorking
<1>8. current' = current
  BY <1>3 DEF current
<1>9. WorkerInv'
  BY <1>1, <1>2, <1>3, <1>5, <1>8 DEF CoreInv, WorkerInv
<1>10. RecordInv'
  BY <1>1, <1>2, <1>3, <1>5, <1>8 DEF CoreInv, RecordInv, InSession
<1>11. RetryInv'
  BY <1>1, <1>2, <1>3 DEF CoreInv, RetryInv, ServiceTypeOK, Retries
<1>12. StopInv'
  BY <1>1, <1>2, <1>3, <1>5 DEF CoreInv, StopInv
<1>13. KeyedInv'
  BY <1>1, <1>2, <1>5 DEF CoreInv, KeyedInv, RecordInv
<1> QED
  BY <1>6, <1>7, <1>9, <1>10, <1>11, <1>12, <1>13 DEF CoreInv

(* The steps of a session change its coordinator only.  What each does to its   *)
(* record and to its rig decides whether a rig that is on stays recorded.       *)
LEMMA SessionKeeps ==
  ASSUME CoreInv, UNCHANGED history, sessionFrame,
         worker.at \in {"starting", "running", "ending"},
         worker' = [worker EXCEPT !.at = worker'.at],
         worker'.at \in {"running", "ending", "publishing"},
         sessions'[current] \in Coordinators,
         sessions' = [sessions EXCEPT ![current] = sessions'[current]],
         sessions'[current].rig = sessions[current].rig,
         worker'.at = "publishing" <=> sessions'[current].outcome # "none",
         sessions'[current].state \in {"preparing", "checking"} /\ worker'.at = "running"
           => ~sessions'[current].record,
         worker.at # "starting" => sessions'[current].stop = sessions[current].stop,
         worker'.at = "ending" =>
           \/ sessions'[current].wasCancelled
           \/ sessions'[current].state = "preparing"
           \/ (sessions[current].stop = "no" /\ worker.at # "starting"),
         sessions'[current].outcome = "completed" =>
           /\ worker.at = "ending"
           /\ ~sessions[current].wasCancelled /\ sessions[current].state # "preparing",
         keyed' \subseteq keyed \cup {worker.rig},
         worker.rig \in keyed' => worker.rig \in keyed \/ sessions'[current].record,
         sessions[current].record /\ ~sessions'[current].record => worker.rig \notin keyed'
  PROVE  CoreInv'
<1>1. UNCHANGED <<snapshot, isNew, configuration, confirmation, nextNonce, isRunning, coordinator,
                  supervisor, checking, retrying, stopped, overlapped, agreed, calls>>
  BY DEF sessionFrame, serviceVars, history
<1>2. /\ current \in Sessions /\ worker.rig \in Rigs /\ current = worker.session
      /\ coordinator = current /\ sessions[current].rig = worker.rig
      /\ sessions[current].outcome = "none"
  BY DEF CoreInv, WorkerInv, current
<1>3. /\ worker' \in Workers /\ worker'.session = worker.session /\ worker'.rig = worker.rig
  BY DEF CoreInv, ServiceTypeOK, Workers
<1>4. /\ sessions' \in [Sessions -> Coordinators]
      /\ \A s \in Sessions : s # current => sessions'[s] = sessions[s]
  BY <1>2 DEF CoreInv, ServiceTypeOK
<1>5. ServiceTypeOK'
  BY <1>1, <1>2, <1>3, <1>4 DEF CoreInv, ServiceTypeOK
<1>6. HistoryTypeOK' /\ ConfirmedInv' /\ BusyMeansWorking'
  BY <1>1, <1>3 DEF CoreInv, HistoryTypeOK, ConfirmedInv, BusyMeansWorking
<1>7. current' = current
  BY <1>3 DEF current
<1>8. WorkerInv'
  BY <1>1, <1>2, <1>3, <1>4, <1>7 DEF CoreInv, WorkerInv
<1>9. RecordInv'
  BY <1>1, <1>2, <1>3, <1>4, <1>7 DEF CoreInv, RecordInv, InSession, ServiceTypeOK, Workers
<1>10. RetryInv'
  BY <1>1, <1>3 DEF CoreInv, RetryInv
<1>11. StopInv'
  <2> SUFFICES ASSUME NEW s \in Sessions, stopped[s] = "heard"
               PROVE  /\ s <= worker.session
                      /\ s = worker.session => worker'.at \notin {"preparing", "starting"}
                      /\ sessions'[s].outcome = "none" => sessions'[s].stop # "no"
                      /\ s = worker.session /\ worker'.at = "ending" =>
                           sessions'[s].wasCancelled \/ sessions'[s].state = "preparing"
                      /\ sessions'[s].outcome # "completed"
    BY <1>1, <1>3 DEF StopInv
  <2>1. CASE s = current
    BY <1>2, <2>1 DEF CoreInv, StopInv
  <2>2. CASE s # current
    BY <1>2, <1>4, <2>2 DEF CoreInv, StopInv
  <2> QED
    BY <2>1, <2>2
<1>12. KeyedInv'
  <2> SUFFICES ASSUME NEW rig \in keyed'
               PROVE  \E s \in Sessions : sessions'[s].rig = rig /\ sessions'[s].record
    BY DEF KeyedInv
  <2>1. CASE rig \in keyed
    <3>1. PICK s \in Sessions : sessions[s].rig = rig /\ sessions[s].record
      BY <2>1 DEF CoreInv, KeyedInv
    <3> QED
      BY <1>2, <1>4, <3>1
  <2>2. CASE rig \notin keyed
    BY <1>2, <2>2
  <2> QED
    BY <2>1, <2>2
<1> QED
  BY <1>5, <1>6, <1>8, <1>9, <1>10, <1>11, <1>12 DEF CoreInv

(* What is known of the coordinator of the session that runs.                 *)
LEMMA CurrentCoordinator ==
  ASSUME CoreInv, worker.at \in {"starting", "running", "ending"}
  PROVE  /\ current \in Sessions /\ current = worker.session
         /\ sessions[current] \in Coordinators /\ sessions \in [Sessions -> Coordinators]
         /\ sessions[current].rig = worker.rig /\ sessions[current].outcome = "none"
         /\ worker \in Workers /\ worker.rig \in Rigs
         /\ worker.at = "starting" \/ InSession({"preparing", "checking"})
              => sessions[current].record = FALSE
<1>1. /\ current \in Sessions /\ current = worker.session
      /\ sessions \in [Sessions -> Coordinators] /\ worker \in Workers
      /\ sessions[current].rig = worker.rig /\ sessions[current].outcome = "none"
      /\ worker.rig \in Rigs
  BY DEF CoreInv, WorkerInv, ServiceTypeOK, current
<1>2. sessions[current] \in Coordinators /\ sessions[current].record \in BOOLEAN
  BY <1>1 DEF Coordinators
<1>3. worker.at = "starting" \/ InSession({"preparing", "checking"}) => ~sessions[current].record
  BY <1>1 DEF CoreInv, RecordInv, InSession
<1> QED
  BY <1>1, <1>2, <1>3

(* TransmitCoordinator::run() forgets a cancel that came before it.         *)
LEMMA BeginKeeps == ASSUME CoreInv, UNCHANGED history, beginSession PROVE CoreInv'
<1> DEFINE c == sessions[current]
           d == [c EXCEPT !.state = "preparing", !.stop = IF c.stop = "shutdown" THEN c.stop ELSE "no"]
<1>1. /\ worker.at = "starting" /\ worker' = [worker EXCEPT !.at = "running"]
      /\ sessions' = [sessions EXCEPT ![current] = d]
      /\ keyed' = keyed /\ sessionFrame
  BY DEF beginSession, sessionFrame
<1>2. d \in Coordinators /\ d.rig = c.rig /\ d.outcome = "none" /\ d.record = FALSE
  BY <1>1, CurrentCoordinator DEF Coordinators, SessionStates
<1>3. sessions'[current] = d /\ worker'.at = "running"
  BY <1>1, CurrentCoordinator DEF Workers
<1>4. c.record = FALSE
  BY <1>1, CurrentCoordinator
<1> HIDE DEF d
<1> QED
  BY <1>1, <1>2, <1>3, <1>4, SessionKeeps

(* The preflight changes no record.                                         *)
LEMMA PreflightKeeps == ASSUME CoreInv, UNCHANGED history, beginPreflight PROVE CoreInv'
<1> DEFINE c == sessions[current]
           d == [c EXCEPT !.state = "checking"]
<1>1. /\ worker.at = "running" /\ worker' = worker /\ c.state = "preparing"
      /\ sessions' = [sessions EXCEPT ![current] = d]
      /\ keyed' = keyed /\ sessionFrame
  BY DEF beginPreflight, InSession
<1>2. c.record = FALSE
  BY <1>1, CurrentCoordinator DEF InSession
<1>3. /\ d \in Coordinators /\ d.rig = c.rig /\ d.outcome = "none" /\ d.record = c.record
      /\ d.stop = c.stop
  BY <1>1, CurrentCoordinator DEF Coordinators, SessionStates
<1>4. sessions'[current] = d /\ worker' = [worker EXCEPT !.at = worker'.at]
  BY <1>1, CurrentCoordinator DEF Workers
<1> HIDE DEF d
<1> QED
  BY <1>1, <1>2, <1>3, <1>4, SessionKeeps

(* A rig that may be keyed is recorded in the same step.                    *)
LEMMA KeyKeeps == ASSUME CoreInv, UNCHANGED history, keyRig PROVE CoreInv'
<1> DEFINE c == sessions[current]
           d == [c EXCEPT !.state = "sending", !.record = TRUE, !.hasHazard = TRUE]
<1>1. /\ worker.at = "running" /\ worker' = worker
      /\ sessions' = [sessions EXCEPT ![current] = d]
      /\ keyed' \subseteq keyed \cup {worker.rig} /\ sessionFrame
  BY DEF keyRig, InSession
<1>2. /\ d \in Coordinators /\ d.rig = c.rig /\ d.outcome = "none" /\ d.record = TRUE
      /\ d.stop = c.stop /\ d.state = "sending"
  BY <1>1, CurrentCoordinator DEF Coordinators, SessionStates
<1>3. sessions'[current] = d /\ worker' = [worker EXCEPT !.at = worker'.at]
  BY <1>1, CurrentCoordinator DEF Workers
<1> HIDE DEF d
<1> QED
  BY <1>1, <1>2, <1>3, SessionKeeps

(* A session that leaves before the preflight has touched no rig.            *)
LEMMA LeaveEarlyKeeps == ASSUME CoreInv, UNCHANGED history, leaveEarly PROVE CoreInv'
<1>1. PICK wasCancelled \in {FALSE, sessions[current].stop # "no"} :
        sessions' = [sessions EXCEPT ![current].wasCancelled = wasCancelled]
  BY DEF leaveEarly
<1> DEFINE c == sessions[current]
           d == [c EXCEPT !.wasCancelled = wasCancelled]
<1>2. /\ worker.at = "running" /\ worker' = [worker EXCEPT !.at = "ending"]
      /\ c.state = "preparing"
      /\ sessions' = [sessions EXCEPT ![current] = d]
      /\ keyed' = keyed /\ sessionFrame
  BY <1>1 DEF leaveEarly, InSession
<1>3. wasCancelled \in BOOLEAN
  BY <1>1
<1>4. /\ d \in Coordinators /\ d.rig = c.rig /\ d.outcome = "none" /\ d.record = c.record
      /\ d.stop = c.stop /\ d.state = "preparing"
  BY <1>2, <1>3, CurrentCoordinator DEF Coordinators
<1>5. sessions'[current] = d /\ worker'.at = "ending"
  BY <1>2, CurrentCoordinator DEF Workers
<1> HIDE DEF d
<1> QED
  BY <1>2, <1>4, <1>5, SessionKeeps

(* The record is cleared only when the rig is off, and the look at the flags    *)
(* keeps what was asked until then.                                         *)
LEMMA LookKeeps == ASSUME CoreInv, UNCHANGED history, lookLast PROVE CoreInv'
<1>1. PICK isOff \in BOOLEAN :
        /\ keyed' \in IF isOff THEN {keyed \ {worker.rig}} ELSE {keyed, keyed \ {worker.rig}}
        /\ sessions' = [sessions EXCEPT ![current].record = ~isOff,
                          ![current].wasCancelled = sessions[current].stop # "no"]
  BY DEF lookLast
<1> DEFINE c == sessions[current]
           d == [c EXCEPT !.record = ~isOff, !.wasCancelled = (c.stop # "no")]
<1>2. /\ worker.at = "running" /\ worker' = [worker EXCEPT !.at = "ending"]
      /\ sessions' = [sessions EXCEPT ![current] = d]
      /\ sessionFrame
  BY <1>1 DEF lookLast, InSession
<1>3. (~isOff) \in BOOLEAN /\ (c.stop # "no") \in BOOLEAN
  OBVIOUS
<1>4. /\ d \in Coordinators /\ d.rig = c.rig /\ d.outcome = "none" /\ d.stop = c.stop
      /\ d.record <=> ~isOff
      /\ d.wasCancelled <=> c.stop # "no"
  BY <1>2, <1>3, CurrentCoordinator DEF Coordinators
<1>5. sessions'[current] = d /\ worker'.at = "ending"
  BY <1>2, CurrentCoordinator DEF Workers
<1>6. keyed' \subseteq keyed /\ (isOff => worker.rig \notin keyed')
  BY <1>1
<1> HIDE DEF d
<1> QED
  BY <1>2, <1>4, <1>5, <1>6, SessionKeeps

(* What the session saw decides, and not what the flags say by now.           *)
LEMMA EndKeeps ==
  ASSUME CoreInv, UNCHANGED history,
         NEW outcome \in {"completed", "cancelled", "faulted", "hazardous"}, endSession(outcome)
  PROVE  CoreInv'
<1> DEFINE c == sessions[current]
           last == CASE outcome = "completed" -> "idle"
                     [] outcome = "cancelled" -> "cancelled"
                     [] OTHER -> "faulted"
           d == [c EXCEPT !.state = last, !.hasHazard = (outcome = "hazardous"),
                          !.wasCancelled = FALSE, !.outcome = outcome]
<1>1. /\ worker.at = "ending" /\ worker' = [worker EXCEPT !.at = "publishing"]
      /\ sessions' = [sessions EXCEPT ![current] = d]
      /\ keyed' = keyed /\ sessionFrame
      /\ outcome = "hazardous" <=> c.record
      /\ outcome = "cancelled" <=> c.wasCancelled /\ ~c.record
      /\ outcome = "completed" => c.state = "sending"
  BY DEF endSession
<1>2. last \in SessionStates
  BY DEF SessionStates
<1> HIDE DEF last
<1>3. /\ d \in Coordinators /\ d.rig = c.rig /\ d.outcome = outcome
      /\ d.record = c.record /\ d.stop = c.stop
  BY <1>1, <1>2, CurrentCoordinator DEF Coordinators, Outcomes
<1>4. sessions'[current] = d /\ worker'.at = "publishing"
  BY <1>1, CurrentCoordinator DEF Workers
<1>5. outcome = "completed" => ~c.wasCancelled /\ c.state # "preparing"
  BY <1>1
<1> HIDE DEF d
<1> QED
  BY <1>1, <1>3, <1>4, <1>5, SessionKeeps

(* A session that an exception ends clears its record only when its rig is off. *)
LEMMA ThrowKeeps == ASSUME CoreInv, UNCHANGED history, throwOut PROVE CoreInv'
<1>1. PICK isOff \in {FALSE, InSession({"sending"})} :
        /\ keyed' = IF isOff THEN keyed \ {worker.rig} ELSE keyed
        /\ sessions' = [sessions EXCEPT ![current].record = @ /\ ~isOff,
                          ![current].wasCancelled = FALSE, ![current].outcome = "thrown"]
  BY DEF throwOut
<1> DEFINE c == sessions[current]
           d == [c EXCEPT !.record = (c.record /\ ~isOff), !.wasCancelled = FALSE,
                          !.outcome = "thrown"]
<1>2. /\ worker.at \in {"running", "ending"} /\ worker' = [worker EXCEPT !.at = "publishing"]
      /\ sessions' = [sessions EXCEPT ![current] = d]
      /\ sessionFrame
  BY <1>1 DEF throwOut
<1>3. (c.record /\ ~isOff) \in BOOLEAN
  OBVIOUS
<1>4. /\ d \in Coordinators /\ d.rig = c.rig /\ d.outcome = "thrown" /\ d.stop = c.stop
      /\ d.record <=> (c.record /\ ~isOff)
  BY <1>2, <1>3, CurrentCoordinator DEF Coordinators, Outcomes
<1>5. sessions'[current] = d /\ worker'.at = "publishing"
  BY <1>2, CurrentCoordinator DEF Workers
<1>6. keyed' \subseteq keyed /\ (isOff => worker.rig \notin keyed')
  BY <1>1
<1> HIDE DEF d
<1> QED
  BY <1>2, <1>4, <1>5, <1>6, SessionKeeps

(* What the worker publishes is a state of the service.                     *)
LEMMA OutcomeKeeps == ASSUME CoreInv, UNCHANGED history, publishOutcome PROVE CoreInv'
<1> DEFINE outcome == sessions[current].outcome
<1>1. /\ worker.at = "publishing" /\ worker' = [worker EXCEPT !.at = "clearing"]
      /\ IF outcome = "thrown" THEN publishAs("faulted", 0, snapshot.hasHazard)
         ELSE publishAs(outcome, current, sessions[current].hasHazard)
      /\ UNCHANGED <<configuration, confirmation, nextNonce, isRunning, coordinator, supervisor,
                     sessions, keyed, checking, retrying, stopped, overlapped, agreed, calls>>
  BY DEF publishOutcome, history
<1>2. /\ current \in Sessions /\ outcome \in Outcomes \ {"none"} /\ current = worker.session
      /\ sessions[current].hasHazard \in BOOLEAN /\ snapshot.hasHazard \in BOOLEAN
      /\ current \in 0 .. MaxSessions /\ 0 \in 0 .. MaxSessions
  BY <1>1, BoundsAssumption DEF CoreInv, WorkerInv, ServiceTypeOK, Coordinators, Snapshots, Sessions, current
<1>3. snapshot' \in Snapshots /\ isNew' \in BOOLEAN
  <2>1. CASE outcome = "thrown"
    BY <1>1, <1>2, <2>1, PublishType, PublishedStates
  <2>2. CASE outcome # "thrown"
    <3>1. outcome \in ServiceStates
      BY <1>2, <2>2, PublishedStates
    <3> HIDE DEF outcome
    <3> QED
      BY <1>1, <1>2, <2>2, <3>1, PublishType
  <2> QED
    BY <2>1, <2>2
<1>4. /\ worker' \in Workers /\ worker'.at = "clearing"
      /\ worker'.session = worker.session /\ worker'.rig = worker.rig
  BY <1>1 DEF CoreInv, ServiceTypeOK, Workers
<1>5. ServiceTypeOK'
  BY <1>1, <1>3, <1>4 DEF CoreInv, ServiceTypeOK
<1>6. HistoryTypeOK' /\ ConfirmedInv' /\ BusyMeansWorking'
  BY <1>1, <1>4 DEF CoreInv, HistoryTypeOK, ConfirmedInv, BusyMeansWorking
<1>7. WorkerInv' /\ RecordInv'
  BY <1>1, <1>4 DEF CoreInv, WorkerInv, RecordInv, InSession
<1>8. RetryInv' /\ KeyedInv' /\ StopInv'
  BY <1>1, <1>4 DEF CoreInv, RetryInv, KeyedInv, StopInv
<1> QED
  BY <1>5, <1>6, <1>7, <1>8 DEF CoreInv

(* The worker is over when it has stored isRunning_.                        *)
LEMMA ClearKeeps == ASSUME CoreInv, UNCHANGED history, clearRunning PROVE CoreInv'
<1>1. /\ worker.at = "clearing" /\ worker' = [worker EXCEPT !.at = "done"] /\ isRunning' = FALSE
      /\ UNCHANGED <<snapshot, isNew, configuration, confirmation, nextNonce, coordinator, supervisor,
                     sessions, keyed, checking, retrying, stopped, overlapped, agreed, calls>>
  BY DEF clearRunning, history
<1>2. /\ worker' \in Workers /\ worker'.at = "done"
      /\ worker'.session = worker.session /\ worker'.rig = worker.rig
  BY <1>1 DEF CoreInv, ServiceTypeOK, Workers
<1>3. isRunning' \in BOOLEAN
  BY <1>1
<1>4. ServiceTypeOK'
  BY <1>1, <1>2, <1>3 DEF CoreInv, ServiceTypeOK
<1>5. HistoryTypeOK' /\ ConfirmedInv' /\ BusyMeansWorking'
  BY <1>1, <1>2 DEF CoreInv, HistoryTypeOK, ConfirmedInv, BusyMeansWorking
<1>6. WorkerInv' /\ RecordInv'
  BY <1>1, <1>2 DEF CoreInv, WorkerInv, RecordInv, InSession
<1>7. RetryInv' /\ KeyedInv' /\ StopInv'
  BY <1>1, <1>2 DEF CoreInv, RetryInv, KeyedInv, StopInv
<1> QED
  BY <1>4, <1>5, <1>6, <1>7 DEF CoreInv

(* Together, the worker.                                                    *)
LEMMA WorkerKeeps == ASSUME CoreInv, UNCHANGED history, WorkerStep PROVE CoreInv'
BY FailKeeps, InstallKeeps, BeginKeeps, PreflightKeeps, KeyKeeps, LeaveEarlyKeeps, LookKeeps,
   EndKeeps, ThrowKeeps, OutcomeKeeps, ClearKeeps DEF WorkerStep

-----------------------------------------------------------------------------
(* Checks and retries, on threads of the pool.                               *)

(* A check begins outside the service.                                      *)
LEMMA CallCheckKeeps == ASSUME CoreInv, NEW rig \in Rigs, CallCheck(rig) PROVE CoreInv'
<1>1. /\ checking' = rig
      /\ calls < MaxCalls /\ calls' = calls + 1
      /\ UNCHANGED <<snapshot, isNew, configuration, confirmation, nextNonce, isRunning, coordinator,
                     supervisor, worker, sessions, keyed, retrying, stopped, overlapped, agreed>>
  BY DEF CallCheck, callCheck, checkFrame, count
<1>2. ServiceTypeOK'
  BY <1>1 DEF CoreInv, ServiceTypeOK, MaybeRig
<1>3. HistoryTypeOK' /\ ConfirmedInv'
  BY <1>1, MaxCallsAssumption DEF CoreInv, HistoryTypeOK, ConfirmedInv
<1> QED
  BY <1>1, <1>2, <1>3, Apart DEF CoreInv

(* Its report changes the snapshot and the supervisor only.                 *)
LEMMA ReportCheckKeeps == ASSUME CoreInv, UNCHANGED history, reportCheck PROVE CoreInv'
<1>1. /\ checking' = NoRig
      /\ \/ UNCHANGED <<snapshot, isNew, supervisor>>
         \/ supervisor' = checking /\ publishAs("hazardous", snapshot.session, TRUE)
      /\ UNCHANGED <<configuration, confirmation, nextNonce, isRunning, coordinator,
                     worker, sessions, keyed, retrying, stopped, overlapped, agreed, calls>>
  BY DEF reportCheck, checkFrame, history
<1>2. snapshot.session \in 0 .. MaxSessions
  BY DEF CoreInv, ServiceTypeOK, Snapshots
<1>3. /\ snapshot' \in Snapshots /\ isNew' \in BOOLEAN
      /\ supervisor' \in MaybeRig /\ checking' \in MaybeRig
  <2>1. CASE UNCHANGED <<snapshot, isNew, supervisor>>
    BY <1>1, <2>1 DEF CoreInv, ServiceTypeOK, MaybeRig
  <2>2. CASE supervisor' = checking /\ publishAs("hazardous", snapshot.session, TRUE)
    <3>1. snapshot' \in Snapshots /\ isNew' \in BOOLEAN
      BY <1>2, <2>2, PublishType, PublishedStates
    <3> QED
      BY <1>1, <2>2, <3>1 DEF CoreInv, ServiceTypeOK, MaybeRig
  <2> QED
    BY <1>1, <2>1, <2>2
<1>4. ServiceTypeOK' /\ HistoryTypeOK' /\ ConfirmedInv'
  BY <1>1, <1>3 DEF CoreInv, ServiceTypeOK, HistoryTypeOK, ConfirmedInv
<1> QED
  BY <1>1, <1>4, Apart DEF CoreInv

(* What a retry that only moves on leaves: the coordinator it holds is of the   *)
(* service, and none whose session runs when it unkeys.                      *)
LEMMA RetryMoves ==
  ASSUME CoreInv, HistoryTypeOK',
         UNCHANGED <<configuration, confirmation, nextNonce, isRunning, coordinator, supervisor,
                     worker, checking, sessions, keyed, stopped, overlapped, agreed>>,
         snapshot' \in Snapshots, isNew' \in BOOLEAN, retrying' \in Retries, RetryInv'
  PROVE  CoreInv'
<1>1. ServiceTypeOK' /\ ConfirmedInv' /\ BusyMeansWorking'
  BY DEF CoreInv, ServiceTypeOK, ConfirmedInv, BusyMeansWorking
<1>2. WorkerInv' /\ RecordInv' /\ StopInv' /\ KeyedInv'
  BY DEF CoreInv, WorkerInv, RecordInv, StopInv, KeyedInv, InSession, current
<1> QED
  BY <1>1, <1>2 DEF CoreInv

(* A retry reads the coordinator that is installed.                         *)
LEMMA CallRetryKeeps == ASSUME CoreInv, CallRetry PROVE CoreInv'
<1>1. /\ retrying' = [at |-> "read", session |-> coordinator, rig |-> supervisor]
      /\ calls < MaxCalls /\ calls' = calls + 1
      /\ UNCHANGED <<snapshot, isNew, configuration, confirmation, nextNonce, isRunning, coordinator,
                     supervisor, worker, sessions, keyed, checking, stopped, overlapped, agreed>>
  BY DEF CallRetry, callRetry, retryFrame, count
<1>2. retrying' \in Retries /\ RetryInv'
  BY <1>1 DEF CoreInv, ServiceTypeOK, Retries, RetryInv
<1>3. HistoryTypeOK' /\ snapshot' \in Snapshots /\ isNew' \in BOOLEAN
  BY <1>1, MaxCallsAssumption DEF CoreInv, HistoryTypeOK, ServiceTypeOK
<1> QED
  BY <1>1, <1>2, <1>3, RetryMoves

(* The value of a retry that is over.                                       *)
LEMMA NoRetryType == NoRetry \in Retries
BY BoundsAssumption DEF NoRetry, Retries, MaybeRig

(* It goes on only when no session runs.                                    *)
LEMMA EnterRetryKeeps == ASSUME CoreInv, UNCHANGED history, enterRetry PROVE CoreInv'
<1>1. /\ retrying.at = "read"
      /\ retrying' = IF isRunning THEN NoRetry ELSE [retrying EXCEPT !.at = "unkeying"]
      /\ UNCHANGED <<snapshot, isNew, configuration, confirmation, nextNonce, isRunning, coordinator,
                     supervisor, worker, sessions, keyed, checking, stopped, overlapped, agreed, calls>>
  BY DEF enterRetry, retryFrame, history
<1>2. retrying' \in Retries
  BY <1>1, NoRetryType DEF CoreInv, ServiceTypeOK, Retries
<1>3. RetryInv'
  BY <1>1 DEF CoreInv, ServiceTypeOK, Retries, RetryInv, NoRetry
<1>4. HistoryTypeOK' /\ snapshot' \in Snapshots /\ isNew' \in BOOLEAN
  BY <1>1 DEF CoreInv, HistoryTypeOK, ServiceTypeOK
<1> QED
  BY <1>1, <1>2, <1>3, <1>4, RetryMoves

(* Its report changes the snapshot only.                                    *)
LEMMA ReportRetryKeeps == ASSUME CoreInv, UNCHANGED history, reportRetry PROVE CoreInv'
<1>1. /\ publishAs("faulted", snapshot.session, FALSE)
      /\ retrying' = NoRetry
      /\ UNCHANGED <<configuration, confirmation, nextNonce, isRunning, coordinator,
                     supervisor, worker, sessions, keyed, checking, stopped, overlapped, agreed, calls>>
  BY DEF reportRetry, retryFrame, history
<1>2. retrying' \in Retries /\ RetryInv'
  BY <1>1, NoRetryType DEF RetryInv, NoRetry
<1>3. snapshot.session \in 0 .. MaxSessions
  BY DEF CoreInv, ServiceTypeOK, Snapshots
<1>4. snapshot' \in Snapshots /\ isNew' \in BOOLEAN
  BY <1>1, <1>3, PublishType, PublishedStates
<1>5. HistoryTypeOK'
  BY <1>1 DEF CoreInv, HistoryTypeOK
<1> QED
  BY <1>1, <1>2, <1>4, <1>5, RetryMoves

(* The retry takes a rig off the keyed ones before it clears the record, and   *)
(* the record is not one that a running session relies on.                   *)
LEMMA UnkeyRetryKeeps ==
  ASSUME CoreInv, UNCHANGED history, NEW isOff \in BOOLEAN, unkeyRetry(isOff)
  PROVE  CoreInv'
<1>1. /\ retrying.at = "unkeying"
      /\ keyed' \in IF isOff THEN {keyed \ {RetryRig}} ELSE {keyed, keyed \ {RetryRig}}
      /\ sessions' = [s \in Sessions |->
           IF s = retrying.session THEN [sessions[s] EXCEPT !.record = ~isOff] ELSE sessions[s]]
      /\ retrying' = IF isOff THEN [retrying EXCEPT !.at = "reporting"] ELSE NoRetry
      /\ UNCHANGED <<snapshot, isNew, configuration, confirmation, nextNonce, isRunning, coordinator,
                     supervisor, worker, checking, stopped, overlapped, agreed, calls>>
  BY DEF unkeyRetry, retryFrame, history
<1>0. (~isOff) \in BOOLEAN
  OBVIOUS
<1>2. \A s \in Sessions :
        /\ sessions'[s] \in Coordinators
        /\ sessions'[s].rig = sessions[s].rig /\ sessions'[s].state = sessions[s].state
        /\ sessions'[s].outcome = sessions[s].outcome /\ sessions'[s].stop = sessions[s].stop
        /\ sessions'[s].wasCancelled = sessions[s].wasCancelled
        /\ s # retrying.session => sessions'[s].record = sessions[s].record
        /\ s = retrying.session => (sessions'[s].record <=> ~isOff)
  BY <1>0, <1>1 DEF CoreInv, ServiceTypeOK, Coordinators
<1>3. keyed' \subseteq keyed /\ (isOff => RetryRig \notin keyed')
  BY <1>1
<1>4. retrying' \in Retries
  BY <1>1, NoRetryType DEF CoreInv, ServiceTypeOK, Retries
<1>5. RetryInv'
  BY <1>1 DEF CoreInv, ServiceTypeOK, Retries, RetryInv, NoRetry
<1>6. ServiceTypeOK'
  BY <1>1, <1>2, <1>3, <1>4 DEF CoreInv, ServiceTypeOK
<1>7. HistoryTypeOK' /\ ConfirmedInv' /\ BusyMeansWorking'
  BY <1>1 DEF CoreInv, HistoryTypeOK, ConfirmedInv, BusyMeansWorking
<1>8. /\ retrying.session <= worker.session
      /\ worker.at \in {"preparing", "starting", "running", "ending"} =>
           retrying.session # worker.session
      /\ retrying.session \in 0 .. MaxSessions /\ worker.session \in 0 .. MaxSessions
  BY <1>1 DEF CoreInv, RetryInv, WorkerInv, BusyMeansWorking, ServiceTypeOK, Workers, Retries
<1>9. worker.at \in {"preparing", "starting", "running", "ending", "publishing"} => worker.session \in Sessions
  BY DEF CoreInv, WorkerInv
<1>10. WorkerInv'
  BY <1>1, <1>2, <1>9 DEF CoreInv, WorkerInv, current
<1>11. RecordInv'
  BY <1>1, <1>2, <1>8, <1>9 DEF CoreInv, RecordInv, InSession, current, Sessions
<1>12. StopInv'
  BY <1>1, <1>2 DEF CoreInv, StopInv
<1>13. KeyedInv'
  <2> SUFFICES ASSUME NEW rig \in keyed'
               PROVE  \E s \in Sessions : sessions'[s].rig = rig /\ sessions'[s].record
    BY DEF KeyedInv
  <2>1. PICK s \in Sessions : sessions[s].rig = rig /\ sessions[s].record
    BY <1>3 DEF CoreInv, KeyedInv
  <2>2. s = retrying.session => RetryRig = rig
    BY <2>1, BoundsAssumption DEF RetryRig, Sessions
  <2>3. s = retrying.session => ~isOff
    BY <1>3, <2>2
  <2> QED
    BY <1>2, <2>1, <2>3
<1> QED
  BY <1>5, <1>6, <1>7, <1>10, <1>11, <1>12, <1>13 DEF CoreInv

(* A poll of the window.                                                    *)
LEMMA IdleKeeps == ASSUME CoreInv, Idle PROVE CoreInv'
<1>1. isNew' \in BOOLEAN
  BY DEF CoreInv, ServiceTypeOK, Idle
<1>2. ServiceTypeOK' /\ HistoryTypeOK' /\ ConfirmedInv'
  BY <1>1 DEF CoreInv, ServiceTypeOK, HistoryTypeOK, ConfirmedInv, Idle, history
<1> QED
  BY <1>2, Apart DEF CoreInv, Idle, history

(* A check looks at isRunning_ first, so that one which reports while a session *)
(* runs was called before it started; start() itself refuses a hazard.        *)
LEMMA OverlapStep == ASSUME CoreInv, OverlapInv, ServiceStep PROVE OverlapInv'
<1> USE DEF OverlapInv
<1> DEFINE busy == {"preparing", "starting", "running", "ending", "publishing"}
<1>1. ASSUME UNCHANGED <<overlapped, checking>>, isRunning' => isRunning,
             worker'.at \in busy => worker.at \in busy /\ (snapshot'.hasHazard => snapshot.hasHazard)
      PROVE  OverlapInv'
  BY <1>1
<1>2. \A state, session, hasHazard :
        publishAs(state, session, hasHazard) => snapshot'.hasHazard = hasHazard
  BY DEF publishAs
<1>3. \A state : setState(state) => snapshot'.hasHazard = snapshot.hasHazard
  BY <1>2 DEF setState
<1>4. \A at : worker' = [worker EXCEPT !.at = at] => worker'.at = at
  <2>1. worker \in Workers
    BY DEF CoreInv, ServiceTypeOK
  <2> QED
    BY <2>1 DEF Workers
<1>5. CASE \E rig \in Rigs : Configure(rig)
  <2>1. ~snapshot'.hasHazard
    BY <1>5 DEF Configure, configure, publishAs
  <2> QED
    BY <1>1, <1>5, <2>1 DEF Configure, configure, history
<1>6. CASE Confirm \/ RequestCancel \/ CallRetry
  BY <1>1, <1>3, <1>6 DEF Confirm, confirm, RequestCancel, requestCancel, CallRetry, callRetry,
     retryFrame, count
<1>7. CASE \E rig \in Rigs : CallCheck(rig)
  BY <1>7 DEF CallCheck, callCheck, checkFrame, count, CoreInv, BusyMeansWorking
<1>8. CASE \E nonce \in 0 .. MaxNonces : Start(nonce)
  <2>1. /\ overlapped' = (checking # NoRig) /\ checking' = checking
        /\ ~snapshot.hasHazard /\ setState("checkingPtt")
    BY <1>8 DEF Start, start, isStartable
  <2> QED
    BY <1>3, <2>1
<1>9. CASE UNCHANGED history /\ (shutdownCoordinator \/ joinWorker)
  BY <1>1, <1>9 DEF shutdownCoordinator, joinWorker, serviceVars, history
<1>10. CASE UNCHANGED history /\ (failPreparation \/ install \/ publishOutcome \/ clearRunning)
  BY <1>1, <1>2, <1>4, <1>10 DEF failPreparation, install, publishOutcome, clearRunning, history
<1>11. CASE UNCHANGED history /\ (beginSession \/ beginPreflight \/ keyRig \/ leaveEarly
              \/ lookLast \/ throwOut
              \/ \E outcome \in {"completed", "cancelled", "faulted", "hazardous"} : endSession(outcome))
  <2>1. worker.at \in busy /\ sessionFrame
    BY <1>11 DEF beginSession, beginPreflight, keyRig, leaveEarly, lookLast, throwOut, endSession,
       InSession, sessionFrame
  <2> QED
    BY <1>1, <1>11, <2>1 DEF sessionFrame, serviceVars, history
<1>12. CASE UNCHANGED history /\ reportCheck
  BY <1>12 DEF reportCheck, checkFrame, history, CoreInv, BusyMeansWorking
<1>13. CASE UNCHANGED history /\ RetryStep
  BY <1>1, <1>2, <1>13 DEF RetryStep, enterRetry, unkeyRetry, reportRetry, retryFrame, history
<1>14. CASE Idle
  BY <1>1, <1>14 DEF Idle, history
<1> QED
  BY <1>5, <1>6, <1>7, <1>8, <1>9, <1>10, <1>11, <1>12, <1>13, <1>14 DEF ServiceStep, WorkerStep

(* Together, every step of the service.                                     *)
LEMMA CoreStep == ASSUME CoreInv, ServiceStep PROVE CoreInv'
<1>1. ASSUME UNCHANGED history, RetryStep PROVE CoreInv'
  BY <1>1, EnterRetryKeeps, UnkeyRetryKeeps, ReportRetryKeeps DEF RetryStep
<1> QED
  BY <1>1, ConfigureKeeps, CallCheckKeeps, ConfirmKeeps, CancelKeeps, CallRetryKeeps, StartKeeps,
     ShutdownKeeps, JoinKeeps, WorkerKeeps, ReportCheckKeeps, IdleKeeps DEF ServiceStep

-----------------------------------------------------------------------------
(* The owners.                                                              *)

(* Every step of an owner is one call or none.                               *)
LEMMA OwnersCall == ASSUME CoreInv, OwnerInv, [Next]_vars PROVE ServiceStep
<1>0. UNCHANGED <<vars0, history>> => Idle
  BY DEF Idle, vars0, serviceVars, history
<1>1. CASE FreeCall \/ FreeShutdown
  BY <1>1 DEF FreeCall, FreeShutdown, ServiceStep
<1>2. CASE CliConfigure \/ CliConfirm \/ CliStart \/ CliLeaveLoop \/ CliCancel
  BY <1>0, <1>2 DEF CliConfigure, CliConfirm, CliStart, CliLeaveLoop, CliCancel, ServiceStep, OwnerInv
<1>3. setError => Idle
  BY <1>0 DEF setError
<1>4. CASE GuiConfigure \/ GuiConfirm \/ GuiStart
  BY <1>3, <1>4 DEF GuiConfigure, GuiConfirm, GuiStart, ServiceStep, OwnerInv
<1>5. CASE GuiStop \/ GuiCheck \/ GuiRetry \/ GuiClose
  BY <1>0, <1>5 DEF GuiStop, GuiCheck, GuiRetry, GuiClose, ServiceStep
<1>6. CASE GuiPoll
  BY <1>6 DEF GuiPoll, Idle, ServiceStep
<1>7. CASE Leaving
  BY <1>7 DEF Leaving, GuiDestroy, EnterShutdown, ShutdownCoordinator, JoinWorker, ServiceStep
<1>8. CASE Background
  BY <1>8 DEF Background, ServiceStep
<1>9. CASE UNCHANGED vars
  BY <1>0, <1>9 DEF vars, ServiceStep
<1> QED
  BY <1>1, <1>2, <1>4, <1>5, <1>6, <1>7, <1>8, <1>9 DEF Next

(* A closed owner calls nothing, and its worker is over.                      *)
LEMMA OwnerStep == ASSUME CoreInv, OwnerInv, [Next]_vars PROVE OwnerInv'
<1> DEFINE OwnerType ==
      /\ owner \in Places /\ held \in 0 .. MaxNonces /\ cancellationSent \in BOOLEAN
      /\ gui \in [shown : {"inactive", "active", "terminal", "hazard"},
                  hasConfiguration : BOOLEAN, closePending : BOOLEAN]
<1>1. /\ OwnerType
      /\ 0 \in 0 .. MaxNonces
      /\ Places = {"free", "open", "confirmed", "configuring", "confirming", "starting",
                   "polling", "quitting", "draining", "shutting", "joining", "closed"}
  BY BoundsAssumption DEF OwnerInv, Places
<1>2. Confirm => nextNonce \in 0 .. MaxNonces
  BY BoundsAssumption DEF Confirm, confirm, CoreInv, ServiceTypeOK
<1>3. \A place \in Places : goTo(place) => OwnerType' /\ owner' = place
  BY <1>1 DEF goTo
<1>4. setError => OwnerType' /\ owner' = "open"
  BY <1>1 DEF setError
<1>5. UNCHANGED ownerVars => OwnerType' /\ owner' = owner
  BY <1>1 DEF ownerVars
<1> DEFINE Good == OwnerType' /\ (owner' = "closed" => worker'.at \in {"none", "done"})
<1>6. CASE FreeCall \/ FreeShutdown
  BY <1>1, <1>3, <1>5, <1>6 DEF FreeCall, FreeShutdown, OwnerInv
<1>7. CASE CliConfigure \/ CliStart \/ CliLeaveLoop
  BY <1>1, <1>3, <1>7 DEF CliConfigure, CliStart, CliLeaveLoop, OwnerInv
<1>8. CASE CliConfirm \/ CliCancel
  BY <1>1, <1>2, <1>8 DEF CliConfirm, CliCancel, OwnerInv
<1>9. CASE GuiConfigure \/ GuiConfirm \/ GuiStart
  BY <1>1, <1>2, <1>4, <1>9 DEF GuiConfigure, GuiConfirm, GuiStart, OwnerInv
<1>10. CASE GuiStop \/ GuiCheck \/ GuiRetry
  BY <1>5, <1>10 DEF GuiStop, GuiCheck, GuiRetry, OwnerInv
<1>11. CASE GuiClose
  BY <1>1, <1>3, <1>11 DEF GuiClose, OwnerInv
<1>12. CASE GuiPoll
  <2>1. shownState \in {"inactive", "active", "terminal", "hazard"}
    BY DEF shownState
  <2>2. (gui.closePending /\ ~(gui.closePending /\ shownState \in {"terminal", "hazard"})) \in BOOLEAN
    OBVIOUS
  <2> HIDE DEF shownState
  <2> QED
    BY <1>1, <1>12, <2>1, <2>2 DEF GuiPoll, OwnerInv
<1>13. CASE Leaving
  <2>1. CASE GuiDestroy \/ EnterShutdown \/ ShutdownCoordinator
    BY <1>1, <1>3, <2>1 DEF GuiDestroy, EnterShutdown, ShutdownCoordinator, OwnerInv
  <2>2. CASE JoinWorker
    BY <1>1, <1>3, <2>2 DEF JoinWorker, joinWorker, OwnerInv
  <2> QED
    BY <1>13, <2>1, <2>2 DEF Leaving
<1>14. CASE Background
  <2>1. OwnerType' /\ owner' = owner
    BY <1>5, <1>14 DEF Background
  <2>2. worker.at \in {"none", "done"} => worker' = worker
    BY <1>14 DEF Background, WorkerStep, failPreparation, install, beginSession, beginPreflight,
       keyRig, leaveEarly, lookLast, endSession, throwOut, publishOutcome, clearRunning, InSession, reportCheck,
       checkFrame, RetryStep, enterRetry, unkeyRetry, reportRetry, retryFrame
  <2> QED
    BY <2>1, <2>2 DEF OwnerInv
<1>15. CASE UNCHANGED vars
  BY <1>5, <1>15 DEF vars, vars0, OwnerInv
<1> QED
  BY <1>6, <1>7, <1>8, <1>9, <1>10, <1>11, <1>12, <1>13, <1>14, <1>15 DEF Next

-----------------------------------------------------------------------------
(* The promises.                                                            *)

(* IInv holds in every state the service reaches.                            *)
THEOREM InvCorrect == Spec => []IInv
<1>1. Init => IInv
  <2> SUFFICES ASSUME Init PROVE OwnerInv
    BY CoreInit DEF IInv
  <2>1. /\ owner \in {"free", "open", "configuring"} /\ held = 0 /\ cancellationSent = FALSE
        /\ gui = [shown |-> "inactive", hasConfiguration |-> FALSE, closePending |-> FALSE]
    BY DEF Init
  <2>2. cancellationSent \in BOOLEAN
    BY <2>1
  <2>3. held \in 0 .. MaxNonces
    BY <2>1, BoundsAssumption
  <2>4. gui \in [shown : {"inactive", "active", "terminal", "hazard"},
                 hasConfiguration : BOOLEAN, closePending : BOOLEAN]
    BY <2>1
  <2> QED
    BY <2>1, <2>2, <2>3, <2>4 DEF OwnerInv, Places
<1>2. IInv /\ [Next]_vars => IInv'
  BY OwnersCall, CoreStep, OverlapStep, OwnerStep DEF IInv
<1> QED
  BY <1>1, <1>2, PTL DEF Spec

(* The variables keep their types and bounds.                                *)
THEOREM TypeCorrect == Spec => []TypeOK
<1>1. IInv => TypeOK
  BY DEF IInv, CoreInv, OwnerInv, HistoryTypeOK, TypeOK
<1> QED
  BY <1>1, InvCorrect, PTL

(* The service is busy exactly as long as its worker is: every return of run()  *)
(* in live_transmit.cpp has stored isRunning_.                               *)
THEOREM BusyMeansWorkingHolds == Spec => []BusyMeansWorking
<1>1. IInv => BusyMeansWorking
  BY DEF IInv, CoreInv
<1> QED
  BY <1>1, InvCorrect, PTL

(* A stop that came before the coordinator looked at its flags for the last      *)
(* time is never answered by a completed session, whoever asks and retries.    *)
THEOREM StopReachesSessionHolds == Spec => []StopReachesSession
<1>1. IInv => StopReachesSession
  BY DEF IInv, CoreInv, StopInv, StopReachesSession
<1> QED
  BY <1>1, InvCorrect, PTL

(* After shutdown() no session runs, and whatever is still on is recorded.     *)
THEOREM ShutdownIsFinalHolds == Spec => []ShutdownIsFinal
<1>1. IInv => ShutdownIsFinal
  BY DEF IInv, CoreInv, OwnerInv, KeyedInv, ShutdownIsFinal
<1> QED
  BY <1>1, InvCorrect, PTL

(* Only start() begins a session.                                            *)
LEMMA OnlyStartBegins ==
  ASSUME ServiceStep, ~isRunning, isRunning'
  PROVE  \E nonce \in 0 .. MaxNonces : Start(nonce)
BY DEF ServiceStep, Configure, configure, CallCheck, callCheck, checkFrame, Confirm, confirm,
   RequestCancel, requestCancel, CallRetry, callRetry, retryFrame, shutdownCoordinator, serviceVars,
   joinWorker, WorkerStep, failPreparation, install, beginSession, beginPreflight, keyRig,
   leaveEarly, lookLast, endSession, throwOut, sessionFrame, publishOutcome, clearRunning, reportCheck, RetryStep,
   enterRetry, unkeyRetry, reportRetry, Idle

(* Only a retry that reports and the end of a session take a hazard back, and   *)
(* only a session switches a rig on.                                         *)
LEMMA WhoTakesHazardBack ==
  ASSUME CoreInv, ServiceStep, snapshot.hasHazard
  PROVE  /\ snapshot'.hasHazard \/ worker.at = "publishing"
              \/ (retrying.at = "reporting" /\ retrying'.at = "idle")
         /\ keyed' \subseteq keyed \/ worker.at = "running"
<1>1. \A state, session, hasHazard :
        publishAs(state, session, hasHazard) => snapshot'.hasHazard = hasHazard
  BY DEF publishAs
<1>2. \A state : setState(state) => snapshot'.hasHazard
  BY <1>1 DEF setState
<1>3. CASE \/ \E rig \in Rigs : Configure(rig) \/ CallCheck(rig)
           \/ Confirm \/ RequestCancel \/ CallRetry
           \/ \E nonce \in 0 .. MaxNonces : Start(nonce)
  BY <1>2, <1>3 DEF Configure, configure, isConfigurable, CallCheck, callCheck, checkFrame, Confirm,
     confirm, RequestCancel, requestCancel, CallRetry, callRetry, retryFrame, Start, start
<1>4. CASE shutdownCoordinator \/ joinWorker \/ Idle
  BY <1>4 DEF shutdownCoordinator, joinWorker, Idle, serviceVars
<1>5. CASE failPreparation \/ install \/ publishOutcome \/ clearRunning
  BY <1>1, <1>5 DEF failPreparation, install, publishOutcome, clearRunning
<1>6. CASE beginSession \/ beginPreflight \/ keyRig \/ leaveEarly \/ lookLast \/ throwOut
  BY <1>6 DEF beginSession, beginPreflight, keyRig, leaveEarly, lookLast, throwOut, InSession,
     sessionFrame, serviceVars
<1>7. CASE \E outcome \in {"completed", "cancelled", "faulted", "hazardous"} : endSession(outcome)
  BY <1>7 DEF endSession, sessionFrame, serviceVars
<1>8. CASE reportCheck
  BY <1>1, <1>8 DEF reportCheck, checkFrame
<1>9. CASE RetryStep
  <2>1. CASE enterRetry
    BY <2>1 DEF enterRetry, retryFrame
  <2>3. CASE reportRetry
    <3>1. retrying.at = "reporting" /\ retrying' = NoRetry /\ keyed' = keyed
      BY <2>3 DEF reportRetry, retryFrame
    <3> QED
      BY <3>1 DEF NoRetry
  <2>2. ASSUME NEW isOff \in BOOLEAN, unkeyRetry(isOff)
        PROVE  snapshot'.hasHazard /\ keyed' \subseteq keyed
    BY <2>2 DEF unkeyRetry
  <2> QED
    BY <1>9, <2>1, <2>2, <2>3 DEF RetryStep
<1>10. CASE WorkerStep
  BY <1>5, <1>6, <1>7, <1>10 DEF WorkerStep
<1> QED
  BY <1>3, <1>4, <1>8, <1>9, <1>10 DEF ServiceStep

(* A published hazard is preserved until a retry has seen a rig off, but for a   *)
(* session that was started during a check (live_transmit.cpp:469, 507-529).    *)
THEOREM HazardIsKeptHolds == Spec => HazardIsKept
<1>1. IInv /\ [Next]_vars =>
        [snapshot.hasHazard =>
           /\ keyed' \subseteq keyed \/ overlapped
           /\ \/ snapshot'.hasHazard
              \/ retrying.at = "reporting" /\ retrying'.at = "idle"
              \/ worker.at = "publishing" /\ overlapped]_vars
  BY OwnersCall, WhoTakesHazardBack DEF IInv, OverlapInv
<1> QED
  BY <1>1, InvCorrect, PTL DEF Spec, HazardIsKept

(* What is sent is what was confirmed, and each confirmation is spent once.     *)
THEOREM ConfirmedIsSentHolds == Spec => ConfirmedIsSent
<1>1. IInv /\ [Next]_vars => [isRunning' /\ ~isRunning => SpendsConfirmation]_vars
  <2> SUFFICES ASSUME IInv, [Next]_vars, ~isRunning, isRunning' PROVE SpendsConfirmation
    OBVIOUS
  <2>1. PICK nonce \in 0 .. MaxNonces : Start(nonce)
    BY OwnersCall, OnlyStartBegins DEF IInv
  <2>2. /\ nonce \in 1 .. MaxNonces /\ confirmation = nonce /\ nonce # 0
        /\ worker'.rig = configuration /\ agreed' = [agreed EXCEPT ![nonce] = NoRig]
    BY <2>1, BoundsAssumption DEF Start, start, isStartable
  <2>3. configuration # NoRig /\ agreed[nonce] = configuration
    BY <2>2, RigsAssumption DEF IInv, CoreInv, ConfirmedInv
  <2>4. agreed'[nonce] = NoRig
    BY <2>2 DEF IInv, CoreInv, HistoryTypeOK
  <2> QED
    BY <2>2, <2>3, <2>4 DEF SpendsConfirmation
<1> QED
  BY <1>1, InvCorrect, PTL DEF Spec, ConfirmedIsSent
=============================================================================
