------------------------- MODULE LiveTransmitService -------------------------
(***************************************************************************)
(* LiveTransmitService of src/src/app/live_transmit.cpp: the configuration  *)
(* and its single-use confirmation, the worker thread that runs one         *)
(* transmission, the published snapshot, and the calls checkPtt() and       *)
(* retryUnkey() that other threads make meanwhile.  A step is what one       *)
(* thread does under mutex_, or between two such sections.  A coordinator    *)
(* is seen as its callers see it: the snapshot it publishes, its record, its *)
(* stop flags and what it does to the rig (TransmitSession has the rest).    *)
(***************************************************************************)
EXTENDS Naturals

CONSTANTS
  Rigs,            \* the rigs a PTT configuration can name
  NoRig,
  MaxSessions,     \* bound on start()
  MaxNonces,       \* bound on confirm()
  CheckRunsAlone   \* TRUE: nobody starts a transmission during a checkPtt()

ASSUME RigsAssumption == NoRig \notin Rigs
ASSUME BoundsAssumption == MaxSessions \in Nat /\ MaxNonces \in Nat
ASSUME CheckRunsAloneAssumption == CheckRunsAlone \in BOOLEAN

VARIABLES
  snapshot,        \* snapshot_: state, session (0: none), hasUnresolvedPttHazard
  isNew,           \* its sequence is not the one the GUI saw last
  configuration,   \* the rig of configuration_
  confirmation,    \* the nonce of confirmation_, 0: none
  nextNonce,
  isRunning,
  coordinator,     \* coordinator_: the session it was made for, 0: none
  supervisor,      \* supervisor_: its rig
  worker,          \* worker_: place, rig, session, outcome
  sessions,        \* the coordinators, one for each session
  keyed,           \* the rigs this program has switched on
  checking,        \* the rig of a checkPtt() call, NoRig: none
  retrying         \* a retryUnkey() call: place, what it read

serviceVars == <<snapshot, isNew, configuration, confirmation, nextNonce,
                 isRunning, coordinator, supervisor>>
vars0 == <<serviceVars, worker, sessions, keyed, checking, retrying>>

Sessions == 1 .. MaxSessions
MaybeRig == Rigs \cup {NoRig}
Outcomes == {"none", "completed", "cancelled", "faulted", "hazardous", "thrown"}
ServiceStates == {"idle", "ready", "confirmed", "checkingPtt", "stopping",
                  "completed", "cancelled", "faulted", "hazardous"}

(* TransmitState: "checking" stands for those between the preflight and the *)
(* key command, "sending" for those after it that the front ends treat alike. *)
(* "wasCancelled" is the one of the RunContext, as long as there is one.       *)
SessionStates == {"idle", "preparing", "checking", "sending",
                  "cancelled", "faulted"}

Snapshots == [state : ServiceStates, session : 0 .. MaxSessions, hasHazard : BOOLEAN]
Workers ==
  [at : {"none", "preparing", "starting", "running", "ending", "publishing", "clearing",
         "done"},
   rig : MaybeRig, session : 0 .. MaxSessions]
Coordinators ==
  [rig : MaybeRig, state : SessionStates, hasHazard : BOOLEAN, record : BOOLEAN,
   stop : {"no", "cancel", "shutdown"}, wasCancelled : BOOLEAN, outcome : Outcomes]
Retries == [at : {"idle", "read", "unkeying", "reporting"},
            session : 0 .. MaxSessions, rig : MaybeRig]

NewCoordinator(rig) ==
  [rig |-> rig, state |-> "idle", hasHazard |-> FALSE, record |-> FALSE,
   stop |-> "no", wasCancelled |-> FALSE, outcome |-> "none"]

ServiceTypeOK ==
  /\ snapshot \in Snapshots
  /\ isNew \in BOOLEAN
  /\ configuration \in MaybeRig
  /\ confirmation \in 0 .. MaxNonces
  /\ nextNonce \in 1 .. MaxNonces + 1
  /\ isRunning \in BOOLEAN
  /\ coordinator \in 0 .. MaxSessions
  /\ supervisor \in MaybeRig
  /\ worker \in Workers
  /\ sessions \in [Sessions -> Coordinators]
  /\ keyed \subseteq Rigs
  /\ checking \in MaybeRig
  /\ retrying \in Retries

NoRetry == [at |-> "idle", session |-> 0, rig |-> NoRig]

ServiceInit ==
  /\ snapshot = [state |-> "idle", session |-> 0, hasHazard |-> FALSE]
  /\ isNew = TRUE
  /\ configuration = NoRig
  /\ confirmation = 0
  /\ nextNonce = 1
  /\ isRunning = FALSE
  /\ coordinator = 0
  /\ supervisor = NoRig
  /\ worker = [at |-> "none", rig |-> NoRig, session |-> 0]
  /\ sessions = [s \in Sessions |-> NewCoordinator(NoRig)]
  /\ keyed = {}
  /\ checking = NoRig
  /\ retrying = NoRetry

publishAs(state, session, hasHazard) ==
  /\ snapshot' = [state |-> state, session |-> session, hasHazard |-> hasHazard]
  /\ isNew' = TRUE

setState(state) == publishAs(state, snapshot.session, snapshot.hasHazard)

-----------------------------------------------------------------------------
(* Calls of the owner: the CLI, or the GUI thread.                          *)

isConfigurable == ~isRunning /\ ~snapshot.hasHazard

(* configure() that leaves an earlier confirmation valid.                    *)
configureOnly(rig) ==
  /\ isConfigurable
  /\ configuration' = rig
  /\ publishAs("ready", 0, FALSE)
  /\ UNCHANGED <<confirmation, nextNonce, isRunning, coordinator, supervisor,
                 worker, sessions, keyed, checking, retrying>>

configure(rig) ==
  /\ isConfigurable
  /\ configuration' = rig
  /\ confirmation' = 0
  /\ publishAs("ready", 0, FALSE)
  /\ UNCHANGED <<nextNonce, isRunning, coordinator, supervisor,
                 worker, sessions, keyed, checking, retrying>>

isConfirmable == configuration # NoRig /\ ~isRunning /\ ~snapshot.hasHazard

confirm ==
  /\ isConfirmable
  /\ nextNonce <= MaxNonces
  /\ confirmation' = nextNonce
  /\ nextNonce' = nextNonce + 1
  /\ setState("confirmed")
  /\ UNCHANGED <<configuration, isRunning, coordinator, supervisor,
                 worker, sessions, keyed, checking, retrying>>

(* start() that trusts the look confirm() had at the hazard.                 *)
isStartableOnce(nonce) == ~isRunning /\ confirmation # 0 /\ confirmation = nonce

isStartable(nonce) ==
  ~isRunning /\ confirmation # 0 /\ confirmation = nonce /\ ~snapshot.hasHazard

(* The worker of the last session has nothing left to do when isRunning_ is  *)
(* FALSE, so the join of start() does not wait.                             *)
start(nonce) ==
  /\ isStartable(nonce)
  /\ worker.session < MaxSessions
  /\ CheckRunsAlone => checking = NoRig
  /\ confirmation' = 0
  /\ isRunning' = TRUE
  /\ setState("checkingPtt")
  /\ worker' = [at |-> "preparing", rig |-> configuration, session |-> worker.session + 1]
  /\ UNCHANGED <<configuration, nextNonce, coordinator, supervisor,
                 sessions, keyed, checking, retrying>>

(* A coordinator runs once: its flags mean nothing when its session is over.  *)
requestCancel ==
  /\ IF isRunning THEN setState("stopping") ELSE UNCHANGED <<snapshot, isNew>>
  /\ sessions' = [s \in Sessions |->
       IF s = coordinator /\ sessions[s].stop = "no" /\ sessions[s].outcome = "none"
       THEN [sessions[s] EXCEPT !.stop = "cancel"] ELSE sessions[s]]
  /\ UNCHANGED <<configuration, confirmation, nextNonce, isRunning, coordinator,
                 supervisor, worker, keyed, checking, retrying>>

(* The second part of shutdown(): the coordinator read under the lock is     *)
(* told to shut down, which no later run() of it takes back.                 *)
shutdownCoordinator ==
  /\ sessions' = [s \in Sessions |->
       IF s = coordinator /\ sessions[s].outcome = "none"
       THEN [sessions[s] EXCEPT !.stop = "shutdown"] ELSE sessions[s]]
  /\ UNCHANGED <<serviceVars, worker, keyed, checking, retrying>>

(* A shutdown() that waits for the session and not for the thread.           *)
joinCoordinator ==
  /\ \A s \in Sessions : s = coordinator => sessions[s].state \notin {"checking", "sending"}
  /\ isRunning' = FALSE
  /\ UNCHANGED <<snapshot, isNew, configuration, confirmation, nextNonce, coordinator,
                 supervisor, worker, sessions, keyed, checking, retrying>>

(* The last part waits for that coordinator and for the worker.              *)
joinWorker ==
  /\ worker.at \in {"none", "done"}
  /\ isRunning' = FALSE
  /\ UNCHANGED <<snapshot, isNew, configuration, confirmation, nextNonce, coordinator,
                 supervisor, worker, sessions, keyed, checking, retrying>>


-----------------------------------------------------------------------------
(* The worker: run().  While it runs, configure() is refused, so that the    *)
(* revision it compares before it installs the coordinator is the snapshot's. *)

current == worker.session

(* Provider, discovery, selection, source or endpoint cannot be had.         *)
failPreparation ==
  /\ worker.at = "preparing"
  /\ publishAs("faulted", 0, snapshot.hasHazard)
  /\ worker' = [worker EXCEPT !.at = "clearing"]
  /\ UNCHANGED <<configuration, confirmation, nextNonce, isRunning, coordinator,
                 supervisor, sessions, keyed, checking, retrying>>

(* An installation that keeps the coordinator it finds.                      *)
installFirst ==
  /\ worker.at = "preparing"
  /\ coordinator' = IF coordinator = 0 THEN current ELSE coordinator
  /\ supervisor' = worker.rig
  /\ sessions' = [sessions EXCEPT ![current] = NewCoordinator(worker.rig)]
  /\ worker' = [worker EXCEPT !.at = "starting"]
  /\ UNCHANGED <<snapshot, isNew, configuration, confirmation, nextNonce, isRunning,
                 keyed, checking, retrying>>

install ==
  /\ worker.at = "preparing"
  /\ coordinator' = current
  /\ supervisor' = worker.rig
  /\ sessions' = [sessions EXCEPT ![current] = NewCoordinator(worker.rig)]
  /\ worker' = [worker EXCEPT !.at = "starting"]
  /\ UNCHANGED <<snapshot, isNew, configuration, confirmation, nextNonce, isRunning,
                 keyed, checking, retrying>>

(* TransmitCoordinator::run() clears isCancelled_, not isShuttingDown_.      *)
beginSession ==
  /\ worker.at = "starting"
  /\ sessions' = [sessions EXCEPT ![current].state = "preparing",
                    ![current].stop = IF @ = "shutdown" THEN @ ELSE "no"]
  /\ worker' = [worker EXCEPT !.at = "running"]
  /\ UNCHANGED <<serviceVars, keyed, checking, retrying>>

InSession(states) == worker.at = "running" /\ sessions[current].state \in states

sessionFrame == UNCHANGED <<serviceVars, checking, retrying>>

beginPreflight ==
  /\ InSession({"preparing"})
  /\ sessions[current].stop = "no"
  /\ sessions' = [sessions EXCEPT ![current].state = "checking"]
  /\ UNCHANGED <<worker, keyed>>
  /\ sessionFrame

(* The preflight has seen the rig off, or switched it off; the key command is *)
(* refused, doubtful or accepted.  The hazard that its attempt records is in  *)
(* every snapshot that the coordinator publishes until the unkey.            *)
keyRig ==
  /\ InSession({"checking"})
  /\ sessions[current].stop = "no"
  /\ keyed' \in {keyed \ {worker.rig}, keyed \cup {worker.rig}}
  /\ sessions' = [sessions EXCEPT ![current].state = "sending",
                    ![current].record = TRUE, ![current].hasHazard = TRUE]
  /\ UNCHANGED worker
  /\ sessionFrame

(* validate() refuses the request before it looks at the flags, or the first   *)
(* look finds a stop.                                                       *)
leaveEarly ==
  /\ InSession({"preparing"})
  /\ \E wasCancelled \in {FALSE, sessions[current].stop # "no"} :
       sessions' = [sessions EXCEPT ![current].wasCancelled = wasCancelled]
  /\ worker' = [worker EXCEPT !.at = "ending"]
  /\ UNCHANGED keyed
  /\ sessionFrame

(* After the transmission or a fault: the rig is unkeyed, which does not       *)
(* depend on a stop, and the flags are looked at for the last time.  What is   *)
(* published stays until endSession.  (A preflight that cannot unkey does not  *)
(* look, but its hazard decides anyway.)                                     *)
lookLast ==
  /\ InSession({"checking", "sending"})
  /\ \E isOff \in BOOLEAN :
       /\ keyed' \in IF isOff THEN {keyed \ {worker.rig}} ELSE {keyed, keyed \ {worker.rig}}
       /\ sessions' = [sessions EXCEPT ![current].record = ~isOff,
                         ![current].wasCancelled = sessions[current].stop # "no"]
  /\ worker' = [worker EXCEPT !.at = "ending"]
  /\ sessionFrame

(* The audio is closed and the outcome published; a fault may have come from    *)
(* any state, or from closing the audio.  A stop that comes now is stored in    *)
(* the flags and changes nothing.                                           *)
endSession(outcome) ==
  /\ worker.at = "ending"
  /\ outcome = "hazardous" <=> sessions[current].record
  /\ outcome = "cancelled" <=> sessions[current].wasCancelled /\ ~sessions[current].record
  /\ outcome = "completed" => sessions[current].state = "sending"
  /\ sessions' = [sessions EXCEPT
       ![current].state = CASE outcome = "completed" -> "idle"
                            [] outcome = "cancelled" -> "cancelled"
                            [] OTHER -> "faulted",
       ![current].hasHazard = outcome = "hazardous", ![current].wasCancelled = FALSE,
       ![current].outcome = outcome]
  /\ worker' = [worker EXCEPT !.at = "publishing"]
  /\ UNCHANGED keyed
  /\ sessionFrame

(* An exception leaves run(): the destructor of a lease that was not released   *)
(* yet unkeys what was keyed, and what the coordinator published last stays.    *)
throwOut ==
  /\ worker.at \in {"running", "ending"}
  /\ \E isOff \in {FALSE, InSession({"sending"})} :
       /\ keyed' = IF isOff THEN keyed \ {worker.rig} ELSE keyed
       /\ sessions' = [sessions EXCEPT ![current].record = @ /\ ~isOff,
                         ![current].wasCancelled = FALSE, ![current].outcome = "thrown"]
  /\ worker' = [worker EXCEPT !.at = "publishing"]
  /\ sessionFrame

(* A publication that has no state of its own for an exception.              *)
publishOutcomeAsIs ==
  /\ worker.at = "publishing"
  /\ publishAs(sessions[current].outcome, current, sessions[current].hasHazard)
  /\ worker' = [worker EXCEPT !.at = "clearing"]
  /\ UNCHANGED <<configuration, confirmation, nextNonce, isRunning, coordinator,
                 supervisor, sessions, keyed, checking, retrying>>

publishOutcome ==
  /\ worker.at = "publishing"
  /\ LET outcome == sessions[current].outcome IN
       IF outcome = "thrown" THEN publishAs("faulted", 0, snapshot.hasHazard)
       ELSE publishAs(outcome, current, sessions[current].hasHazard)
  /\ worker' = [worker EXCEPT !.at = "clearing"]
  /\ UNCHANGED <<configuration, confirmation, nextNonce, isRunning, coordinator,
                 supervisor, sessions, keyed, checking, retrying>>

clearRunning ==
  /\ worker.at = "clearing"
  /\ isRunning' = FALSE
  /\ worker' = [worker EXCEPT !.at = "done"]
  /\ UNCHANGED <<snapshot, isNew, configuration, confirmation, nextNonce, coordinator,
                 supervisor, sessions, keyed, checking, retrying>>

WorkerStep ==
  \/ failPreparation \/ install \/ beginSession \/ beginPreflight \/ keyRig
  \/ leaveEarly \/ lookLast
  \/ \E outcome \in {"completed", "cancelled", "faulted", "hazardous"} : endSession(outcome)
  \/ throwOut \/ publishOutcome \/ clearRunning

-----------------------------------------------------------------------------
(* checkPtt(), on a thread of the pool: a query through a provider and a     *)
(* supervisor of its own.  Only its look at isRunning_ and its report touch   *)
(* the service; a rig that answers that it is off ends it in between.         *)

checkFrame == UNCHANGED <<configuration, confirmation, nextNonce, isRunning, coordinator,
                          worker, sessions, keyed, retrying>>

callCheck(rig) ==
  /\ checking = NoRig
  /\ ~isRunning
  /\ checking' = rig
  /\ UNCHANGED <<snapshot, isNew, supervisor>>
  /\ checkFrame

reportCheck ==
  /\ checking # NoRig
  /\ \/ checking \notin keyed /\ UNCHANGED <<snapshot, isNew, supervisor>>
     \/ supervisor' = checking /\ publishAs("hazardous", snapshot.session, TRUE)
  /\ checking' = NoRig
  /\ checkFrame

-----------------------------------------------------------------------------
(* retryUnkey(), on a thread of the pool.  It reads the coordinator and the   *)
(* supervisor first and looks at isRunning_ next.                            *)

retryFrame == UNCHANGED <<configuration, confirmation, nextNonce, isRunning, coordinator,
                          supervisor, worker, checking>>

callRetry ==
  /\ retrying.at = "idle"
  /\ coordinator # 0 \/ supervisor # NoRig
  /\ retrying' = [at |-> "read", session |-> coordinator, rig |-> supervisor]
  /\ UNCHANGED <<snapshot, isNew, sessions, keyed>>
  /\ retryFrame

(* During a transmission it is refused.                                      *)
enterRetry ==
  /\ retrying.at = "read"
  /\ retrying' = IF isRunning THEN NoRetry ELSE [retrying EXCEPT !.at = "unkeying"]
  /\ UNCHANGED <<snapshot, isNew, sessions, keyed>>
  /\ retryFrame

(* The coordinator is preferred to the supervisor, whichever is newer.       *)
RetryRig == IF retrying.session # 0 THEN sessions[retrying.session].rig ELSE retrying.rig

unkeyRetry(isOff) ==
  /\ retrying.at = "unkeying"
  /\ keyed' \in IF isOff THEN {keyed \ {RetryRig}} ELSE {keyed, keyed \ {RetryRig}}
  /\ sessions' = [s \in Sessions |->
       IF s = retrying.session THEN [sessions[s] EXCEPT !.record = ~isOff] ELSE sessions[s]]
  /\ retrying' = IF isOff THEN [retrying EXCEPT !.at = "reporting"] ELSE NoRetry
  /\ UNCHANGED <<snapshot, isNew>>
  /\ retryFrame

reportRetry ==
  /\ retrying.at = "reporting"
  /\ publishAs("faulted", snapshot.session, FALSE)
  /\ retrying' = NoRetry
  /\ UNCHANGED <<sessions, keyed>>
  /\ retryFrame

RetryStep ==
  \/ enterRetry
  \/ \E isOff \in BOOLEAN : unkeyRetry(isOff)
  \/ reportRetry
=============================================================================
