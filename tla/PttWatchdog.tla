----------------------------- MODULE PttWatchdog -----------------------------
(***************************************************************************)
(* PttWatchdog of src/src/rig/ptt.cpp: the worker thread, the lease it      *)
(* watches, and the calls its owner makes.  Time is a lease that runs down  *)
(* tick by tick; a heartbeat refills it.  The worker's wait on              *)
(* startCondition_ is split where the thread has tested its predicate and   *)
(* is not yet asleep: a notification sent there wakes nobody.               *)
(***************************************************************************)
EXTENDS PttSafety

CONSTANTS
  LeaseTicks,     \* policy.watchdogLease
  WaitIsAtomic    \* TRUE: no notification falls between predicate and sleep

ASSUME LeaseTicksAssumption == LeaseTicks \in Nat \ {0}
ASSUME WaitIsAtomicAssumption == WaitIsAtomic \in BOOLEAN

VARIABLES
  worker,         \* where the worker thread is
  isArmed, hasExpired, stopRequested,
  leaseLeft       \* ticks until expiryNanoseconds_

watchdogVars == <<worker, isArmed, hasExpired, stopRequested, leaseLeft>>

WorkerPlaces == {"absent", "looping", "fallingAsleep", "asleep", "timing",
                 "unkeying", "disarming", "exited"}

WatchdogTypeOK ==
  /\ worker \in WorkerPlaces
  /\ isArmed \in BOOLEAN
  /\ hasExpired \in BOOLEAN
  /\ stopRequested \in BOOLEAN
  /\ leaseLeft \in 0 .. LeaseTicks

WatchdogInit ==
  /\ worker = "absent"
  /\ isArmed = FALSE
  /\ hasExpired = FALSE
  /\ stopRequested = FALSE
  /\ leaseLeft = 0

-----------------------------------------------------------------------------
(* Calls of the owner.                                                      *)

(* The constructor returns when the worker is operational.                  *)
CreateWatchdog ==
  /\ worker' = "looping"
  /\ isArmed' = FALSE
  /\ hasExpired' = FALSE
  /\ stopRequested' = FALSE
  /\ leaseLeft' = 0

NotifyStart == worker' = IF worker = "asleep" THEN "looping" ELSE worker

(* arm() takes startMutex_, which a worker that is falling asleep holds.    *)
Arm ==
  /\ worker # "fallingAsleep"
  /\ ~isArmed
  /\ hasExpired' = FALSE
  /\ leaseLeft' = LeaseTicks
  /\ isArmed' = TRUE
  /\ NotifyStart
  /\ UNCHANGED stopRequested

HeartbeatAccepted == isArmed /\ ~hasExpired /\ leaseLeft > 0

Heartbeat ==
  /\ HeartbeatAccepted
  /\ leaseLeft' = LeaseTicks
  /\ UNCHANGED <<worker, isArmed, hasExpired, stopRequested>>

Finish ==
  /\ isArmed' = (isArmed /\ ~(record.certainty = "definitelyUnkeyed" \/ record.hasHazard))
  /\ UNCHANGED <<worker, hasExpired, stopRequested, leaseLeft>>

(* The destructor: request_stop, notify_all, join.  Neither of the first    *)
(* two holds startMutex_.                                                   *)
RequestStop ==
  /\ stopRequested' = TRUE
  /\ UNCHANGED <<worker, isArmed, hasExpired, leaseLeft>>

NotifyStop ==
  /\ NotifyStart
  /\ UNCHANGED <<isArmed, hasExpired, stopRequested, leaseLeft>>

Join ==
  /\ worker = "exited"
  /\ worker' = "absent"
  /\ isArmed' = FALSE
  /\ hasExpired' = FALSE
  /\ stopRequested' = FALSE
  /\ leaseLeft' = 0

-----------------------------------------------------------------------------
(* The worker thread.                                                       *)

WorkerLoop ==
  /\ worker = "looping"
  /\ worker' = IF stopRequested THEN "exited"
               ELSE IF isArmed THEN "timing"
               ELSE IF WaitIsAtomic THEN "asleep" ELSE "fallingAsleep"
  /\ UNCHANGED <<isArmed, hasExpired, stopRequested, leaseLeft, safetyVars>>

WorkerSleep ==
  /\ worker = "fallingAsleep"
  /\ worker' = "asleep"
  /\ UNCHANGED <<isArmed, hasExpired, stopRequested, leaseLeft, safetyVars>>

(* waitUntil returned and there is nothing to clean up.                     *)
WorkerWake ==
  /\ worker = "timing"
  /\ stopRequested \/ ~isArmed
  /\ worker' = "looping"
  /\ UNCHANGED <<isArmed, hasExpired, stopRequested, leaseLeft, safetyVars>>

(* An expiry that is noted and cleans nothing up.                           *)
ExpireOnly ==
  /\ worker = "timing"
  /\ ~stopRequested /\ isArmed /\ leaseLeft = 0
  /\ hasExpired' = TRUE
  /\ worker' = "disarming"
  /\ UNCHANGED <<isArmed, stopRequested, leaseLeft, safetyVars>>

WorkerExpire ==
  /\ worker = "timing"
  /\ ~stopRequested /\ isArmed /\ leaseLeft = 0
  /\ hasExpired' = TRUE
  /\ StartCleanup("watchdog")
  /\ worker' = "unkeying"
  /\ UNCHANGED <<isArmed, stopRequested, leaseLeft, rigKeyed, keySent, unkeySent, record>>

WorkerUnkey ==
  /\ worker = "unkeying"
  /\ AttemptUnkey("watchdog")
  /\ UNCHANGED watchdogVars

WorkerRecord ==
  /\ worker = "unkeying"
  /\ RecordCleanup("watchdog", TRUE)
  /\ worker' = "disarming"
  /\ UNCHANGED <<isArmed, hasExpired, stopRequested, leaseLeft, rigKeyed, keySent, unkeySent>>

WorkerDisarm ==
  /\ worker = "disarming"
  /\ isArmed' = FALSE
  /\ worker' = "looping"
  /\ UNCHANGED <<hasExpired, stopRequested, leaseLeft, safetyVars>>

WorkerStep ==
  \/ WorkerLoop \/ WorkerSleep \/ WorkerWake \/ WorkerExpire
  \/ WorkerUnkey \/ WorkerRecord \/ WorkerDisarm

(* The clock.                                                               *)
LeaseTick ==
  /\ isArmed /\ leaseLeft > 0
  /\ leaseLeft' = leaseLeft - 1
  /\ UNCHANGED <<worker, isArmed, hasExpired, stopRequested, safetyVars>>
=============================================================================
