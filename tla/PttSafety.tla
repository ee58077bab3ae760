------------------------------ MODULE PttSafety ------------------------------
(***************************************************************************)
(* The part of src/src/rig/ptt.cpp that every owner of the transmitter      *)
(* shares: the PttSupervisor, which runs one provider call at a time, its   *)
(* bounded unkey loop, and the PttSafetyRecord in which the coordinator,    *)
(* the lease and the watchdog all write what they know.  The rig itself and *)
(* the provider that talks to it are external: a call has any effect the    *)
(* provider contract allows, and a certain answer tells the truth.          *)
(*                                                                         *)
(* A provider call holds the supervisor mutex from its first to its last    *)
(* line and has one effect on the rig, so it is one step.                   *)
(***************************************************************************)
EXTENDS Naturals

CONSTANT UnkeyAttempts      \* PttCleanupPolicy::unkeyAttempts

ASSUME UnkeyAttemptsAssumption == UnkeyAttempts \in Nat \ {0}

VARIABLES
  rigKeyed,   \* external: the transmitter is on
  keySent,    \* history: a key command has been issued
  unkeySent,  \* history: an unkey command was issued after the last key command
  record,     \* PttSafetySnapshot held by the PttSafetyRecord
  cleanup     \* progress of PttSupervisor::unkey for each of its callers

safetyVars == <<rigKeyed, keySent, unkeySent, record, cleanup>>

Callers == {"session", "watchdog", "retry"}

NoCleanup == [attempts |-> 0, verdict |-> "none"]

SafetyTypeOK ==
  /\ rigKeyed \in BOOLEAN
  /\ keySent \in BOOLEAN
  /\ unkeySent \in BOOLEAN
  /\ record \in [certainty: {"definitelyUnkeyed", "indeterminate"},
                 hasHazard: BOOLEAN, watchdogExpired: BOOLEAN]
  /\ cleanup \in [Callers -> [attempts: 0 .. UnkeyAttempts,
                              verdict: {"none", "trying", "unkeyed", "hazard"}]]

(* The transmitter may have been left on by somebody else.                 *)
SafetyInit ==
  /\ rigKeyed \in BOOLEAN
  /\ keySent = FALSE
  /\ unkeySent = FALSE
  /\ record = [certainty |-> "definitelyUnkeyed", hasHazard |-> FALSE,
               watchdogExpired |-> FALSE]
  /\ cleanup = [c \in Callers |-> NoCleanup]

(* execute(query): an answer is certain and true, or it is no answer (an    *)
(* error, a timeout, an answer that came after its deadline).               *)
QueryAnswers == {IF rigKeyed THEN "keyed" ELSE "unkeyed", "unknown"}

(* execute(key).  "accepted" is an answer without error that reads back     *)
(* keyed; "refused" reads back unkeyed for a command that cannot have taken *)
(* effect; every other combination of error, certainty and mayHaveKeyed is  *)
(* "doubtful" and leaves the rig as it was or keyed.                        *)
KeyReplies == {"accepted", "refused", "doubtful"}

ExecuteKey(reply) ==
  /\ \/ reply = "accepted" /\ rigKeyed' = TRUE
     \/ reply = "refused" /\ ~rigKeyed /\ rigKeyed' = FALSE
     \/ reply = "doubtful" /\ rigKeyed' \in {rigKeyed, TRUE}
  /\ keySent' = TRUE
  /\ unkeySent' = FALSE

(* PttSupervisor::unkey, entered by caller c.                              *)
StartCleanup(c) ==
  cleanup' = [cleanup EXCEPT ![c] = [attempts |-> 0, verdict |-> "trying"]]

(* A loop that makes one attempt too many.                                  *)
VerdictTooLate(certain, attempts) ==
  IF certain THEN "unkeyed"
  ELSE IF attempts > UnkeyAttempts THEN "hazard" ELSE "trying"

(* A loop that gives up and takes the last attempt for a success.           *)
VerdictTooKind(certain, attempts) ==
  IF certain \/ attempts = UnkeyAttempts THEN "unkeyed" ELSE "trying"

Verdict(certain, attempts) ==
  IF certain THEN "unkeyed"
  ELSE IF attempts = UnkeyAttempts THEN "hazard" ELSE "trying"

(* One round of the loop: an unkey command that may or may not reach the    *)
(* rig, and a readback that is certain only when the rig is off.  The loop  *)
(* ends with the first certain answer or with the last attempt.             *)
AttemptUnkey(c) ==
  /\ cleanup[c].verdict = "trying"
  /\ rigKeyed' \in {rigKeyed, FALSE}
  /\ \E certain \in BOOLEAN :
       /\ certain => ~rigKeyed'
       /\ cleanup' = [cleanup EXCEPT ![c] =
            [attempts |-> @.attempts + 1,
             verdict |-> Verdict(certain, @.attempts + 1)]]
  /\ unkeySent' = TRUE
  /\ UNCHANGED <<keySent, record>>

CleanupEnded(c) == cleanup[c].verdict \in {"unkeyed", "hazard"}

(* A key attempt that leaves no trace.                                      *)
RecordNothing == record' = record

(* PttSafetyRecord::recordKeyAttempt.                                      *)
RecordKeyAttempt ==
  record' = [record EXCEPT !.certainty = "indeterminate", !.hasHazard = TRUE]

(* PttSafetyRecord::recordCleanup(result, expired).                        *)
RecordResult(isUnkeyed, expired) ==
  record' = [certainty |-> IF isUnkeyed THEN "definitelyUnkeyed" ELSE "indeterminate",
             hasHazard |-> ~isUnkeyed,
             watchdogExpired |-> record.watchdogExpired \/ expired]

(* The caller writes the verdict of its own loop, then forgets it.          *)
RecordCleanup(c, expired) ==
  /\ CleanupEnded(c)
  /\ RecordResult(cleanup[c].verdict = "unkeyed", expired)
  /\ cleanup' = [cleanup EXCEPT ![c] = NoCleanup]
=============================================================================
