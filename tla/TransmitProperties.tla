-------------------------- MODULE TransmitProperties --------------------------
(***************************************************************************)
(* What a transmit session must never do and what it must finish, stated    *)
(* over the module TransmitSession.  The last group of safety properties    *)
(* is what the repository's documents say and the code does not keep.       *)
(***************************************************************************)
EXTENDS TransmitSession

-----------------------------------------------------------------------------
(* Safety.                                                                  *)

(* While the rig may be on because of this program, a hazard is on record:   *)
(* no writer of the shared PttSafetyRecord (lease, watchdog, preflight,      *)
(* retry) can take the hazard of the key attempt back too early.             *)
KeyedMeansHazard == rigKeyed /\ keySent => record.hasHazard

(* Whatever way run() is left, by its end, a fault or an exception: a key    *)
(* command that may have taken effect has been followed by an unkey command, *)
(* the rig is off or on record as a hazard, and the audio is closed.         *)
CleanExit ==
  pc \in {"deactivating", "notifying"} =>
    /\ keyReply \in {"accepted", "doubtful"} => unkeySent
    /\ keyReply # "none" /\ rigKeyed => record.hasHazard
    /\ ~audio.open

(* "completed" is only said of a transmission whose every frame was read,     *)
(* queued and played while the rig was on, and whose rig is off again.       *)
CompletedMeansAired ==
  outcome = "completed" =>
    left = 0 /\ inHand = 0 /\ audio.ring = 0 /\ ~stray /\ (pc # "idle" => ~rigKeyed)

(* The device plays signal with the rig off only when the watchdog has taken  *)
(* the rig away: every other path gates or stops the audio before it unkeys.  *)
StrayOnlyAfterExpiry ==
  stray => IF worker = "absent" THEN record.watchdogExpired ELSE hasExpired

(* A stop asked for at any moment up to the last look at it is not reported   *)
(* as a completed transmission.                                              *)
StopWins == stopAsked = "running" => outcome # "completed"

(* A key command only ever goes to a rig that is off: the preflight, the      *)
(* hazard check and the one key per session leave no other way.              *)
KeyOnlyWhenOff == [][keyReply = "none" /\ keyReply' # "none" => ~rigKeyed]_vars

(* A session claims the rig only with no hazard on record, however long ago   *)
(* it looked: nobody records one between the preflight and the key attempt.   *)
ClaimOnlyWithoutHazard == [][leaseActive' /\ ~leaseActive => ~record.hasHazard]_vars

(* The session keeps the contract of PttSessionContract.                     *)
Contract == INSTANCE PttSessionContract WITH
  phase <- IF pc \in {"idle", "notifying"} THEN "idle"
           ELSE IF pc = "keyCommand" THEN "claimed"
           ELSE IF keyReply # "none" THEN "used" ELSE "active",
  keyed <- rigKeyed /\ keySent,
  hazard <- record.hasHazard

KeepsContract == Contract!Spec

-----------------------------------------------------------------------------
(* What the documents say.                                                  *)

(* A session never ends with the rig on and no hazard to block the next one  *)
(* (README.md: a failed confirmation blocks another session).                *)
EndsUnkeyedOrHazard == pc = "idle" /\ rigKeyed /\ keySent => record.hasHazard

-----------------------------------------------------------------------------
(* Liveness.                                                                *)

(* run() returns, whatever the device, the rig and the user do: also when     *)
(* the ring is full and nobody empties it, where only the watchdog helps.    *)
SessionEnds == isActive ~> ~isActive

(* A thread that sleeps in shutdown() when the session is over wakes up.      *)
ShutdownReturns == stopper = "asleep" /\ ~isActive ~> stopper = "returned"

(* Even if the control thread stops for ever, a lease that has run out ends   *)
(* with the rig off or with a failed cleanup on record, the watchdog's or the *)
(* lease's own.                                                             *)
ExpiryIsResolved ==
  isArmed /\ leaseLeft = 0 /\ rigKeyed /\ keySent ~>
    \/ ~rigKeyed
    \/ record.hasHazard /\ (leaseReleased \/ record.watchdogExpired)
=============================================================================
