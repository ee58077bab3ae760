--------------------------- MODULE LiveProperties ----------------------------
(***************************************************************************)
(* What the live transmit service promises whoever owns it, over the module  *)
(* LiveFrontEnds.  The last group is what the repository's documents say and *)
(* the code does not keep.                                                  *)
(***************************************************************************)
EXTENDS LiveFrontEnds

-----------------------------------------------------------------------------
(* Safety.                                                                  *)

SpendsConfirmation ==
  \E n \in 1 .. MaxNonces : agreed[n] = worker'.rig /\ agreed'[n] # agreed[n]

(* A transmission is started for the rig its confirmation was given for, and  *)
(* no confirmation starts two: configure() and start() both revoke it, in     *)
(* whatever order a caller configures, confirms and starts.                  *)
ConfirmedIsSent == [][isRunning' /\ ~isRunning => SpendsConfirmation]_vars

(* A published hazard is preserved: while it is shown no rig is switched on,   *)
(* and it is only taken back by a retryUnkey() that has just seen a rig off.   *)
(* In between a caller may configure, confirm, start and stop, sessions may    *)
(* fail, and a checkPtt() may publish it at any moment, also between confirm() *)
(* and start().  Excepted is a session that was started during a check: it     *)
(* goes on under the hazard which that check publishes, and publish() takes    *)
(* the hazard back when the session ends (HazardNeedsCleanup).               *)
HazardIsKept ==
  [][snapshot.hasHazard =>
       /\ keyed' \subseteq keyed \/ overlapped
       /\ \/ snapshot'.hasHazard
          \/ retrying.at = "reporting" /\ retrying'.at = "idle"
          \/ worker.at = "publishing" /\ overlapped]_vars

(* A stop asked for while the coordinator runs, and before it looked at its     *)
(* flags for the last time, reaches that coordinator: the session does not     *)
(* complete.  A stop that comes later, while run() closes the audio and        *)
(* publishes, is stored as well, but the session may still complete.          *)
StopReachesSession ==
  \A s \in Sessions : stopped[s] = "heard" => sessions[s].outcome # "completed"

(* When shutdown() has returned no session runs or will, and a rig that was   *)
(* left on is a hazard in the record of its coordinator.                     *)
ShutdownIsFinal ==
  owner = "closed" =>
    /\ worker.at \in {"none", "done"}
    /\ \A rig \in keyed : \E s \in Sessions : sessions[s].rig = rig /\ sessions[s].record

(* The service is busy exactly as long as its worker is: no early return of   *)
(* run() leaves it refusing calls for ever, and no worker outlives the flag.  *)
BusyMeansWorking == isRunning <=> worker.at \notin {"none", "done"}

-----------------------------------------------------------------------------
(* What the documents say.                                                  *)

(* A stop asked for at any time of a transmission is not answered by a        *)
(* completed one (docs/ARCHITECTURE.md: stop and window close request         *)
(* coordinator cancellation).  The code does not keep this: TLC finds a stop  *)
(* that comes before the worker has installed its coordinator, and one that    *)
(* comes after the last look at the flags.                                   *)
StopIsHonoured ==
  \A s \in Sessions : stopped[s] # "no" => sessions[s].outcome # "completed"

(* A window that was told to wait is only told to close when the session is   *)
(* over (docs/ARCHITECTURE.md: and wait for a terminal immutable snapshot).   *)
CloseWaitsForEnd ==
  [][gui.closePending /\ ~gui'.closePending
       => worker.at \notin {"preparing", "starting", "running", "ending"}]_vars

(* A hazard is only taken back by a retry, whatever runs meanwhile             *)
(* (docs/MILESTONES.md: preserve unresolved PTT hazards across sessions and    *)
(* require explicit confirmed cleanup before another session can start).  The  *)
(* code does not keep this: TLC finds a check that overlaps a session.         *)
HazardNeedsCleanup ==
  [][snapshot.hasHazard /\ ~snapshot'.hasHazard => retrying.at = "reporting"]_vars

(* The hazard of a PTT check is only taken back when the rig that was checked *)
(* has been seen off since (docs/MILESTONES.md: preserve unresolved PTT       *)
(* hazards and require explicit confirmed cleanup).                          *)
RetryUnkeysCheckedRig ==
  [][retrying.at = "reporting" /\ snapshot.hasHazard /\ ~snapshot'.hasHazard
       => RetryRig = supervisor]_vars
=============================================================================
