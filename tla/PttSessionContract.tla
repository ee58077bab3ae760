-------------------------- MODULE PttSessionContract --------------------------
(***************************************************************************)
(* What a transmit session promises about the transmitter, without saying   *)
(* how.  `keyed` is the transmitter switched on by this program; `hazard`   *)
(* is the one bit every later decision is taken from.                       *)
(*                                                                         *)
(* A session may claim the transmitter only when no hazard is on record,    *)
(* and the claim itself is recorded as a hazard before the key command; one *)
(* claim is good for one key command; the hazard is taken back only when    *)
(* the transmitter is off, and never between the claim and its command.     *)
(***************************************************************************)
VARIABLES phase, keyed, hazard

contractVars == <<phase, keyed, hazard>>

Init ==
  /\ phase = "idle"
  /\ keyed = FALSE
  /\ hazard = FALSE

Begin ==
  /\ phase = "idle" /\ phase' = "active"
  /\ UNCHANGED <<keyed, hazard>>

Claim ==
  /\ phase = "active" /\ ~hazard
  /\ phase' = "claimed" /\ hazard' = TRUE
  /\ UNCHANGED keyed

KeyCommand ==
  /\ phase = "claimed" /\ ~keyed
  /\ phase' = "used" /\ keyed' \in BOOLEAN
  /\ UNCHANGED hazard

Unkey ==
  /\ keyed' = FALSE
  /\ UNCHANGED <<phase, hazard>>

Clear ==
  /\ phase # "claimed" /\ ~keyed
  /\ hazard' = FALSE
  /\ UNCHANGED <<phase, keyed>>

Raise ==
  /\ hazard' = TRUE
  /\ UNCHANGED <<phase, keyed>>

End ==
  /\ phase \in {"active", "used"} /\ phase' = "idle"
  /\ UNCHANGED <<keyed, hazard>>

Next == Begin \/ Claim \/ KeyCommand \/ Unkey \/ Clear \/ Raise \/ End

Spec == Init /\ [][Next]_contractVars
=============================================================================
