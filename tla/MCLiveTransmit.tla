---------------------------- MODULE MCLiveTransmit ---------------------------
(* Model values for LiveProperties.  Rigs are interchangeable.              *)
EXTENDS LiveProperties, TLC
MCRigs == Permutations(Rigs)
=============================================================================
