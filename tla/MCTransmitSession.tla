-------------------------- MODULE MCTransmitSession --------------------------
(* TransmitSession on small instances; the .cfg files give the sizes and     *)
(* the switches.                                                            *)
EXTENDS TransmitProperties
=============================================================================
