-------------------------- MODULE MCTransmitEndpoint --------------------------
(* TransmitEndpoint with four signal frames numbered from one, a ring of       *)
(* three, blocks of up to two and callbacks of one or three frames.           *)
EXTENDS TransmitEndpoint

MCFrames == 0 .. SignalFrames
MCPeriods == {1, 3}
=============================================================================
