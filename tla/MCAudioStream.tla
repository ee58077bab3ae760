---------------------------- MODULE MCAudioStream ----------------------------
(* AudioStream with any client of one stream object: frames are silence or    *)
(* signal, a callback asks for none, one or three frames in chunks of two.    *)
EXTENDS AudioStream

MCPeriods == {0, 1, 3}
=============================================================================
