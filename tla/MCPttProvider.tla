---------------------------- MODULE MCPttProvider ----------------------------
(* PttProvider for model checking.                                          *)
EXTENDS PttProvider
=============================================================================
