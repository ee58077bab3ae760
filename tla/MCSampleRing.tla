----------------------------- MODULE MCSampleRing -----------------------------
(* SampleRing with two values of a sample; a capacity of three is no power    *)
(* of two, and the positions go round it more than twice.                    *)
EXTENDS SampleRing
=============================================================================
