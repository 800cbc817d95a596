--------------------------- MODULE MCSourceThreads ---------------------------
(* Model-checking instance of SourceThreads.                               *)
EXTENDS SourceThreads
CONSTANTS s1, s2, w1, w2, b1, b2
=============================================================================
