----------------------------- MODULE MCNetwork ------------------------------
(* Model-checking instance of NetworkSink: two of the buffers have the same *)
(* sequence number, and different origins.                                  *)
EXTENDS NetworkSink
CONSTANTS b1, b2, b3, w1, w2
Stream3 == <<b1, b2, b3>>
SharedSequence(b) == IF b = b2 THEN b1 ELSE b
=============================================================================
