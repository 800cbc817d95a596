-------------------------- MODULE MCSpanningTuples --------------------------
\* The resolution of spanning tuples for TLC: the ring is passed more than once.
EXTENDS SpanningTuples
=============================================================================
