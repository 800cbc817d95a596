---------------------------- MODULE MCWindowStore ----------------------------
\* The window store for TLC: a join of two origins over sliding windows.  The
\* left origin splits a sequence number into two chunks; the right origin sends
\* a buffer without a record.
EXTENDS WindowStore

CONSTANTS left, right

BothOrigins == <<left, right>>
Chunk(o, sn, number, last, ts) == [origin |-> o, sn |-> sn, number |-> number, last |-> last, ts |-> ts]
Joined == {Chunk(left, 1, 1, FALSE, 1), Chunk(left, 1, 2, TRUE, 2), Chunk(left, 2, 1, TRUE, 9),
           Chunk(right, 1, 1, TRUE, 0), Chunk(right, 2, 1, TRUE, 9)}

\* The arithmetic of the assigner for small windows (SliceAssigner.hpp).
ASSUME SmallSlicesMakeUpTheirWindows ==
    \A size, slide \in 1..5 : \A ts \in 0..16 : SliceMakesUpItsWindows(size, slide, ts)
=============================================================================
