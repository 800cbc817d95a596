SPECIFICATION Spec
CONSTANTS
    Worker = {w1, w2}
    RingSize = 4
    Last = 5
INVARIANTS RingIsSound NoTupleIsMissed EachTupleOnceAndWhole
PROPERTY EveryBufferIsFormatted
CHECK_DEADLOCK FALSE
