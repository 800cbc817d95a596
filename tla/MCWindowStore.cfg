SPECIFICATION Spec
CONSTANTS
    Worker = {w1, w2}
    left = left
    right = right
    Origins <- BothOrigins
    Input <- Joined
    BlockSize = 2
    WindowSize = 4
    WindowSlide = 2
INVARIANTS NoShiftIsLost NoRecordIsLate TriggeredOnceInOrder ProbesFindTheirSlices
PROPERTY EveryWindowIsProbed
CHECK_DEADLOCK FALSE
