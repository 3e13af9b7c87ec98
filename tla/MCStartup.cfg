CONSTANTS
    Max32 = 2000000
    Max64 = 4000000
    Line <- MCLine
    MaxLines = 7
    MaxFrames = 2000000
    PageSize = 4096
    FrameAlignment = 16
    MinFrameSize = 68
SPECIFICATION FairSpec
INVARIANTS
    TypeOK
    RingIsWhole
    NothingLeaks
    OpenIsComplete
    OutputOnlyIfCapturing
PROPERTY SignalEndsProgram
CHECK_DEADLOCK FALSE
