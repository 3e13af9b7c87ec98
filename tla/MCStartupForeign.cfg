CONSTANTS
    Max32 = 2000000
    Max64 = 4000000
    Line <- MCLine
    MaxLines = 7
    MaxFrames = 2000000
    PageSize = 4096
    FrameAlignment = 16
    MinFrameSize = 68
SPECIFICATION Spec
INVARIANT OnlyThisInterface
CHECK_DEADLOCK FALSE
