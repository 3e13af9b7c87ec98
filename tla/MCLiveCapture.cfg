CONSTANTS
    MaxPackets = 4
    QueueCapacity = 2
    BufferCapacity = 2
    MaxArrived = 6
    MaxNoBuffers = 1
SPECIFICATION FairSpec
INVARIANTS
    TypeOK
    FileHasNoGap
    PacketsAccountedFor
    LimitIsExact
    ReasonIsTrue
    StopIsPrompt
PROPERTIES
    ImplementsSource
    CaptureEnds
CHECK_DEADLOCK FALSE
