CONSTANTS
    MaxPackets = 0
    QueueCapacity = 2
    BufferCapacity = 2
    MaxArrived = 2
    MaxNoBuffers = 0
SPECIFICATION Spec
INVARIANT SuccessMeansSaved
CHECK_DEADLOCK FALSE
