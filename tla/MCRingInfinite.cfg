CONSTANTS
    BlockCount = 2
    BlockCapacity = 2
    BlockTimeoutMs = 8
    IntMod = 16
    MaxArrived = 2
SPECIFICATION FairSpec
PROPERTY StopIsHonoured
