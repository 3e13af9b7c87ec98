CONSTANTS
    BlockCount = 2
    BlockCapacity = 2
    BlockTimeoutMs = 4
    IntMod = 16
    MaxArrived = 4
SPECIFICATION FairSpec
INVARIANTS
    TypeOK
    ReaderAtOldest
    ViewStable
    NoSilentLoss
PROPERTIES
    ImplementsSource
    BlocksAreReleased
    StopIsHonoured
