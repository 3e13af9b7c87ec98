CONSTANTS
    default_snaplen = 70
    max_capture_len = 62
    min_saved_bytes_per_packet = 3
    Packet <- MCPacket
    Size <- MCSize
    MaxRecords = 2
SPECIFICATION FairSpec
INVARIANTS
    TypeOK
    DecodedPayloadIsThere
    NeverRefused
    OutputFollowsInput
    SuccessIsComplete
    CutsAreWorthIt
    StatsTellTheOutput
PROPERTY FeedEnds
CHECK_DEADLOCK FALSE
