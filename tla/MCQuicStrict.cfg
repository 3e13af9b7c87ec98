CONSTANTS
    Endpoint <- MCEndpoint
    Byte <- MCByte
    Datagram <- MCDatagram
    KeepBytes = 2
    RequireMatch = TRUE
    AllowUnknown = FALSE
SPECIFICATION Spec
INVARIANTS
    TypeOK
    OnlyMatchedIsCut
    MatchedIsFound
    CutKeepsHead
