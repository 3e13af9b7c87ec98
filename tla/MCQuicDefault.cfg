CONSTANTS
    Endpoint <- MCEndpoint
    Byte <- MCByte
    Datagram <- MCDatagram
    KeepBytes = 2
    RequireMatch = FALSE
    AllowUnknown = TRUE
SPECIFICATION Spec
INVARIANT OnlyMatchedIsCut
