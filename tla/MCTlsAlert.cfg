CONSTANTS
    Direction <- MCDirection
    Reverse <- MCReverse
    HeaderSize = 2
    SeqMod = 16
    Isn <- MCIsn
    StreamEnd <- MCStreamEnd
    RecordStart <- MCRecordStart
    Header <- MCAlertHeader
    AppDataKeep = 3
    ContinuationKeep = 1
    SynMayCarryData = FALSE
SPECIFICATION Spec
INVARIANT OnlyApplicationDataIsDropped
