CONSTANTS
    Direction <- MCDirection
    Reverse <- MCReverse
    HeaderSize = 2
    SeqMod = 16
    Isn <- MCIsn
    StreamEnd <- MCStreamEnd
    RecordStart <- MCRecordStart
    Header <- MCHeader
    AppDataKeep = 3
    ContinuationKeep = 1
    SynMayCarryData = FALSE
SPECIFICATION FairSpec
INVARIANTS
    TypeOK
    ActiveRecordAligned
    CutKeepsHeads
    ContinuationCutIsFinal
    ResyncAtRecordStart
    CutNeedsHandshake
PROPERTY EvaluateReturns
