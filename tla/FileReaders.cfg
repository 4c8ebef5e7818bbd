SPECIFICATION FairSpec
CONSTANTS
    Data = {a}
    Readers = {r1, r2}
    MaxSize = 2
    MaxTerm = 2
    MaxCrashes = 1
    NoData = NoData
INVARIANTS
    StoredExactly
    IteratorFaithful
    WaitJustified
PROPERTIES
    ReaderEnds
CHECK_DEADLOCK FALSE
