SPECIFICATION FairSpec
CONSTANTS
    Segments = {g0, g1}
    Old = {g0}
    Deletable = {g1}
    SegmentSize = 2
    LogSize = 2
    Size = 2
    MaxCrashes = 1
    MaxFailures = 1
INVARIANTS
    PartialCommitIsAcked
    NothingSkipped
PROPERTIES
    EveryMessageAcked
    NoCommitForgotten
    OldSegmentsCommitted
CHECK_DEADLOCK FALSE
