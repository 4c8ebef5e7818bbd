SPECIFICATION Spec
CONSTANTS
    Segments = {g1}
    Old = {}
    Deletable = {}
    SegmentSize = 2
    LogSize = 2
    Size = 2
    MaxCrashes = 0
    MaxFailures = 0
INVARIANTS CommittedIsAcked
CHECK_DEADLOCK FALSE
