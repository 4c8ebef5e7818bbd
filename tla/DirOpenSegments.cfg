SPECIFICATION Spec
CONSTANTS
    Ids = {g1}
    NoSegment = NoSegment
    Users = {u1, u2}
    MaxData = 2
    MaxOpens = 3
    MaxMoves = 2
    MaxRestarts = 0
INVARIANTS
    OpenSegmentsKept
CHECK_DEADLOCK FALSE
