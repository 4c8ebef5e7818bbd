CONSTANTS
    Ids = {g1, g2}
    NoSegment = NoSegment
    Users = {u1, u2}
    MaxData = 1
    MaxOpens = 2
    MaxMoves = 3
    MaxRestarts = 1
SPECIFICATION FairSpec
INVARIANTS ReferencesCounted PlacedDataKept
PROPERTIES GarbageCollected
CHECK_DEADLOCK FALSE
