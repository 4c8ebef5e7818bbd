SPECIFICATION FairSpec
CONSTANTS
    N = 2
    Subscriptions = {s1}
    Segments = {g1}
    Failing = {g1}
    MaxOffset = 2
    Ackers = {a1, a2}
    MaxSeq = 3
    Sizes = {2}
    Limits = {0, 1}
    Blockings = {TRUE}
    Resizes = {}
    Ready = Ready
    Acked = Acked
    NoMessage = NoMessage
CHECK_DEADLOCK FALSE
INVARIANTS
    CommitSafe
    NothingLost
    RingInvariant
PROPERTIES
    OfferEndsOnClose
    HandlerEndsOnClose
    AckReturns
