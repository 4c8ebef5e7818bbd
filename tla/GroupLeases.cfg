SPECIFICATION Spec
CONSTANTS
    N = 2
    Subscriptions = {s1, s2}
    Segments = {g1}
    Failing = {}
    MaxOffset = 2
    Ackers = {a1}
    MaxSeq = 2
    Sizes = {1}
    Limits = {0}
    Blockings = {TRUE}
    Resizes = {2}
    Ready = Ready
    Acked = Acked
    NoMessage = NoMessage
CHECK_DEADLOCK FALSE
SYMMETRY Symmetry
INVARIANTS
    WaitJustified
    LeaseAccounting
    DeliveryFaithful
    ReleasedWhenGone
PROPERTIES
    ImplementsWorkQueue
    SizeRespected
