SPECIFICATION Spec
CONSTANTS
    Messages = {1, 2}
    Channels = {1}
    Tags = {"t"}
    Prefetches = {1}
    Keys = {1, 2}
    PropertyNames = {"p"}
    MaxBody = 1
    MaxCalls = 2
    Handles = {h1, h2}
    LinkLimits = {1, 2}
    BeginWindow = 2
    WindowLimits = {1, 3}
    TopicCredit = 3
    InitialWindow = 4
    Modulus = 8
    Parts <- MCParts
    MaxLinks = 2
    Loads <- MCLoads
    Messages0 <- MCMessages0
    Messages1 <- MCMessages1
    MessagesP <- MCMessagesP
    FrameMax0 = 32
    FrameMax1 = 100000
    FarCuts = 12
    TopicBindings <- MCTopicBindings
    TopicMessages <- MCTopicMessages
SYMMETRY HandlesAlike
INVARIANTS
    Faithful
    RoutedByWords
    Settleable
    AckedIsSettled
    PublishedExactly
    ClosedHoldsOne
    CreditKept
    DispositionFinds
CHECK_DEADLOCK FALSE
