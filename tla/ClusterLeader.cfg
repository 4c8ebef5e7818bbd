SPECIFICATION Spec
CONSTANTS
    DefaultReplicationFactor = 2
    DefaultNamespace = default
    Namespaces = {n1}
    Topics = {t1}
    Groups = {g1}
    Instances <- LeaderInstances
    NoTask = NoTask
INVARIANTS
    OneOffsetsSegment
    PlacesSound
PROPERTIES
    ShardsRespected
    FreshIDs
    NeededSegmentsKept
CHECK_DEADLOCK FALSE
