SPECIFICATION Spec
CONSTANTS
    DefaultReplicationFactor = 2
    DefaultNamespace = default
    Nodes <- MCNodes
    MaxSizes = {1, 2}
    MaxMessages = 2
    MaxFailures = 1
    NoFile = NoFile
INVARIANTS
    DoneExact
    AckedKept
    ReplicasDriven
CHECK_DEADLOCK FALSE
