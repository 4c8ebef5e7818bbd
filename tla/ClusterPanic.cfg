SPECIFICATION Spec
CONSTANTS
    DefaultReplicationFactor = 2
    DefaultNamespace = default
    Namespaces = {n1}
    Topics = {t1}
    Groups = {g1}
    Instances <- GroupsInstances
    NoTask = NoTask
INVARIANT
    NoCommandPanics
CHECK_DEADLOCK FALSE
