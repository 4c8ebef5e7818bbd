----------------------------- MODULE MCCluster -----------------------------
(***************************************************************************)
(* Instances of Cluster. The default namespace is left to the reconciler,   *)
(* everything else happens in another one.                                 *)
(***************************************************************************)
EXTENDS Cluster

\* A topic with the given shards, replicated twice, whose segments expire.
Config(shards) ==
    [type |-> "direct", shards |-> shards, replicationFactor |-> 2, retention |-> TRUE]

\* Three nodes open segments of a topic; then one of two comes and goes.
TopicsInstance ==
    [nodes |-> 1..3, groups |-> {}, configs |-> {Config(1), Config(2)},
     maxSegments |-> 3, maxEvents |-> 0]
FailoverInstance ==
    [TopicsInstance EXCEPT !.nodes = 1..2, !.configs = {Config(2)}, !.maxEvents = 1]

\* A group and its topic, with a member event and without.
GroupsInstance ==
    [nodes |-> 1..2, groups |-> Groups, configs |-> {Config(1)},
     maxSegments |-> 2, maxEvents |-> 1]
QuietInstance == [GroupsInstance EXCEPT !.maxSegments = 3, !.maxEvents = 0]

LeaderInstances == {TopicsInstance, FailoverInstance, GroupsInstance, QuietInstance}
GroupsInstances == {GroupsInstance}
=============================================================================
