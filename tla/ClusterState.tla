---------------------------- MODULE ClusterState ----------------------------
(***************************************************************************)
(* The cluster state of cluster_state.proto and the commands the raft      *)
(* state machine applies to it (cluster_state_do_*.go,                     *)
(* cluster_state_store.go), as operators from a state to the next one.     *)
(*                                                                         *)
(* The sorted lists of the code are functions from IDs or names, which is  *)
(* what the sorting and the lookups make of them; the lists of node IDs    *)
(* of a segment keep their order, because the reconciler trims them from   *)
(* the end. Exchange types, sizes and times that no command looks at are   *)
(* left out; a topic keeps whether its retention is limited.               *)
(***************************************************************************)
EXTENDS Integers, Sequences, FiniteSets, Functions

NoNode == 0

\* The segment types of cluster_state.proto.
TOPIC == "TOPIC"
OFFSET_COMMITS == "CONSUMER_GROUP_OFFSET_COMMITS"

\* f with k mapped to v, and f without the keys S.
Put(f, k, v) == [x \in DOMAIN f \cup {k} |-> IF x = k THEN v ELSE f[x]]
Without(f, S) == [x \in DOMAIN f \ S |-> f[x]]
Empty == [x \in {} |-> x]

\* The IDs of a set in the order the sorted lists of the state have them.
InOrder(ids) ==
    [i \in 1..Cardinality(ids) |->
        CHOOSE id \in ids : Cardinality({other \in ids : other < id}) = i - 1]

\* A list of the elements of a set, in some order.
AsList(S) == CHOOSE f \in Injection(1..Cardinality(S), S) : TRUE

\* The elements of a list that are in S, in their order.
Only(list, S) ==
    LET at == InOrder({i \in DOMAIN list : list[i] \in S})
    IN  [k \in DOMAIN at |-> list[at[k]]]

\* NewClusterStateStore: the empty state every node starts from.
EmptyState ==
    [namespaces |-> Empty, open |-> Empty, closed |-> Empty,
     nodes |-> Empty, current |-> 0]

-----------------------------------------------------------------------------
(* Queries. *)

\* FindNamespace.
NamespaceExists(s, ns) == ns \in DOMAIN s.namespaces

\* TopicExists and GetTopic # nil.
TopicExists(s, ns, name) ==
    NamespaceExists(s, ns) /\ name \in DOMAIN s.namespaces[ns].topics

GetTopic(s, ns, name) == s.namespaces[ns].topics[name]

\* ConsumerGroupExists and GetConsumerGroup # nil.
ConsumerGroupExists(s, ns, name) ==
    NamespaceExists(s, ns) /\ name \in DOMAIN s.namespaces[ns].groups

GetConsumerGroup(s, ns, name) == s.namespaces[ns].groups[name]

AnyConsumerGroupReferencesTopic(s, ns, name) ==
    \E g \in DOMAIN s.namespaces[ns].groups :
        name \in s.namespaces[ns].groups[g].bindings

\* A segment of the given type and owner.
OwnedBy(segment, type, ns, name) ==
    segment.type = type /\ segment.ns = ns /\ segment.name = name

\* FindOpenSegmentsFor: the IDs of the owner's open segments.
FindOpenSegmentsFor(s, type, ns, name) ==
    {id \in DOMAIN s.open : OwnedBy(s.open[id], type, ns, name)}

FindClosedSegmentsFor(s, type, ns, name) ==
    {id \in DOMAIN s.closed : OwnedBy(s.closed[id], type, ns, name)}

\* GetSegment # nil.
SegmentExists(s, id) == id \in DOMAIN s.open \cup DOMAIN s.closed
GetSegment(s, id) == IF id \in DOMAIN s.open THEN s.open[id] ELSE s.closed[id]

Alive(s, n) == s.nodes[n] = "alive"
AliveNodes(s) == {n \in DOMAIN s.nodes : Alive(s, n)}
AliveOf(s, list) == Only(list, AliveNodes(s))

\* CountSegmentsPerNode: the places a node has in segments, as primary, as
\* replica and as a node that is done.
CountSegmentsPerNode(s) ==
    LET Places(segments, n) ==
              Cardinality({id \in DOMAIN segments : segments[id].primary = n})
            + Cardinality({id \in DOMAIN segments : n \in Range(segments[id].replicating)})
            + Cardinality({id \in DOMAIN segments : n \in Range(segments[id].done)})
    IN  [n \in DOMAIN s.nodes |-> Places(s.open, n) + Places(s.closed, n)]

-----------------------------------------------------------------------------
(* Commands. *)

doCreateNamespace(s, cmd) ==
    IF NamespaceExists(s, cmd.ns) THEN s
    ELSE [s EXCEPT !.namespaces =
             Put(@, cmd.ns, [topics |-> Empty, groups |-> Empty])]

\* The namespace goes with its topics and groups; their segments stay.
doDeleteNamespace(s, cmd) ==
    [s EXCEPT !.namespaces = Without(@, {cmd.ns})]

doCreateTopic(s, cmd) ==
    [s EXCEPT !.namespaces[cmd.ns].topics = Put(@, cmd.name, cmd.topic)]

\* Bindings to the topic, offsets of its segments and of segments that are
\* gone, and all of its segments go with a topic.
doDeleteTopic(s, cmd) ==
    LET OfTopic(segments) ==
            {id \in DOMAIN segments : OwnedBy(segments[id], TOPIC, cmd.ns, cmd.name)}
        Dropped(commits) ==
            {id \in DOMAIN commits :
                \/ ~SegmentExists(s, id)
                \/ OwnedBy(GetSegment(s, id), TOPIC, cmd.ns, cmd.name)}
        Unbound(group) ==
            [bindings |-> group.bindings \ {cmd.name},
             commits |-> Without(group.commits, Dropped(group.commits))]
    IN  IF ~TopicExists(s, cmd.ns, cmd.name) THEN s
        ELSE [s EXCEPT
                !.namespaces[cmd.ns].topics = Without(@, {cmd.name}),
                !.namespaces[cmd.ns].groups = [g \in DOMAIN @ |-> Unbound(@[g])],
                !.open = Without(@, OfTopic(s.open)),
                !.closed = Without(@, OfTopic(s.closed))]

\* A group that exists keeps its offset commits.
doCreateConsumerGroup(s, cmd) ==
    [s EXCEPT !.namespaces[cmd.ns].groups =
        Put(@, cmd.name,
            [bindings |-> cmd.bindings,
             commits |-> IF cmd.name \in DOMAIN @ THEN @[cmd.name].commits
                         ELSE Empty])]

doDeleteConsumerGroup(s, cmd) ==
    IF ~ConsumerGroupExists(s, cmd.ns, cmd.name) THEN s
    ELSE [s EXCEPT
            !.namespaces[cmd.ns].groups = Without(@, {cmd.name}),
            !.open = Without(@, FindOpenSegmentsFor(s, OFFSET_COMMITS, cmd.ns, cmd.name)),
            !.closed = Without(@, FindClosedSegmentsFor(s, OFFSET_COMMITS, cmd.ns, cmd.name))]

\* The entries of the group are replaced as a whole.
doUpdateOffsetCommits(s, cmd) ==
    IF ~ConsumerGroupExists(s, cmd.ns, cmd.name) THEN s
    ELSE [s EXCEPT !.namespaces[cmd.ns].groups[cmd.name].commits = cmd.commits]

\* A defect: the ID of the new segment is not remembered.
doOpenSegmentOnly(s, cmd) == [s EXCEPT !.open = Put(@, cmd.id, cmd.segment)]

doOpenSegment(s, cmd) ==
    [s EXCEPT !.current = IF cmd.id > @ THEN cmd.id ELSE @,
              !.open = Put(@, cmd.id, cmd.segment)]

\* The closing node is the first that is done; replicas go on replicating.
doCloseSegment(s, cmd) ==
    IF cmd.id \notin DOMAIN s.open THEN s
    ELSE [s EXCEPT
            !.open = Without(@, {cmd.id}),
            !.closed = Put(@, cmd.id,
                [s.open[cmd.id] EXCEPT !.primary = NoNode, !.size = cmd.size,
                                       !.done = <<cmd.node>>])]

\* The nodes of an open or a closed segment, or one that is gone.
doUpdateSegmentNodes(s, cmd) ==
    LET Placed(segment) ==
            [segment EXCEPT !.primary = cmd.primary, !.done = cmd.done,
                            !.replicating = cmd.replicating]
    IN  IF cmd.which = "OPEN"
        THEN IF cmd.id \in DOMAIN s.open
             THEN [s EXCEPT !.open[cmd.id] = Placed(@)] ELSE s
        ELSE IF cmd.id \in DOMAIN s.closed
             THEN [s EXCEPT !.closed[cmd.id] = Placed(@)] ELSE s

doDeleteSegment(s, cmd) ==
    IF cmd.which = "OPEN"
    THEN [s EXCEPT !.open = Without(@, {cmd.id})]
    ELSE [s EXCEPT !.closed = Without(@, {cmd.id})]

doUpdateNode(s, cmd) ==
    [s EXCEPT !.nodes = Put(@, cmd.node, cmd.state)]

\* The commands that panic unless their namespace exists.
Panics(s, cmd) ==
    /\ cmd.op \in {"CreateTopic", "DeleteTopic", "CreateConsumerGroup",
                   "DeleteConsumerGroup", "UpdateOffsetCommits"}
    /\ ~NamespaceExists(s, cmd.ns)

\* ClusterStateStore.Do.
Do(s, cmd) ==
    CASE cmd.op = "CreateNamespace" -> doCreateNamespace(s, cmd)
      [] cmd.op = "DeleteNamespace" -> doDeleteNamespace(s, cmd)
      [] cmd.op = "CreateTopic" -> doCreateTopic(s, cmd)
      [] cmd.op = "DeleteTopic" -> doDeleteTopic(s, cmd)
      [] cmd.op = "CreateConsumerGroup" -> doCreateConsumerGroup(s, cmd)
      [] cmd.op = "DeleteConsumerGroup" -> doDeleteConsumerGroup(s, cmd)
      [] cmd.op = "UpdateOffsetCommits" -> doUpdateOffsetCommits(s, cmd)
      [] cmd.op = "CreateSegment" -> doOpenSegment(s, cmd)
      [] cmd.op = "CloseSegment" -> doCloseSegment(s, cmd)
      [] cmd.op = "UpdateSegmentNodes" -> doUpdateSegmentNodes(s, cmd)
      [] cmd.op = "DeleteSegment" -> doDeleteSegment(s, cmd)
      [] cmd.op = "UpdateNode" -> doUpdateNode(s, cmd)
=============================================================================
