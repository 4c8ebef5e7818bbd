------------------------------ MODULE Cluster ------------------------------
(***************************************************************************)
(* The leader of the cluster: the transactions of server*.go and the leader*)
(* part of Server.Loop, which change the cluster state one raft command at *)
(* a time, together with what feeds them: clients that create and delete   *)
(* namespaces, topics and groups, publishers that open, close and rotate   *)
(* segments, replicas that finish, members that come and go, and the tasks *)
(* that run a consumer group.                                              *)
(*                                                                         *)
(* A transaction holds the leader's mutex tx. It reads the state after a   *)
(* raft barrier, applies its commands one after the other, and ends early  *)
(* when one of them fails or the leader is lost; only member events are    *)
(* applied outside of transactions. Decisions and their first command are  *)
(* one step: a member event between the two commutes with the command. A   *)
(* transaction does not outlive the leader's term.                         *)
(***************************************************************************)
EXTENDS Reconciler

CONSTANTS
    Namespaces,     \* names clients use for namespaces, besides the default one
    Topics,         \* names of topics
    Groups,         \* names of consumer groups
    Instances,      \* what is explored: nodes, topic settings and bounds
    NoTask

ASSUME ClusterAssumption ==
    /\ \A i \in Instances :
        /\ DOMAIN i = {"nodes", "groups", "configs", "maxSegments", "maxEvents"}
        /\ i.nodes \subseteq Nat \ {NoNode}
        /\ i.groups \subseteq Groups
        /\ i.maxSegments \in Nat /\ i.maxEvents \in Nat
    /\ DefaultReplicationFactor \in Nat \ {0}

VARIABLES
    instance,   \* the instance explored, which never changes
    state,      \* the cluster state, as raft has committed it
    opened,     \* the IDs of all segments that ever were in it (history)
    current,    \* CurrentSegmentID of the leader's copy of the state
    tx,         \* the transaction: commands still to apply and what follows
    members,    \* the members the memberlist knows
    events,     \* how many of them have joined or left
    tasks,      \* taskConsumerGroup of each node
    panicked    \* a command has panicked in the state machine of every node

vars == <<instance, state, opened, current, tx, members, events, tasks, panicked>>

Nodes == instance.nodes

\* A full segment has size 1, an offset is 0 or 1.
SegmentSize == 1

NoTx == [cmds |-> <<>>, next |-> [at |-> "end"]]
End == [at |-> "end"]

\* After the first tick of the first leader.
Init ==
    /\ instance \in Instances
    /\ state = [EmptyState EXCEPT
                  !.namespaces = Put(Empty, DefaultNamespace,
                                     [topics |-> Empty, groups |-> Empty]),
                  !.nodes = [n \in Nodes |-> "alive"]]
    /\ opened = {}
    /\ current = 0
    /\ tx = NoTx
    /\ members = Nodes
    /\ events = 0
    /\ tasks = [n \in Nodes |-> NoTask]
    /\ panicked = FALSE

-----------------------------------------------------------------------------
(* Transactions. *)

\* Server.Apply: the command goes through raft and every state machine.
Apply(cmd) ==
    IF Panics(state, cmd)
    THEN panicked' = TRUE /\ UNCHANGED <<state, opened>>
    ELSE /\ state' = Do(state, cmd)
         /\ opened' = opened \cup DOMAIN state'.open
         /\ UNCHANGED panicked

\* NextSegmentID, called for each of the segments the commands create.
Allocate(cmds) ==
    LET created == SelectSeq(cmds, LAMBDA c : c.op = "CreateSegment")
    IN  /\ current + Len(created) <= instance.maxSegments
        /\ current' = current + Len(created)

\* Apply the first of the commands; the others and what follows wait.
Run(cmds, next) ==
    /\ Allocate(cmds)
    /\ IF cmds = <<>>
       THEN tx' = [cmds |-> <<>>, next |-> next] /\ UNCHANGED <<state, opened, panicked>>
       ELSE tx' = [cmds |-> Tail(cmds), next |-> next] /\ Apply(Head(cmds))

\* beginTransaction, for a request that has something to apply.
Begin(cmds, next) ==
    /\ ~panicked
    /\ tx = NoTx
    /\ Run(cmds, next)
    /\ UNCHANGED <<instance, members, events, tasks>>

\* The reconciler goes on when a command fails, so its first command is left to
\* ApplyNext and ApplyFails as well.
Plan(cmds, next) ==
    /\ Allocate(cmds)
    /\ tx' = [cmds |-> cmds, next |-> next]
    /\ UNCHANGED <<instance, state, opened, members, events, tasks, panicked>>

Continues(at) == ~panicked /\ tx.cmds = <<>> /\ tx.next.at = at

\* The next command of the transaction.
ApplyNext ==
    /\ ~panicked
    /\ tx.cmds # <<>>
    /\ Apply(Head(tx.cmds))
    /\ tx' = [tx EXCEPT !.cmds = Tail(@)]
    /\ UNCHANGED <<instance, current, members, events, tasks>>

\* Apply fails although the leader stays: the reconciler, and step e) of
\* txSegmentOpen, log the error and go on. Only ReconcileNodes gives up on the
\* nodes that have left at the first one that fails.
ApplyFails ==
    /\ ~panicked
    /\ tx.cmds # <<>>
    /\ LET cmd == Head(tx.cmds)
           givesUp == cmd.op = "UpdateNode" /\ cmd.state = "dead"
       IN  tx' = [tx EXCEPT !.cmds = IF givesUp THEN <<>> ELSE Tail(@)]
    /\ UNCHANGED <<instance, state, opened, current, members, events, tasks, panicked>>

\* The leader is lost and its transaction ends with it, or a barrier or command
\* of a request has failed. The next leader's copy of the state knows only the
\* IDs of commands that were applied.
TransactionEnds ==
    /\ ~panicked
    /\ tx' = NoTx
    /\ current' = state.current
    /\ <<tx, current>>' # <<tx, current>>
    /\ UNCHANGED <<instance, state, opened, members, events, tasks, panicked>>

-----------------------------------------------------------------------------
(* Requests of clients. *)

CreateNamespace(ns) ==
    /\ ~NamespaceExists(state, ns)
    /\ Begin(<<[op |-> "CreateNamespace", ns |-> ns]>>, End)

\* NamespaceDeleteRequest.Validate refuses the default namespace.
DeleteNamespace(ns) ==
    /\ ns # DefaultNamespace
    /\ NamespaceExists(state, ns)
    /\ Begin(<<[op |-> "DeleteNamespace", ns |-> ns]>>, End)

\* CreateTopic also changes a topic, except for its type.
CreateTopic(ns, name, config) ==
    /\ NamespaceExists(state, ns)
    /\ TopicExists(state, ns, name) => GetTopic(state, ns, name).type = config.type
    /\ LET topic == [config EXCEPT !.replicationFactor =
                        IF @ = 0 THEN DefaultReplicationFactor ELSE @]
       IN  Begin(<<[op |-> "CreateTopic", ns |-> ns, name |-> name, topic |-> topic]>>, End)

DeleteTopic(ns, name, ifUnused) ==
    /\ TopicExists(state, ns, name)
    /\ ifUnused => ~AnyConsumerGroupReferencesTopic(state, ns, name)
    /\ Begin(<<[op |-> "DeleteTopic", ns |-> ns, name |-> name]>>, End)

\* CreateConsumerGroup creates or changes the group, waits for the barrier and
\* reconciles the group with the state it then reads.
CreateConsumerGroup(ns, name, bindings) ==
    /\ NamespaceExists(state, ns)
    /\ \A t \in bindings : TopicExists(state, ns, t)
    /\ Begin(<<[op |-> "CreateConsumerGroup", ns |-> ns, name |-> name,
                bindings |-> bindings]>>,
             [at |-> "group", ns |-> ns, name |-> name])

ReconcileCreatedGroup ==
    /\ Continues("group")
    /\ Plan(ReconcileConsumerGroup(state, GroupPlan(state, current),
                                   tx.next.ns, tx.next.name).cmds, End)

\* DeleteConsumerGroup: the deletions of segments that follow find them gone.
DeleteConsumerGroup(ns, name) ==
    /\ ConsumerGroupExists(state, ns, name)
    /\ LET open == InOrder(FindOpenSegmentsFor(state, OFFSET_COMMITS, ns, name))
       IN  Begin(<<[op |-> "DeleteConsumerGroup", ns |-> ns, name |-> name]>>
                   \o [i \in DOMAIN open |-> DeleteSegment("OPEN", open[i])], End)

-----------------------------------------------------------------------------
(* Requests of nodes. *)

\* SegmentOpen, by a publisher on node n.
SegmentOpen(n, ns, name) ==
    LET cmds == OpenSegment(state, n, TOPIC, ns, name, current + 1)
    IN  cmds # <<>> /\ Begin(cmds, End)

\* SegmentClose, by the publisher that filled the segment.
SegmentClose(n, id) ==
    /\ id \in DOMAIN state.open
    /\ state.open[id].type = TOPIC
    /\ state.open[id].primary = n
    /\ Begin(CloseSegment(state, n, id, SegmentSize), End)

\* SegmentRotate without offsets, by a publisher that finds its segment full;
\* another publisher may have closed it.
SegmentRotate(n, id) ==
    /\ \/ id \in DOMAIN state.open /\ state.open[id].primary = n
       \/ id \in DOMAIN state.closed /\ n \in Range(state.closed[id].done)
    /\ GetSegment(state, id).type = TOPIC
    /\ Begin(CloseSegment(state, n, id, SegmentSize),
             [at |-> "open", node |-> n, id |-> id])

\* SegmentRotate with the offsets of a group task: its last tick may have been
\* before the latest segments came, and it has read its closed segments or not.
\* The offsets are applied before anything is known of the segment.
RotateOffsets(n) ==
    /\ tasks[n] # NoTask
    /\ LET task == tasks[n]
           entries == IF ConsumerGroupExists(state, task.ns, task.name)
                      THEN DOMAIN GetConsumerGroup(state, task.ns, task.name).commits
                      ELSE {}
       IN  \E known \in {{}, entries} : \E read \in {{}, known \cap DOMAIN state.closed} :
            Begin(<<UpdateOffsetCommits(task.ns, task.name,
                      [id \in known |-> IF id \in read THEN SegmentSize ELSE 0])>>,
                  [at |-> "close", node |-> n, id |-> task.segment])

\* txSegmentClose in SegmentRotate. An error is not looked at by the task,
\* which goes down with its process.
RotateClose ==
    /\ Continues("close")
    /\ LET n == tx.next.node
           id == tx.next.id
       IN  IF Closable(state, n, id)
           THEN /\ Run(CloseSegment(state, n, id, SegmentSize), [tx.next EXCEPT !.at = "open"])
                /\ UNCHANGED tasks
           ELSE /\ tx' = NoTx
                /\ tasks' = [tasks EXCEPT ![n] = NoTask]
                /\ UNCHANGED <<state, opened, current, panicked>>
    /\ UNCHANGED <<instance, members, events>>

\* After the barrier: a new segment for the same node, unless the old one was
\* "deleted in between". The task goes on if its node has the new segment.
RotateOpen ==
    /\ Continues("open")
    /\ LET n == tx.next.node
           id == tx.next.id
           deleted == id \notin DOMAIN state.closed
           segment == state.closed[id]
           cmds == IF deleted THEN <<>>
                   ELSE OpenSegment(state, n, segment.type, segment.ns, segment.name, current + 1)
           own == IF deleted THEN {}
                  ELSE {i \in FindOpenSegmentsFor(state', segment.type, segment.ns, segment.name) :
                            state'.open[i].primary = n}
       IN  /\ Run(cmds, End)
           /\ tasks' = IF tasks[n] = NoTask \/ tasks[n].segment # id THEN tasks
                       ELSE IF own = {} THEN [tasks EXCEPT ![n] = NoTask]
                       ELSE [tasks EXCEPT ![n].segment = CHOOSE i \in own : TRUE]
    /\ UNCHANGED <<instance, members, events>>

\* SegmentReplicaClose, by a replica that has copied the segment, or by one that
\* was replaced while it did: the handler does not look for the node in the
\* list. With an empty list it panics, and applies nothing. A node is replaced
\* after it was taken for dead (the instances do not lower replication factors).
SegmentReplicaClose(n, id) ==
    /\ id \in DOMAIN state.closed
    /\ state.closed[id].replicating # <<>>
    /\ \/ n \in Range(state.closed[id].replicating \o state.closed[id].done)
       \/ events > 0
    /\ Begin(<<ReplicaClosed(state, n, id)>>, End)

-----------------------------------------------------------------------------
(* The leader's tick: nodes, namespaces, segments and groups, each with the *)
(* state after a barrier.                                                   *)

LeaderTick ==
    /\ ~panicked
    /\ tx = NoTx
    /\ LET nodes == ReconcileNodes(state, members)
       IN  IF nodes # <<>> THEN Plan(nodes, [at |-> "namespaces"])
           ELSE Plan(ReconcileNamespaces(state), [at |-> "segments"])

TickNamespaces ==
    /\ Continues("namespaces")
    /\ Plan(ReconcileNamespaces(state), [at |-> "segments"])

\* The replicas a dead primary may be replaced by; they report any size.
Asked ==
    UNION {Range(AliveOf(state, state.open[id].replicating)) :
             id \in {i \in DOMAIN state.open : ~Alive(state, state.open[i].primary)}}

TickSegments ==
    /\ Continues("segments")
    /\ \E sizes \in [Asked -> -1..SegmentSize], reachable \in SUBSET Asked,
          expired \in SUBSET DOMAIN state.closed :
            Plan(ReconcileSegments(state, sizes, reachable, expired), [at |-> "groups"])

TickGroups ==
    /\ Continues("groups")
    /\ Plan(ReconcileConsumerGroups(state, current), End)

-----------------------------------------------------------------------------
(* Members. *)

\* A member joins or leaves. The Loop of the leader applies the event outside
\* of transactions; one that comes during its tick waits, or is lost with the
\* leader, and is left to the next tick.
MemberEvent(n) ==
    LET joins == n \notin members
        cmd == UpdateNode(n, IF joins THEN "alive" ELSE "dead")
    IN  /\ ~panicked
        /\ events < instance.maxEvents
        /\ events' = events + 1
        /\ members' = IF joins THEN members \cup {n} ELSE members \ {n}
        /\ IF tx.next.at \in {"namespaces", "segments", "groups"}
           THEN UNCHANGED <<state, opened, panicked>>
           ELSE Apply(cmd)
        /\ UNCHANGED <<instance, current, tx, tasks>>

-----------------------------------------------------------------------------
(* Tasks of consumer groups, reduced to who runs them with which log. They *)
(* start and stop between transactions: a transaction that is under way    *)
(* cannot tell.                                                            *)

\* The Loop of a node starts taskConsumerGroup for a log it is primary of; the
\* task ends at once if there is no such group.
TaskStarts(n) ==
    /\ ~panicked
    /\ tx = NoTx
    /\ tasks[n] = NoTask
    /\ \E id \in DOMAIN state.open :
        LET segment == state.open[id]
        IN  /\ segment.type = OFFSET_COMMITS
            /\ segment.primary = n
            /\ ConsumerGroupExists(state, segment.ns, segment.name)
            /\ tasks' = [tasks EXCEPT ![n] =
                   [ns |-> segment.ns, name |-> segment.name, segment |-> id]]
    /\ UNCHANGED <<instance, state, opened, current, tx, members, events, panicked>>

\* The Loop cancels the task when the log is no longer the node's, the task
\* returns when a tick no longer finds the group, or the process ends.
TaskStops(n) ==
    /\ ~panicked
    /\ tx = NoTx
    /\ tasks[n] # NoTask
    /\ tasks' = [tasks EXCEPT ![n] = NoTask]
    /\ UNCHANGED <<instance, state, opened, current, tx, members, events, panicked>>

Next ==
    \/ ApplyNext \/ ApplyFails \/ TransactionEnds
    \/ \E ns \in Namespaces : CreateNamespace(ns) \/ DeleteNamespace(ns)
    \/ \E ns \in Namespaces, t \in Topics :
          \/ \E config \in instance.configs : CreateTopic(ns, t, config)
          \/ \E ifUnused \in BOOLEAN : DeleteTopic(ns, t, ifUnused)
          \/ \E n \in Nodes : SegmentOpen(n, ns, t)
    \/ \E ns \in Namespaces, g \in instance.groups :
          \/ CreateConsumerGroup(ns, g, Topics)
          \/ DeleteConsumerGroup(ns, g)
    \/ ReconcileCreatedGroup \/ RotateClose \/ RotateOpen
    \/ \E n \in Nodes, id \in 1..instance.maxSegments :
          \/ SegmentClose(n, id) \/ SegmentRotate(n, id)
          \/ SegmentReplicaClose(n, id)
    \/ LeaderTick \/ TickNamespaces \/ TickSegments \/ TickGroups
    \/ \E n \in Nodes :
          \/ MemberEvent(n) \/ RotateOffsets(n)
          \/ TaskStarts(n) \/ TaskStops(n)

Spec == Init /\ [][Next]_vars

-----------------------------------------------------------------------------
(* Properties. *)

\* reconcileConsumerGroupOffsetCommitsSegment panics, on every leader in turn,
\* unless a group has at most one open offset commits segment, whatever
\* rotations by former primaries, failed commands and promotions there were.
OneOffsetsSegment ==
    \A ns \in Namespaces, g \in Groups :
        Cardinality(FindOpenSegmentsFor(state, OFFSET_COMMITS, ns, g)) <= 1

\* An open segment has a primary that does not replicate from itself, a closed
\* one has a node to copy from (Server.Loop and taskConsumerGroup draw from
\* DoneNodeIDs with rand.Intn), and no node has two places in a segment.
PlacesSound ==
    LET Places(segment) == segment.replicating \o segment.done
        Distinct(list) == Cardinality(Range(list)) = Len(list)
    IN  /\ DOMAIN state.open \cap DOMAIN state.closed = {}
        /\ \A id \in DOMAIN state.open :
            /\ state.open[id].primary # NoNode
            /\ Distinct(Append(Places(state.open[id]), state.open[id].primary))
        /\ \A id \in DOMAIN state.closed :
            /\ state.closed[id].primary = NoNode
            /\ state.closed[id].done # <<>>
            /\ Distinct(Places(state.closed[id]))

\* The segments of a topic.
OfTopic(segments, ns, name) ==
    {id \in DOMAIN segments : OwnedBy(segments[id], TOPIC, ns, name)}

\* When txSegmentOpen opens a segment of a topic, the topic has at most as many
\* open segments as shards, the node none but the new one, and no segment of
\* the topic has the same generation and shard, although the publishers of
\* several nodes ask at once and settings of the topic change.
ShardsRespected ==
    [][ \A id \in DOMAIN state'.open \ DOMAIN state.open :
            LET segment == state'.open[id]
                open == OfTopic(state'.open, segment.ns, segment.name)
                shards == GetTopic(state', segment.ns, segment.name).shards
            IN  segment.type = TOPIC =>
                /\ shards > 0 => Cardinality(open) <= shards
                /\ \A i \in open \ {id} : state'.open[i].primary # segment.primary
                /\ \A i \in (open \cup OfTopic(state'.closed, segment.ns, segment.name)) \ {id} :
                     \/ shards = 0
                     \/ GetSegment(state', i).generation # segment.generation
                     \/ GetSegment(state', i).shard # segment.shard
      ]_vars

\* No segment is opened with an ID that a segment had before, although leaders
\* hand IDs out from their own copies of the state: the files of the old
\* segment may still be on the nodes.
FreshIDs ==
    [][ (DOMAIN state'.open \ DOMAIN state.open) \cap opened = {} ]_vars

\* While its topic exists, a closed segment goes only when no group has an
\* entry before its end, also at the moment the command is applied
\* (reconcileClosedSegment decides earlier in its transaction).
NeededSegmentsKept ==
    [][ \A id \in DOMAIN state.closed \ DOMAIN state'.closed :
            LET segment == state.closed[id]
            IN  segment.type = TOPIC /\ TopicExists(state', segment.ns, segment.name)
                    => ~Needed(state, id)
      ]_vars

\* "namespace must exist": no command panics in the state machine
\* (cluster_state_do_consumer_groups.go, cluster_state_do_topics.go).
NoCommandPanics == ~panicked
=============================================================================
