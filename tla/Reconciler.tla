----------------------------- MODULE Reconciler -----------------------------
(***************************************************************************)
(* What the leader decides: the reconciler (reconciler_*.go) and the       *)
(* segment transactions (server_segment_create.go, server_segment_close.go,*)
(* server_segment_replica_close.go), as operators from the cluster state   *)
(* to the commands they apply.                                             *)
(*                                                                         *)
(* The reconciler goes through the segments with the number of places of   *)
(* every node at hand and updates the numbers as it goes; a plan is the    *)
(* commands found so far with those numbers. What is not in the state is   *)
(* a parameter: the members of the memberlist, the sizes replicas report,  *)
(* and the segments whose retention has passed.                            *)
(***************************************************************************)
EXTENDS ClusterState

\* defaultReplicationFactor, for offset commits segments and for topics that
\* give none.
CONSTANT DefaultReplicationFactor

\* emq.DefaultNamespace.
CONSTANT DefaultNamespace

-----------------------------------------------------------------------------
(* Commands. *)

DeleteSegment(which, id) == [op |-> "DeleteSegment", which |-> which, id |-> id]

UpdateNode(n, status) == [op |-> "UpdateNode", node |-> n, state |-> status]

UpdateOpenNodes(id, primary, replicating) ==
    [op |-> "UpdateSegmentNodes", which |-> "OPEN", id |-> id,
     primary |-> primary, replicating |-> replicating, done |-> <<>>]

UpdateClosedNodes(id, done, replicating) ==
    [op |-> "UpdateSegmentNodes", which |-> "CLOSED", id |-> id,
     primary |-> NoNode, replicating |-> replicating, done |-> done]

UpdateOffsetCommits(ns, name, commits) ==
    [op |-> "UpdateOffsetCommits", ns |-> ns, name |-> name, commits |-> commits]

CreateSegment(id, type, ns, name, generation, shard, primary, replicating) ==
    [op |-> "CreateSegment", id |-> id,
     segment |-> [type |-> type, ns |-> ns, name |-> name,
                  generation |-> generation, shard |-> shard,
                  primary |-> primary, replicating |-> replicating,
                  done |-> <<>>, size |-> 0]]

-----------------------------------------------------------------------------
(* Placement. *)

\* The k candidates with the fewest places, ties to the smaller ID.
LeastLoaded(candidates, counts, k) ==
    LET Before(m, n) == counts[m] < counts[n] \/ (counts[m] = counts[n] /\ m < n)
        Place(n) == Cardinality({m \in candidates : Before(m, n)})
        size == Cardinality(candidates)
    IN  [i \in 1..(IF k < size THEN k ELSE size) |->
            CHOOSE n \in candidates : Place(n) = i - 1]

\* The places change when the listed nodes are added or removed.
Counted(counts, added, removed) ==
    [n \in DOMAIN counts |->
        counts[n] + (IF n \in Range(added) THEN 1 ELSE 0)
                  - (IF n \in Range(removed) THEN 1 ELSE 0)]

\* The first k elements.
FirstK(list, k) == SubSeq(list, 1, IF k < Len(list) THEN k ELSE Len(list))

\* A defect: the nodes stay in the list they were moved from.
MinusNothing(list, kept) == list

\* The nodes of the list that are not kept elsewhere.
Minus(list, kept) == Only(list, Range(list) \ Range(kept))

\* A plan without commands, one more command, and new numbers.
Planned(plan, cmd, counts) == [cmds |-> Append(plan.cmds, cmd), counts |-> counts]

-----------------------------------------------------------------------------
(* Nodes and namespaces. *)

\* ReconcileNodes: members become alive, alive nodes that are no members dead.
ReconcileNodes(s, members) ==
    LET joined == {n \in members : n \notin AliveNodes(s)}
        left == AliveNodes(s) \ members
        Update(ids, status) ==
            [i \in 1..Cardinality(ids) |-> UpdateNode(InOrder(ids)[i], status)]
    IN  Update(joined, "alive") \o Update(left, "dead")

ReconcileNamespaces(s) ==
    IF NamespaceExists(s, DefaultNamespace) THEN <<>>
    ELSE <<[op |-> "CreateNamespace", ns |-> DefaultNamespace]>>

-----------------------------------------------------------------------------
(* Open segments. *)

\* The owner of a segment exists.
HasOwner(s, segment) ==
    IF segment.type = TOPIC THEN TopicExists(s, segment.ns, segment.name)
    ELSE ConsumerGroupExists(s, segment.ns, segment.name)

ReplicationFactor(s, segment) ==
    IF segment.type = TOPIC
    THEN GetTopic(s, segment.ns, segment.name).replicationFactor
    ELSE DefaultReplicationFactor

\* reconcileOpenSegmentWithAlivePrimary: too many live replicas are cut from
\* the end of the list, missing ones are filled up if there is a candidate.
ReconcileAlivePrimary(s, plan, id) ==
    LET segment == s.open[id]
        factor == ReplicationFactor(s, segment)
        alive == AliveOf(s, segment.replicating)
        kept == FirstK(alive, factor - 1)
        candidates == AliveNodes(s) \ ({segment.primary} \cup Range(alive))
        added == LeastLoaded(candidates, plan.counts, factor - 1 - Len(alive))
    IN  CASE 1 + Len(alive) > factor ->
                Planned(plan, UpdateOpenNodes(id, segment.primary, kept),
                        Counted(plan.counts, <<>>,
                                IF factor > 1 THEN Minus(segment.replicating, kept)
                                ELSE <<>>))
          [] 1 + Len(alive) < factor /\ candidates # {} ->
                Planned(plan, UpdateOpenNodes(id, segment.primary, alive \o added),
                        Counted(plan.counts, added, <<>>))
          [] OTHER -> plan

\* reconcileOpenSegmentWithDeadPrimary: the live replica that reports the
\* largest file, the first of equals, becomes the primary. A replica without
\* the file reports -1 and is not eligible. If one cannot be asked, nothing
\* happens until the next tick.
ReconcileDeadPrimary(s, plan, id, sizes, reachable) ==
    LET alive == AliveOf(s, s.open[id].replicating)
        Best(i) == /\ sizes[alive[i]] > -1
                   /\ \A j \in DOMAIN alive :
                        \/ sizes[alive[j]] < sizes[alive[i]]
                        \/ sizes[alive[j]] = sizes[alive[i]] /\ j >= i
        promoted == alive[CHOOSE i \in DOMAIN alive : Best(i)]
    IN  IF /\ Range(alive) \subseteq reachable
           /\ \E i \in DOMAIN alive : Best(i)
        THEN Planned(plan, UpdateOpenNodes(id, promoted, Minus(alive, <<promoted>>)),
                     plan.counts)
        ELSE plan

\* reconcileOpenSegment.
ReconcileOpenSegment(s, plan, id, sizes, reachable) ==
    IF ~HasOwner(s, s.open[id])
    THEN Planned(plan, DeleteSegment("OPEN", id), plan.counts)
    ELSE IF Alive(s, s.open[id].primary)
    THEN ReconcileAlivePrimary(s, plan, id)
    ELSE ReconcileDeadPrimary(s, plan, id, sizes, reachable)

-----------------------------------------------------------------------------
(* Closed segments. *)

\* Some group has not consumed the segment to its end.
Needed(s, id) ==
    \E ns \in DOMAIN s.namespaces :
        \E g \in DOMAIN s.namespaces[ns].groups :
            LET commits == s.namespaces[ns].groups[g].commits
            IN  id \in DOMAIN commits /\ commits[id] < s.closed[id].size

\* A defect: retention looks at the time only.
ExpiredByTime(s, id, expired) ==
    GetTopic(s, s.closed[id].ns, s.closed[id].name).retention /\ id \in expired

\* A topic's segment that its retention no longer keeps.
Expired(s, id, expired) ==
    /\ GetTopic(s, s.closed[id].ns, s.closed[id].name).retention
    /\ id \in expired
    /\ ~Needed(s, id)

\* The second half of reconcileClosedSegment: as for open segments, but only
\* with a live node that is done to copy from.
ReconcileClosedReplicas(s, plan, id) ==
    LET segment == s.closed[id]
        factor == ReplicationFactor(s, segment)
        done == AliveOf(s, segment.done)
        replicating == AliveOf(s, segment.replicating)
        keptDone == FirstK(done, factor)
        kept == FirstK(replicating, factor - Len(keptDone))
        candidates == AliveNodes(s) \ (Range(done) \cup Range(replicating))
        added == LeastLoaded(candidates, plan.counts,
                             factor - Len(done) - Len(replicating))
    IN  CASE done = <<>> -> plan
          [] done # <<>> /\ Len(done) + Len(replicating) > factor ->
                Planned(plan, UpdateClosedNodes(id, keptDone, kept),
                        Counted(plan.counts, <<>>,
                                IF Len(keptDone) < factor
                                THEN Minus(segment.replicating, kept) ELSE <<>>))
          [] /\ done # <<>>
             /\ Len(done) + Len(replicating) < factor
             /\ candidates # {} ->
                Planned(plan, UpdateClosedNodes(id, done, replicating \o added),
                        Counted(plan.counts, added, <<>>))
          [] OTHER -> plan

\* reconcileClosedSegment: offset commits segments go at once, because their
\* offsets are in the cluster state.
ReconcileClosedSegment(s, plan, id, expired) ==
    LET segment == s.closed[id]
    IN  IF \/ segment.type = OFFSET_COMMITS
           \/ ~HasOwner(s, segment)
           \/ Expired(s, id, expired)
        THEN Planned(plan, DeleteSegment("CLOSED", id), plan.counts)
        ELSE ReconcileClosedReplicas(s, plan, id)

\* ReconcileSegments.
ReconcileSegments(s, sizes, reachable, expired) ==
    LET open == InOrder(DOMAIN s.open)
        closed == InOrder(DOMAIN s.closed)
        Open[i \in 0..Len(open)] ==
            IF i = 0 THEN [cmds |-> <<>>, counts |-> CountSegmentsPerNode(s)]
            ELSE ReconcileOpenSegment(s, Open[i - 1], open[i], sizes, reachable)
        Closed[i \in 0..Len(closed)] ==
            IF i = 0 THEN Open[Len(open)]
            ELSE ReconcileClosedSegment(s, Closed[i - 1], closed[i], expired)
    IN  Closed[Len(closed)].cmds

-----------------------------------------------------------------------------
(* Consumer groups. *)

\* The topic segments a group is to have offsets for.
BoundSegments(s, ns, name) ==
    LET Bound(segment) ==
            /\ segment.type = TOPIC
            /\ segment.ns = ns
            /\ segment.name \in GetConsumerGroup(s, ns, name).bindings
    IN  {id \in DOMAIN s.open : Bound(s.open[id])}
            \cup {id \in DOMAIN s.closed : Bound(s.closed[id])}

\* reconcileConsumerGroupOffsetCommitsSegment: a group without an open offset
\* commits segment gets one, without replicas, on the live node with the
\* fewest places. next is what NextSegmentID returns.
OffsetCommitsSegment(s, counts, ns, name, next) ==
    LET primary == LeastLoaded(AliveNodes(s), counts, 1)
    IN  IF \/ FindOpenSegmentsFor(s, OFFSET_COMMITS, ns, name) # {}
           \/ primary = <<>>
        THEN <<>>
        ELSE <<CreateSegment(next, OFFSET_COMMITS, ns, name, 0, 0, primary[1], <<>>)>>

\* reconcileConsumerGroupOffsetCommits: entries for the bound segments, offset
\* 0 for new ones, and no others.
OffsetCommits(s, ns, name) ==
    LET commits == GetConsumerGroup(s, ns, name).commits
        bound == BoundSegments(s, ns, name)
    IN  IF DOMAIN commits = bound THEN <<>>
        ELSE <<UpdateOffsetCommits(ns, name,
                 [id \in bound |-> IF id \in DOMAIN commits THEN commits[id] ELSE 0])>>

\* ReconcileConsumerGroup, and the body of the loop of ReconcileConsumerGroups.
ReconcileConsumerGroup(s, plan, ns, name) ==
    LET created == OffsetCommitsSegment(s, plan.counts, ns, name, plan.next)
    IN  [cmds |-> plan.cmds \o created \o OffsetCommits(s, ns, name),
         counts |-> IF created = <<>> THEN plan.counts
                    ELSE Counted(plan.counts, <<created[1].segment.primary>>, <<>>),
         next |-> plan.next + Len(created)]

\* The plan ReconcileConsumerGroup(s) start from: after NextSegmentID has
\* returned the IDs up to current.
GroupPlan(s, current) ==
    [cmds |-> <<>>, counts |-> CountSegmentsPerNode(s), next |-> current + 1]

ReconcileConsumerGroups(s, current) ==
    LET groups == UNION {{<<ns, g>> : g \in DOMAIN s.namespaces[ns].groups} :
                            ns \in DOMAIN s.namespaces}
        order == AsList(groups)
        Plan[i \in 0..Len(order)] ==
            IF i = 0 THEN GroupPlan(s, current)
            ELSE ReconcileConsumerGroup(s, Plan[i - 1], order[i][1], order[i][2])
    IN  Plan[Len(order)].cmds

-----------------------------------------------------------------------------
(* Segment transactions. *)

\* The owner's segments of the latest generation, which is at least 1.
Generation(s, type, ns, name) ==
    LET generations == {1} \cup {GetSegment(s, id).generation :
            id \in FindOpenSegmentsFor(s, type, ns, name)
                    \cup FindClosedSegmentsFor(s, type, ns, name)}
    IN  CHOOSE g \in generations : \A h \in generations : h <= g

GenerationSegments(s, type, ns, name) ==
    {id \in FindOpenSegmentsFor(s, type, ns, name)
                \cup FindClosedSegmentsFor(s, type, ns, name) :
        GetSegment(s, id).generation = Generation(s, type, ns, name)}

\* A node has a segment as its primary or has finished with it.
HasSegment(segment, n) == segment.primary = n \/ n \in Range(segment.done)

\* Steps a) and b) of txSegmentOpen: the generation and the shard of a new
\* segment of the node. A full generation, or one in which the node has a
\* segment, is followed by a new one; otherwise the first free shard is taken.
Slot(s, n, type, ns, name, shards) ==
    LET generation == Generation(s, type, ns, name)
        segments == {GetSegment(s, id) : id \in GenerationSegments(s, type, ns, name)}
        full == shards > 0 /\ Cardinality(GenerationSegments(s, type, ns, name)) >= shards
        free == {i \in 1..shards : \A segment \in segments : segment.shard # i}
    IN  IF full \/ \E segment \in segments : HasSegment(segment, n)
        THEN [generation |-> generation + 1, shard |-> 1]
        ELSE [generation |-> generation,
              shard |-> IF free = {} THEN 1
                        ELSE CHOOSE i \in free : \A j \in free : i <= j]

\* A defect: offset commits segments are not limited.
ShardsOfTopics(s, type, ns, name) ==
    IF type = TOPIC THEN GetTopic(s, ns, name).shards ELSE 0

Shards(s, type, ns, name) ==
    IF type = TOPIC THEN GetTopic(s, ns, name).shards ELSE 1

\* A defect: one segment more than shards.
MayOpenOneMore(s, n, type, ns, name) ==
    LET segments == FindOpenSegmentsFor(s, type, ns, name)
        shards == Shards(s, type, ns, name)
    IN  /\ \A id \in segments : s.open[id].primary # n
        /\ shards > 0 => Cardinality(segments) <= shards

\* txSegmentOpen creates no segment if the node has one, or if the owner has
\* as many as it may have shards.
MayOpen(s, n, type, ns, name) ==
    LET segments == FindOpenSegmentsFor(s, type, ns, name)
        shards == Shards(s, type, ns, name)
    IN  /\ \A id \in segments : s.open[id].primary # n
        /\ shards > 0 => Cardinality(segments) < shards

\* Step e): the offset commits of every bound group with the new segment, as
\* the group was when the transaction read the state.
WithNewSegment(s, ns, name, id) ==
    LET bound == AsList({g \in DOMAIN s.namespaces[ns].groups :
                    name \in s.namespaces[ns].groups[g].bindings})
    IN  [i \in DOMAIN bound |->
            UpdateOffsetCommits(ns, bound[i],
                Put(s.namespaces[ns].groups[bound[i]].commits, id, 0))]

\* txSegmentOpen: the commands that open a segment of which the node is the
\* primary. next is what NextSegmentID returns.
OpenSegment(s, n, type, ns, name, next) ==
    LET segment == [type |-> type, ns |-> ns, name |-> name]
        factor == ReplicationFactor(s, segment)
        slot == Slot(s, n, type, ns, name, Shards(s, type, ns, name))
        replicas == LeastLoaded(AliveNodes(s) \ {n}, CountSegmentsPerNode(s), factor - 1)
    IN  IF /\ n \in DOMAIN s.nodes
           /\ HasOwner(s, segment)
           /\ MayOpen(s, n, type, ns, name)
        THEN <<CreateSegment(next, type, ns, name, slot.generation, slot.shard, n, replicas)>>
                \o (IF type = TOPIC THEN WithNewSegment(s, ns, name, next) ELSE <<>>)
        ELSE <<>>

\* txSegmentClose succeeds: the segment is closed already, or the node is its
\* primary and closes it.
Closable(s, n, id) ==
    id \in DOMAIN s.closed \/ (id \in DOMAIN s.open /\ s.open[id].primary = n)

CloseSegment(s, n, id, size) ==
    IF id \in DOMAIN s.open
    THEN <<[op |-> "CloseSegment", id |-> id, node |-> n, size |-> size]>> ELSE <<>>

\* SegmentReplicaClose, for a replica whose size and hash are right: the node
\* moves from the replicating to the done nodes.
ReplicaClosed(s, n, id) ==
    UpdateClosedNodes(id, Append(Minus(s.closed[id].done, <<n>>), n),
                      Minus(s.closed[id].replicating, <<n>>))
=============================================================================
