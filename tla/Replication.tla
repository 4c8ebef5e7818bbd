---------------------------- MODULE Replication ----------------------------
(***************************************************************************)
(* One segment of a topic from its first message to its last copy: Publish *)
(* on the primary (server_topic_publish.go), the node part of Server.Loop  *)
(* with its task manager, taskSegmentReplication, the handlers SegmentSum  *)
(* and SegmentRead it calls on the node it copies from, and the leader,    *)
(* with the reconciler and the transactions of module Reconciler.          *)
(*                                                                         *)
(* A file is the sequence of its messages; a checksum is what it is taken  *)
(* of. SegmentFile models the files and iterators in detail, SegmentDir    *)
(* their opening and removal, Cluster the leader's transactions and the    *)
(* loss of the leader, so that raft always has a leader here. Nodes crash  *)
(* and come back with their files, and may be taken for dead while they    *)
(* run.                                                                    *)
(***************************************************************************)
EXTENDS Reconciler

CONSTANTS
    Nodes,
    MaxSizes,       \* numbers of messages that make a segment full
    MaxMessages,    \* messages published
    MaxFailures,    \* crashes, false suspicions and lost transactions
    NoFile          \* the file of a node that has none

ASSUME ReplicationAssumption ==
    /\ Nodes \subseteq Nat \ {NoNode} /\ 1 \in Nodes
    /\ IsFiniteSet(Nodes)
    /\ MaxSizes \subseteq Nat \ {0} /\ MaxMessages \in Nat /\ MaxFailures \in Nat
    /\ NoFile \notin Seq(Nodes \X Nat)
    /\ DefaultReplicationFactor \in Nat \ {0}

VARIABLES
    MaxSize,    \* the size of a full segment (never changes)
    state,      \* the cluster state, as raft has committed it
    sealed,     \* size and sha1 of the closed segment: its content
    plan,       \* commands the leader's tick has decided on
    local,      \* the segment in the copy of the state each node has
    behind,     \* nodes whose copy is not the last one
    handled,    \* the Loop of the node has acted on that copy
    file,       \* the file of each node
    task,       \* its replications of the open and of the closed segment
    closing,    \* the Publish that is about to close the full segment
    chosen,     \* nodes no longer the primary where a Publish may hold the segment
    published,  \* messages so far
    acked,      \* messages whose Publish succeeded (history)
    up,         \* nodes whose process runs
    failures,   \* failures so far
    failed,     \* nodes that crashed or were taken for dead (history)
    cut         \* nodes whose file was cut although it counted (history)

leader == <<MaxSize, state, sealed, plan>>
copies == <<local, behind>>
vars == <<leader, copies, handled, file, task, closing, chosen, published,
          acked, up, failures, failed, cut>>

Segment == 1
NoClosing == [sum |-> <<>>, msgs |-> {}]
NoTask == [pc |-> "none"]
Kinds == {"open", "closed"}

\* The state after txSegmentOpen for a publisher on node 1.
Opened ==
    LET topic == [type |-> "direct", shards |-> 1, retention |-> FALSE,
                  replicationFactor |-> DefaultReplicationFactor]
        empty == [EmptyState EXCEPT
                    !.namespaces = Put(Empty, DefaultNamespace,
                        [topics |-> Put(Empty, "topic", topic),
                         groups |-> Empty]),
                    !.nodes = [n \in Nodes |-> "alive"]]
    IN  Do(empty, OpenSegment(empty, 1, TOPIC, DefaultNamespace, "topic",
                              Segment)[1])

\* The segment as it is in a state. An open segment has a primary, a closed one
\* nodes that are done.
View(s) == GetSegment(s, Segment)

Init ==
    /\ MaxSize \in MaxSizes
    /\ state = Opened
    /\ sealed = <<>>
    /\ plan = <<>>
    /\ local = [n \in Nodes |-> View(Opened)]
    /\ behind = {}
    /\ handled = [n \in Nodes |-> FALSE]
    /\ file = [n \in Nodes |-> NoFile]
    /\ task = [n \in Nodes |-> [kind \in Kinds |-> NoTask]]
    /\ closing = [n \in Nodes |-> NoClosing]
    /\ chosen = {}
    /\ published = 0
    /\ acked = {}
    /\ up = Nodes
    /\ failures = 0
    /\ failed = {}
    /\ cut = {}

\* A command is committed; the state machine of every node has yet to apply it.
Apply(cmd) ==
    /\ state' = Do(state, cmd)
    /\ behind' = Nodes

\* segmentDir.Open creates a file that does not exist.
OpenFile(n) == IF file[n] = NoFile THEN <<>> ELSE file[n]

IsClosed(segment) == segment.primary = NoNode
Closed == IsClosed(View(state))
IsReplica(n) == n \in Range(View(state).replicating)
IsDone(n) == n \in Range(View(state).done)

-----------------------------------------------------------------------------
(* Publish. *)

\* A defect: the message is not written again to the segment after this one.
WrittenOnce(message, full) == {message}

\* The messages of a Publish that this segment takes: none if it was full.
Written(message, full) == IF full THEN {} ELSE {message}

\* A Publish chooses the segment if its node is the primary in the local state;
\* otherwise, the topic having one shard, it forwards the message. It does not
\* look again, whatever the node learns before it writes.
Chooses(n) == n \in chosen \/ (n \in up /\ local[n].primary = n)

\* A message is written to the local segment. Whoever fills it, or finds it
\* full, takes its sum to close it; the others have published.
Publish(n) ==
    LET message == <<n, published + 1>>
        full == Len(OpenFile(n)) >= MaxSize
        content == IF full THEN OpenFile(n) ELSE Append(OpenFile(n), message)
    IN  /\ Chooses(n)
        /\ published < MaxMessages
        /\ published' = published + 1
        /\ file' = [file EXCEPT ![n] = content]
        /\ IF Len(content) >= MaxSize
           THEN /\ closing[n] = NoClosing
                /\ closing' = [closing EXCEPT ![n] =
                     [sum |-> content, msgs |-> Written(message, full)]]
                /\ UNCHANGED acked
           ELSE acked' = acked \cup {message} /\ UNCHANGED closing
        /\ UNCHANGED <<leader, copies, handled, task, chosen, up, failures,
                       failed, cut>>

\* SegmentClose, or SegmentRotate for whoever found the segment full: the new
\* segment it opens is not this one.
PublishCloses(n) ==
    /\ closing[n] # NoClosing
    /\ plan = <<>>
    /\ closing' = [closing EXCEPT ![n] = NoClosing]
    /\ IF Closable(state, n, Segment)
       THEN LET cmds == CloseSegment(state, n, Segment, Len(closing[n].sum))
            IN  /\ IF cmds = <<>> THEN UNCHANGED <<state, behind, sealed>>
                   ELSE Apply(cmds[1]) /\ sealed' = closing[n].sum
                /\ acked' = acked \cup closing[n].msgs
       ELSE UNCHANGED <<state, behind, sealed, acked>>
    /\ UNCHANGED <<MaxSize, plan, local, handled, file, task, chosen,
                   published, up, failures, failed, cut>>

-----------------------------------------------------------------------------
(* The Loop of a node. *)

\* The state machine of the node catches up with the log. The Loop will find a
\* new state, whatever the commands were.
Learn(n) ==
    /\ n \in up
    /\ n \in behind
    /\ behind' = behind \ {n}
    /\ local' = [local EXCEPT ![n] = View(state)]
    /\ chosen' = IF Chooses(n) /\ View(state).primary # n
                 THEN chosen \cup {n} ELSE chosen \ {n}
    /\ handled' = [handled EXCEPT ![n] = FALSE]
    /\ UNCHANGED <<leader, file, task, closing, published, acked, up,
                   failures, failed, cut>>

Started(src) == [pc |-> "start", src |-> src, size |-> 0, end |-> 0,
                 held |-> <<>>, valid |-> TRUE, cancelled |-> FALSE]

\* A replication that is to run is started unless it is in the running map,
\* one that is not is cancelled and stays in the map until it completes.
Reconciled(t, wanted, src) ==
    IF wanted THEN IF t = NoTask THEN Started(src) ELSE t
    ELSE IF t = NoTask THEN t ELSE [t EXCEPT !.cancelled = TRUE]

\* The node tick: the open segment is copied from its primary, the closed one
\* from a random node that is done.
Tick(n) ==
    /\ n \in up
    /\ ~handled[n]
    /\ LET closed == IsClosed(local[n])
           replica == n \in Range(local[n].replicating)
       IN  \E src \in IF closed THEN Range(local[n].done)
                    ELSE {local[n].primary} :
            task' = [task EXCEPT ![n] = [kind \in Kinds |->
                Reconciled(@[kind], replica /\ closed = (kind = "closed"), src)]]
    /\ handled' = [handled EXCEPT ![n] = TRUE]
    /\ UNCHANGED <<leader, copies, file, closing, chosen, published, acked,
                   up, failures, failed, cut>>

-----------------------------------------------------------------------------
(* taskSegmentReplication. *)

At(n, kind, pc) == task[n][kind].pc = pc

\* A defect: the Loop does not look at the state again.
FailedQuietly(n, kind) ==
    /\ task' = [task EXCEPT ![n][kind] = NoTask]
    /\ UNCHANGED handled

\* The task ends with an error. The Loop reads it from the manager's channel,
\* takes it out of the running map, and looks at the cluster state again.
Failed(n, kind) ==
    /\ task' = [task EXCEPT ![n][kind] = NoTask]
    /\ handled' = [handled EXCEPT ![n] = FALSE]

\* SegmentSum of as many bytes as the local file has; nothing if there is no
\* file, less if it is shorter.
Matches(sum, remote) ==
    /\ remote # NoFile /\ Len(sum) <= Len(remote)
    /\ SubSeq(remote, 1, Len(sum)) = sum

\* The local file is opened and summed and the sums are compared.
TaskCompares(n, kind) ==
    LET t == task[n][kind]
        sum == OpenFile(n)
    IN  /\ At(n, kind, "start")
        /\ file' = [file EXCEPT ![n] = sum]
        /\ IF t.src \in up /\ ~t.cancelled
           THEN /\ task' = [task EXCEPT ![n][kind] =
                      [t EXCEPT !.pc = "truncate",
                          !.size = IF Matches(sum, file[t.src]) THEN Len(sum) ELSE 0]]
                /\ UNCHANGED handled
           ELSE Failed(n, kind)
        /\ UNCHANGED <<leader, copies, closing, chosen, published, acked, up,
                       failures, failed, cut>>

\* The file of n counts: its sum is under way to the leader or known to it, or
\* the node has not failed and has messages in it that it has taken, or may
\* still publish to the segment it has closed.
Counts(n) ==
    \/ IsDone(n)
    \/ closing[n] # NoClosing
    \/ \E kind \in Kinds : At(n, kind, "close")
    \/ /\ n \notin failed
       /\ \/ \E m \in acked : m[1] = n /\ m \in Range(file[n])
          \/ Closed /\ n \in chosen

\* The iterators of a truncated file are no longer valid.
Invalidated(n) ==
    [m \in Nodes |-> [kind \in Kinds |->
        IF task[m][kind] # NoTask /\ task[m][kind].src = n
        THEN [task[m][kind] EXCEPT !.valid = FALSE] ELSE task[m][kind]]]

\* Truncate, for which the context is not looked at; a file that has become
\* shorter meanwhile is not extended. Then SegmentRead gets an iterator from
\* there on, which ends with the full file if it waits, and with what the file
\* has now if it does not.
TaskTruncates(n, kind) ==
    LET t == task[n][kind]
        source == OpenFile(t.src)
        end == IF kind = "open" THEN MaxSize ELSE Len(source)
    IN  /\ At(n, kind, "truncate")
        /\ IF t.size > Len(file[n])
           THEN Failed(n, kind) /\ UNCHANGED <<file, cut>>
           ELSE /\ file' = [file EXCEPT ![n] = SubSeq(@, 1, t.size)]
                /\ cut' = cut \cup {m \in {n} : t.size < Len(file[n]) /\ Counts(n)}
                /\ IF /\ t.src \in up /\ ~t.cancelled
                      /\ file[t.src] # NoFile /\ t.size <= Len(source)
                   THEN /\ task' = [Invalidated(n) EXCEPT
                              ![n][kind] = [t EXCEPT !.pc = "copy", !.valid = TRUE,
                                                     !.end = end]]
                        /\ UNCHANGED handled
                   ELSE /\ task' = [Invalidated(n) EXCEPT ![n][kind] = NoTask]
                        /\ handled' = [handled EXCEPT ![n] = FALSE]
        /\ UNCHANGED <<leader, copies, closing, chosen, published, acked, up,
                       failures, failed>>

\* Recv returns the next message. size is the position of the iterator.
TaskReceives(n, kind) ==
    LET t == task[n][kind]
    IN  /\ At(n, kind, "copy")
        /\ t.src \in up /\ t.valid
        /\ t.size < t.end /\ t.size < Len(file[t.src])
        /\ task' = [task EXCEPT ![n][kind] =
                      [t EXCEPT !.pc = "write", !.size = t.size + 1,
                                !.held = <<file[t.src][t.size + 1]>>]]
        /\ UNCHANGED <<leader, copies, handled, file, closing, chosen,
                       published, acked, up, failures, failed, cut>>

\* Write; a full file is an error.
TaskWrites(n, kind) ==
    LET t == task[n][kind]
    IN  /\ At(n, kind, "write")
        /\ IF Len(file[n]) < MaxSize
           THEN /\ file' = [file EXCEPT ![n] = @ \o t.held]
                /\ task' = [task EXCEPT ![n][kind] =
                              [t EXCEPT !.pc = "copy", !.held = <<>>]]
                /\ UNCHANGED handled
           ELSE Failed(n, kind) /\ UNCHANGED file
        /\ UNCHANGED <<leader, copies, closing, chosen, published, acked, up,
                       failures, failed, cut>>

\* The end of the stream. Who has copied the open segment waits for it to be
\* closed in the local state, and looks at the context only while it is not; the
\* node it has copied from may fail meanwhile. Then the file is summed.
TaskSums(n, kind) ==
    LET t == task[n][kind]
    IN  /\ At(n, kind, "copy")
        /\ t.size >= t.end
        /\ IF kind = "open" THEN IsClosed(local[n]) ELSE t.src \in up /\ t.valid
        /\ task' = [task EXCEPT ![n][kind] =
                      [t EXCEPT !.pc = "close", !.held = file[n]]]
        /\ UNCHANGED <<leader, copies, handled, file, closing, chosen,
                       published, acked, up, failures, failed, cut>>

\* A context that is cancelled, a node that is down or an iterator that is not
\* valid ends the stream with an error.
TaskBreaks(n, kind) ==
    LET t == task[n][kind]
    IN  /\ At(n, kind, "copy")
        /\ t.src \notin up \/ ~t.valid \/ t.cancelled
        /\ Failed(n, kind)
        /\ UNCHANGED <<leader, copies, file, closing, chosen, published,
                       acked, up, failures, failed, cut>>

\* A defect: SegmentReplicaClose compares sizes only.
SameSize(sum) == Len(sum) = Len(sealed)

\* SegmentReplicaClose compares size and sha1.
Intact(sum) == sum = sealed

\* SegmentReplicaClose: the leader moves the node to the done ones. The answer reaches the task,
\* and the Loop takes it out of the map, before the leader changes the segment
\* again.
TaskCloses(n, kind) ==
    /\ At(n, kind, "close")
    /\ plan = <<>>
    /\ Closed /\ Intact(task[n][kind].held) /\ View(state).replicating # <<>>
    /\ Apply(ReplicaClosed(state, n, Segment))
    /\ task' = [task EXCEPT ![n][kind] = NoTask]
    /\ UNCHANGED <<MaxSize, sealed, plan, local, handled, file, closing,
                   chosen, published, acked, up, failures, failed, cut>>

\* The sum is refused, or the context is cancelled before the call. If no node
\* is replicating the handler panics: the call fails, and the leader crashes.
TaskRefused(n, kind) ==
    LET t == task[n][kind]
    IN  /\ At(n, kind, "close")
        /\ \/ t.cancelled \/ ~Closed \/ ~Intact(t.held)
           \/ View(state).replicating = <<>>
        /\ Failed(n, kind)
        /\ UNCHANGED <<leader, copies, file, closing, chosen, published,
                       acked, up, failures, failed, cut>>

TaskStep(n, kind) ==
    \/ TaskCompares(n, kind) \/ TaskTruncates(n, kind) \/ TaskReceives(n, kind)
    \/ TaskWrites(n, kind) \/ TaskSums(n, kind) \/ TaskBreaks(n, kind)
    \/ TaskCloses(n, kind) \/ TaskRefused(n, kind)

-----------------------------------------------------------------------------
(* The leader. *)

\* The tick asks the replicas of a dead primary for their sizes and decides;
\* its transaction keeps requests out until the command is applied.
LeaderTick ==
    LET sizes == [n \in Nodes |-> IF file[n] = NoFile THEN -1 ELSE Len(file[n])]
    IN  /\ plan = <<>>
        /\ plan' = ReconcileSegments(state, sizes, up, {})
        /\ plan' # <<>>
        /\ UNCHANGED <<MaxSize, state, sealed, copies, handled, file, task,
                       closing, chosen, published, acked, up, failures,
                       failed, cut>>

LeaderApplies ==
    /\ plan # <<>>
    /\ Apply(Head(plan))
    /\ plan' = Tail(plan)
    /\ UNCHANGED <<MaxSize, sealed, local, handled, file, task, closing,
                   chosen, published, acked, up, failures, failed, cut>>

\* A command, or the close of a publisher, is lost with the leader.
LeaderLost ==
    /\ failures < MaxFailures
    /\ failures' = failures + 1
    /\ plan' = <<>>
    /\ \E lost \in SUBSET Nodes :
        closing' = [n \in Nodes |-> IF n \in lost THEN NoClosing ELSE closing[n]]
    /\ <<plan, closing>>' # <<plan, closing>>
    /\ UNCHANGED <<MaxSize, state, sealed, copies, handled, file, task,
                   chosen, published, acked, up, failed, cut>>

\* A member event of the leader's Loop: a node that is down is dead, one that
\* runs is alive.
MemberEvent(n) ==
    /\ plan = <<>>
    /\ Alive(state, n) # (n \in up)
    /\ Apply(UpdateNode(n, IF n \in up THEN "alive" ELSE "dead"))
    /\ UNCHANGED <<MaxSize, sealed, plan, local, handled, file, task, closing,
                   chosen, published, acked, up, failures, failed, cut>>

-----------------------------------------------------------------------------
(* Failures. *)

\* The process ends; files are durable.
Crash(n) ==
    /\ n \in up
    /\ failures < MaxFailures
    /\ failures' = failures + 1
    /\ up' = up \ {n}
    /\ failed' = failed \cup {n}
    /\ task' = [Invalidated(n) EXCEPT ![n] = [kind \in Kinds |-> NoTask]]
    /\ closing' = [closing EXCEPT ![n] = NoClosing]
    /\ chosen' = chosen \ {n}
    /\ handled' = [handled EXCEPT ![n] = FALSE]
    /\ UNCHANGED <<leader, copies, file, published, acked, cut>>

Restart(n) ==
    /\ n \notin up
    /\ up' = up \cup {n}
    /\ UNCHANGED <<leader, copies, handled, file, task, closing, chosen,
                   published, acked, failures, failed, cut>>

\* The memberlist takes a running node for dead.
Suspect(n) ==
    /\ plan = <<>>
    /\ n \in up
    /\ Alive(state, n)
    /\ failures < MaxFailures
    /\ failures' = failures + 1
    /\ failed' = failed \cup {n}
    /\ Apply(UpdateNode(n, "dead"))
    /\ UNCHANGED <<MaxSize, sealed, plan, local, handled, file, task, closing,
                   chosen, published, acked, up, cut>>

-----------------------------------------------------------------------------

NodeStep(n) ==
    \/ PublishCloses(n) \/ Learn(n) \/ Tick(n)
    \/ \E kind \in Kinds : TaskStep(n, kind)

Next ==
    \/ LeaderTick \/ LeaderApplies \/ LeaderLost
    \/ \E n \in Nodes :
        \/ Publish(n) \/ NodeStep(n) \/ MemberEvent(n)
        \/ Crash(n) \/ Restart(n) \/ Suspect(n)

Spec == Init /\ [][Next]_vars

-----------------------------------------------------------------------------
(* Properties. *)

\* A node that is done has the content that was closed, byte for byte, although
\* two replications of the segment may write to its file at once, the source
\* may change under a copy, and a node that lost the segment may still publish
\* to it. The exception is a replication that truncates the file late, after its
\* sum was taken: it does not look at its context before it truncates.
DoneExact ==
    \A n \in Nodes : IsDone(n) => n \in cut \/ file[n] = sealed

\* A message whose Publish succeeded is in the segment, open on its primary or
\* closed, unless the node that took it crashed or was taken for dead: failures
\* of others, promotions and copies do not lose it. The exception is again a
\* replication that truncates late, after its node became the primary.
AckedKept ==
    \A m \in acked :
        \/ m[1] \in failed \cup cut
        \/ m \in Range(IF Closed THEN sealed
                       ELSE OpenFile(state.open[Segment].primary))

\* A replication that waits for the node it copies from to write more.
Blocked(t) ==
    /\ t.pc = "copy" /\ ~t.cancelled /\ t.valid /\ t.src \in up
    /\ t.size < t.end /\ t.size >= Len(file[t.src])

\* No replica of a closed segment is forgotten, and none hangs: if its node runs,
\* then a replication of it is under way that waits for nobody, or the Loop of
\* the node has yet to look at the state, whatever failed, was cancelled, or
\* was still in the running map when the segment was closed.
ReplicasDriven ==
    \A n \in up :
        Closed /\ IsReplica(n) =>
            \/ n \in behind \/ ~handled[n]
            \/ task[n]["closed"] # NoTask /\ ~Blocked(task[n]["closed"])
=============================================================================
