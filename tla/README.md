# A TLA+ development of EventterMQ

EventterMQ (`src/mq`) is a message queue: topics are made of *segments*,
append-only files that nodes replicate; *consumer groups* read the segments of
the topics they are bound to, hand the messages to subscribed clients and log
which offsets are committed. The cluster state (nodes, topics, groups, segments
and who holds them) is a raft state machine; a reconciler on the leader repairs
it, and every node runs the tasks the state assigns to it.

## The system and its parts

| part | modules | what makes it hard |
|---|---|---|
| group buffer and its handlers, `consumers/` | ConsumerGroup, WorkQueue, ConsumerGroupRefinement | a condition variable shared by all; work done after the unlock; acks out of order |
| group task, `task_consumer_group.go` | ConsumerGroupTask | a crash between any two steps; stale cluster state; restarted tasks |
| segment file and iterator, `segments/` | SegmentFile | torn writes; readers without the mutex; lost wakeups |
| segment directory and garbage collection, `segments/dir.go`, `server_loop.go` | SegmentDir | check-then-act on the cluster state |
| cluster state, `cluster_state*.go` | ClusterState, Cluster | commands computed from older states; segment IDs across leaders |
| leader: transactions and reconciler, `server_segment_*.go`, `reconciler*.go` | Reconciler, Cluster | several commands per transaction, any of which may fail |
| publish and replication, `server_topic_publish.go`, `task_segment_replication.go` | Replication | dead primaries, false suspicions, late truncations |
| Subscribe as the connections see it | Subscribe | a blocked Send |
| AMQP 0-9-1 connections, `server_amqp_v0*.go` | AmqpChannel | acks that fail half-way; deliveries under way when a consumer is cancelled |
| AMQP 1.0 sessions, `server_amqp_v1*.go` | AmqpSession | a delivery counter without a mutex; uint32 windows |
| encodings, `amqp/v0`, `amqp/v1`, `*.pb.go` | Octets, AmqpV0Wire, AmqpV0Methods, AmqpV1Wire, AmqpV1Types, Protobuf, EmqMessages, ClusterMessages, NodeMessages, RaftMessages, Wire | widths, lengths, what is missing at the end |
| routing, `match.go` | Routing | zero words, several `#` |

The parts meet as follows. A publish appends to the open segment of a topic on
its primary; when the segment is full it asks the leader to close it and open
another (Replication, Cluster). Replicas copy it. The node that runs a group
reads the segments, offers the messages to the group's ring and logs what is
committed (ConsumerGroupTask, ConsumerGroup); a handler of Subscribe takes them
out of the ring and hands them to a connection (Subscribe, AmqpChannel,
AmqpSession). Each module says what of the others it takes for granted.

Correctness means above all: no offset is committed over a message nobody
acked, no published message is skipped, nothing waits for what has happened
already, and no file is lost while the cluster counts on it. `PROJECT.json`
lists the hazards line by line.

## Modules

**ConsumerGroup** models `consumers/group.go` and `subscription.go` with their
callers. What the code does under `Group.mutex` is one action; the entry checks
of `Offer` and `Next`, the copy of the leased slot after the unlock (read in two
parts, in either order, because it is a data race) and each send of `Ack` are
steps of their own. `messages`, `read`, `write`, `closed`, `subscription` and
`commits` are the fields of the structs; `nextPc`, `offerPc` and `sending` say
where the goroutines are; `cursor` and `taken` are what a consume task has
offered and what the group task has read; `acked` is history. A handler with
AutoAck is the behaviour in which the ack precedes its next call of `Next`. The
binding filter is left out: a segment is its matching messages.

**WorkQueue** is what a group promises: a bounded line of messages in the order
they came, each free or held by one consumer; places in the line may be moved up
as long as the order stays. **ConsumerGroupRefinement** maps the un-acked slots of
the ring to that line, by their distance from `read`.

**ConsumerGroupTask** models `task_consumer_group.go`: recovery from cluster
state and log, the tick that merges offsets and starts or cancels consume tasks,
commits, the end of a consume task, and the rotation of the log in the three
commands `SegmentRotate` applies. The ring is reduced to a queue and the channel
to a set, since ConsumerGroup covers their order and capacity. A crash loses all
memory and may come anywhere. A rotation holds the leader's transaction, so
opening, closing, deleting and reconciling wait for it. The rotated segment
stays on its node, as `txSegmentOpen` places it on the node that asks. An error
of `SegmentRotate` is a `Crash` as well: the missing response is dereferenced.

**SegmentFile** models `segments/file.go` and `iterator.go`. Only `nextWait`
holds the mutex across two steps, between its last check and `Cond.Wait`,
because `Iterator.Close` does not take it. A read of a range that was truncated
yields anything. A crash in a write leaves a piece of the length or of the data;
`Open` cuts the latter and fails on the former. Writes are assumed durable
(O_DSYNC; the platforms of `file_nodsync.go` are not covered).

**SegmentDir** models `segments/dir.go` (with a positive idle timeout, as the
server sets it) and the garbage collection of `Server.Loop`: snapshot of the
cluster state, then the walk over the files one by one, then the removals. The
state of the leader (`Placed`) and the copy of the node (`Known`) are told apart:
`states` has what is placed on the node after each commit, `applied` is how far
the node has come. Goroutines choose segments from the copy; a writer that rotates
goes on to the segment that the leader names, whether or not the copy has it, and
nobody looks at the state again before a write. A restart falls back to a commit
that the node had applied before. `missed` are the segments placed here that a
collection does not know of, and those that have lost messages that way.

**ClusterState** has the raft commands as operators on the state; a panic is a
value. **Reconciler** has the decisions of the leader as operators that return
lists of commands: opening and rotating (`txSegmentOpen`), closing, the dead
primaries and replicas, retention, and the groups. **Cluster** runs them: one
transaction at a time under the mutex `Server.tx`, one raft command per step, any
of which may fail or be the last before the leader is lost (`ApplyFails` goes on
with the next command, as the code does, except that the reconciler gives up on
the nodes that have left); members come and go outside
of transactions, and the tasks of groups, also of groups that are gone, rotate
their logs. Segments have size one, so that an offset is 0 or 1.

**Replication** follows one segment in detail: Publish on the primary, the loop
of every node with its running map, both kinds of replication (sum, truncate,
copy, report), and the leader with the operators of Reconciler. A node acts on
its own copy of the state (`local`), which is `behind` after every command until
the node learns it. A Publish chooses the segment when its node is the primary in
that copy and does not look again, so that it may write after the node has learned
that it is not (`chosen`). A node may crash and come back with its file, be taken for
dead while it runs, or lose a command. The report of a replica ends its task in
the step in which the leader applies it, as if the answer came before the leader
changes the segment again; the report for a segment that no node replicates, which
panics in the handler, is a refused call, and the crash of the leader a failure of
its own. `cut` records the late truncation of `task_segment_replication.go:56`: a
cancelled task can still shorten a file that counts (`Counts`): that of a node that
is done, whose sum was taken to close the segment or to report the copy, or that
has not failed and either holds messages it has acknowledged or may still publish
to the closed segment. `DoneExact` and `AckedKept` except those nodes by
name. `ReplicasDriven` is the safety half of "every replica is copied in the
end": it says that in every state something that makes progress is under way; its
liveness form was too large for a useful instance.

**Subscribe** is the handler of Subscribe once more, on top of what WorkQueue
promises: who holds which message, at which call each goroutine is.
**AmqpChannel** is the loop of a 0-9-1 connection, one frame, delivery or error
at a time; the unbuffered channel between Subscribe and the loop is the step
`Deliver`, which needs both. **AmqpSession** is a 1.0 session; the wait for
credit, the resizing of the subscription, which may fail, and the load, the
store and the second read of `deliveryID` are steps of their own, windows and
credit are `% Modulus`. What the client has been told is kept in history
variables, and the properties compare it with the state of the server.

**Octets**, **AmqpV0Wire**, **AmqpV1Wire** and **Protobuf** are the encoders and
decoders, byte by byte; **AmqpV0Methods**, **AmqpV1Types** and the `*Messages`
modules are the tables of fields that the generated code unrolls. A generated
`Marshal` or `Unmarshal` is one call of the generic operator with its table:
field numbers, wire types, order, bits and presence are those of the code.
**Wire** sends every message of a medium through it, cut off at every place near
the ends, and with unknown fields for protobuf.

**Routing** translates `messageMatches` and `routingKeyMatches` with their
searches and slices of strings (sequences of characters here). The reference
shares with the matcher only the search for a dot and the slices around it: it
splits both sides into words and asks for a way to divide the words of the key
among those of the pattern; headers are compared as sets of pairs.

**Gateway** puts the connections of both protocols on one group. Wire and Routing
share no state with them and run beside them, from initial states of their own.

The `MC*` modules are what TLC runs. MCConsumerGroup and MCGateway define the
symmetry of the runs without liveness; runs with liveness properties use none.

## Runs

| run | shows |
|---|---|
| group_leases | exclusive, counted leases within the size of a subscription, also when it is resized; faithful deliveries; no lost wakeup; the ring implements WorkQueue |
| group_commits | no commit over an un-acked message and nothing lost, with a wrapping ring, racing acks and restarted consume tasks; Offer, handlers and Ack end |
| task_commits | offsets that survive crashes, rotations and cluster changes are right and never forgotten; every message is acked; old segments are committed |
| file_readers | durable messages, faithful iterators, readers that end |
| cluster_leader | one log per group, sound places of segments, shard limits, fresh IDs, retention that spares what a group has yet to read |
| replicas | exact copies, acknowledged messages that survive the failure of other nodes, no forgotten replica |
| dir_users | reference counts, data kept, garbage removed |
| gateway | clients can settle what they hold, nothing is acked behind their backs, exact publishing, credit and windows; encodings; routing |
| task_eof, cluster_panic, dir_open_segments, gateway_disconnect | violations: see the findings in `PROJECT.json` |

The four findings: a segment is committed as a whole while its last messages are
un-acked in the buffer (`task_eof`); the offsets of a group whose namespace was
deleted panic every node (`cluster_panic`); the garbage collection removes the
file of a segment that the node's state did not have (`dir_open_segments`); a
message leased for a 0-9-1 consumer that has just disconnected is never returned
(`gateway_disconnect`).

### Bounds

*Groups.* A ring of two (three slots) wraps and fills with two or three
messages; two acking goroutines reorder commits; two subscriptions compete for
leases. Commits are checked for one segment; the proofs cover any number.
Besides the runs, these larger instances were explored without an error:
group_leases with blocking and non-blocking subscriptions (1,431,912 states);
group_commits with non-blocking ones and with sizes 0 and 1 (211,314 to 403,530
states), and with three messages (438,119 and 621,643 states).

*Task.* A log of two commits rotates within a segment of two messages; a crash
and a failure fall into any step of recovery, commit and rotation. One segment
is older than the group, the other can be deleted.

*Files.* Two iterators and two terms, with messages of one content (iterators
are told apart by position), make an iterator of an older term meet a writer of
a newer one. In the directory, two segments let a writer rotate from one to the
other; two users that open two files, three changes of what is placed here and one
restart make opening, idle closing, collecting and late knowledge overlap.

*Cluster.* Each instance of MCCluster is as small as its subject allows: three
nodes and two shards; a member that leaves or comes back; a group with its topic
and a member event, or with three segments. Replication has two nodes, segments
of one or two messages and one failure of any kind, which is what one promotion
needs.

*Connections.* A load of MCGateway limits the methods, messages and faults of
the client: up to five methods are enough to consume, get, cancel and settle in
any order, or to attach two links that compete for delivery IDs and windows. The
second of the two messages takes two transfers, and two routing keys tell one
publish from the next. `Modulus` is 8 and limits stay
below it, so that a window wraps exactly if it is taken back. Larger loads
without an error: 0-9-1 with five methods and a fault (296,321 states), both
protocols with five methods (1,445,197).

*Encodings and routing.* Every message, each field with samples at the edges of
its widths (127, 128, 255, 256 bytes; sign bits; empty and absent), all fields at
once. Keys of up to four words, also empty ones, against patterns of up to three
words of `a`, `*` and `#`. Patterns with empty words are left out: `"foo."`
matches `foo` and not `foo.`, and no line of the repository says what it means.

Deadlock checking is off everywhere: clients may stop and bounded segments end.

### Fairness

Weak fairness of goroutines that can run: Go schedules them and a mutex is
granted in the end. In SegmentDir, a node applies the commits it has yet to
apply, and who uses a file releases it. The latter is an assumption: users of a
segment that left the node are cancelled, but the wakeup of `Iterator.Close` can
be lost (SegmentFile has that), and a reader that waits then keeps its file
until something else wakes it. `GarbageCollected` does not cover that case. In
ConsumerGroup, a gRPC send ends or fails with its context. Gateway has no such
assumption for the unbuffered send of 0-9-1, and `gateway_disconnect` shows why
it would be wrong. The group task reads Commits while the group is open.
Reconciliation and garbage collection come from tickers. The publisher that
fills a segment closes it, and consumers ack; neither holds if they die.
Clients, crashes and closing have no fairness.

### Exceptions that properties state

Each of these is behaviour of the code, excluded by name so that the rest of the
property can be checked.

- `HandlerEndsOnClose`: a subscription closed at its size keeps `inflight`, and
  its `Next` waits on.
- `AckReturns`: an Ack after the group was closed, when its task no longer reads
  Commits.
- `EveryMessageAcked`: a crash after the whole segment was committed early (the
  finding of `task_eof`); a publisher that fills a segment and dies before it closes
  it is excluded by the fairness.
- `NeededSegmentsKept`: a group needs a segment if the cluster state has an entry
  of it before the segment's end; an entry that a wholesale replacement of the
  offsets dropped is the subject of `NoCommitForgotten`.
- `DoneExact`, `AckedKept`: the late truncation (`cut`). `AckedKept` also excepts
  messages taken by a node that crashed or was taken for dead (`failed`): Publish
  answers before a replica has the message, so they can be lost.
- `PlacedDataKept`: segments that the state of the node did not have when a
  collection went by it, because they were placed later, because a rotation was
  ahead of the state or because of a restart (`missed`, the finding of
  `dir_open_segments`).
- `AckedIsSettled`: a delivery without acks ignored by the 0-9-1 loop
  (`server_amqp_v0_basic_consume.go:70`) is acked by Subscribe although nobody
  got it; a 1.0 disposition with `last = 0`, which stands for no last as well,
  settles everything from `first` on (`server_amqp_v1_disposition.go:35`).
- `Settleable`, `DispositionFinds`: every behaviour in which one link loaded the
  delivery ID while another was between its load and its first transfer
  (`overlapped`; `deliveryID++` in `server_amqp_v1_link.go:202`), whether or not they
  made up the same ID, and deliveries swept up as above. A disposition that then
  finds nothing slices from -1 and panics.
- `Settleable` also leaves out deliveries whose leases have gone back to the group:
  those of a cancelled consumer or a detached link, and those of a link whose
  Subscribe has failed, as it does when `SubscriptionResize` cannot reach the node
  of the group (`server_amqp_v1_link.go:191`): all its leases are given back before
  the client learns that the link is detached.
- `CreditKept`: a client that takes back credit it has used wraps the uint32
  (`wrapped`).

`Faithful` says that what is read is what was written or that one end gives up;
the operators follow the code in what is lost on purpose or by mistake: null
delivery states are written and refused by the reader
(`amqp/v1/unmarshal.go:852`), symbols above 255 bytes get the constructor of
short ones, timestamps before 1970 become 1970, an empty 0-9-1 table is read as
none, table integers pass through float64, whole numbers outside of int64 become
the lowest int64 (amd64), and a 0-9-1 body frame of more than
`frameMax - 8` bytes ends the connection, because `SendBody` cuts at `frameMax`
and `Send` counts eight bytes more.

## Proofs

TLAPS checks the theorems below for every value of the constants that satisfies
the named assumption of the module they are about (`GroupAssumption`,
`TaskAssumption`, `FileAssumption`, `DirAssumption`, `ReplicationAssumption`):
sets may be of any size, finite where the code counts them, and bounds any
numbers. Each invariant was explored by TLC before it was proved.

**ConsumerGroupProofs**: `TypeCorrect`, `CommitsAreSafe`, `NoMessageIsLost` and
`RingIsConsistent`. They follow from the inductive invariant `Inv`: types, that a
task about to put a message has one, `SlotsConsistent`, `BufferOrdered`,
`NothingLost` and `CommitSafe`. None of the last four is inductive alone. Ack
commits the acked prefix of the ring, which is safe because whatever a slot's
commit covers is acked or in a slot before it (BufferOrdered). Offer keeps that
order because everything before the cursor is acked or buffered (NothingLost). A
restart sets the cursor back to a commit, which keeps NothingLost because commits
are safe (CommitSafe).

**ConsumerGroupLeaseProofs**: `LeasesAreCounted`, `DeliveriesAreFaithful`,
`LeasesAreReleased`, `SizesAreRespected` (an action property), `NoWakeupIsLost`
and `GroupIsAWorkQueue`, the refinement of WorkQueue. `LeaseInv` (361,515 states)
says of each subscription that its counter counts its leases and that sequence
numbers tell them apart (Accounted), and that from the lease to the return of
`Next` the slot stays leased under the last sequence number while the subscription
is open, so that what the goroutine copies without the mutex is still there
(CopySound). Counting is done with the lemmas on cardinalities of
FiniteSetTheorems. For the refinement a place in the line is the distance of a
slot from `read`; all places move down when Ack advances `read`, which the queue
allows because only their order matters to it. Each action is shown to be a step
of the queue or to leave the line alone.

**ConsumerGroupTaskCommits** and **ConsumerGroupTaskProofs** (one argument, in two
modules): `CommitsCoverAcks`, `NoMessageIsSkipped` and `CommitsAreRemembered`, for
any number of segments, messages, crashes and failures. `TaskInv` (178,330 and
896,948 states) follows an offset on its way from the buffer (BufferSound) through
the channel, the loop and the log into the cluster state (CommitsGood) and back
to the next consume task (CursorSound). Tracked and Ahead say that what is under
way or logged is known to the cluster state, and that a running task knows no
less than log and cluster state together: this is what makes the merge of the
next start, the rotation and the reconciliation lose nothing.

**SegmentFileProofs**: `WritesSurvive`, `IterationIsFaithful` and `NoWakeupIsLost`,
for any number of readers, terms and crashes. `FileInv` (283,109 states, and 32,063
with other bounds) ties the bytes on disk to what was written (DiskHolds), an
iterator to the term it was made in (TermsPassed), and what it has returned to the
section of the file it has passed (SectionsSound).

**SegmentDirProofs**: `FilesInUseKept` (ReferencesCounted) and `PlacedSegmentsKept`
(PlacedDataKept), for any set of segments, any finite set of users and any number of
restarts, although the node acts on an older state than the leader's. The inductive
invariant `DirInv` (293,634 states) adds types and what links a collection to the
state it was computed from: as long as a collection runs, whatever is placed and
not missed is in its snapshot, so that the collection spares it (Snapshot); what
such a segment stores is in its file, and a segment that is not placed here counts
no messages, so that it begins with none when it comes back (AllInFile).
Counting users is the lemmas `UsersOneMore` and `UsersOneLess` on cardinalities.

**ReplicationTasks** and **ReplicationProofs** (one argument, in two modules):
`DoneNodesAreExact`, `AckedMessagesAreKept` and `ReplicasAreDriven`, for any
finite set of nodes, any replication factor and size, and any number of messages
and failures. `RepInv` (1,236,842 states with two nodes; 3.7 million states of
simulated behaviours with three) has a part for every place the truth about the
segment travels through: the copies of the state on the nodes (CopiesSound), the
replications (TasksSound: a full sum that a replication has taken is that of its
file), the publisher that is about to close the segment with its sum
(ClosingSound), the command that the leader has decided on (PlanSound) and the
acknowledged messages (AckedSound). PrimarySound and FailedKnown say why an
acknowledged message is in the file that gets closed: a node that did not fail
stays primary. ChosenSound says the same of a node where a Publish may still
hold the segment: it is the primary, or its file has the closed content. That
the leader decides on nothing that breaks PlanSound is `PlanIsSound`, a lemma on
the operators of Reconciler as they are: sorting nodes by load or ID
(`LeastLoadedFacts`, `InOrderFacts`), filtering and joining lists (`OnlyFacts`,
`MinusFacts`, `CatFacts`), counting places (`CountsFacts`).

Only model-checked, and why:

- liveness (`OfferEndsOnClose`, `HandlerEndsOnClose`, `AckReturns`,
  `EveryMessageAcked`, `OldSegmentsCommitted`, `ReaderEnds`, `GarbageCollected`):
  the prover reasons about neither fairness nor ENABLED;
- Cluster (`OneOffsetsSegment`, `PlacesSound`, `ShardsRespected`, `FreshIDs`,
  `NeededSegmentsKept`): a transaction or a tick folds the commands of the
  reconciler over all segments, groups and namespaces, and what a fold computes
  needs an induction over its list, which the prover cannot do. Replication has
  one segment, whose fold is a single step;
- encodings and routing (`Faithful`, `RoutedByWords`): recursive operators;
- the connections (`Settleable`, `AckedIsSettled`, `PublishedExactly`,
  `ClosedHoldsOne`, `CreditKept`, `DispositionFinds`): they are stated of the
  composition in Gateway, which contains the encodings.

## Not modelled

- Raft and memberlist themselves: the cluster state is taken to be a replicated
  state machine with one leader at a time, members come and go. The adapters
  `raft_transport.go` and `discovery_transport.go` are I/O.
- Forwarding of RPCs to the leader or to the node that runs a group: the call
  with one more way to fail. The relay of a forwarded stream is left out.
- The connection pool: reference counts under one mutex; a broken connection is
  a failed call of its users.
- The task manager beyond start, cancellation and completion: its completion
  channel has room for 128 tasks, which no bounded instance fills.
- Conversion of message properties between 0-9-1, 1.0 and the messages stored,
  exchange and queue declarations beyond what they ask of the leader. A
  `queue.bind` reads the bindings before it writes them all, so that one of two
  concurrent binds is lost; the read is not in Cluster.
- Sessions of one 1.0 connection besides each other, the start of connections,
  SASL, the AMQP value section.
- Listing and debugging (they read only), the command line, live reload.
- Platforms without O_DSYNC (`file_nodsync.go`).
- The shadowed `err` of `server_loop.go:317`: when SegmentSum fails on another
  node, the leader dereferences a missing response and its process ends. Cluster
  has this as the loss of the leader, which may happen at any time, and a node
  that cannot be dialled as one that is not asked.
