--------------------------- MODULE ConsumerGroupTask ---------------------------
(***************************************************************************)
(* The task that runs a consumer group on the primary node of the group's  *)
(* offset commits segment: mq/task_consumer_group.go, its consume tasks,   *)
(* the cluster state they read and the rotation of the offset commits      *)
(* segment.  The process may crash and be started again between any two    *)
(* steps; the cluster state and the offset commits segment survive.        *)
(*                                                                         *)
(* The buffer is the one ConsumerGroup models, reduced to what the task    *)
(* sees of it: a queue whose acked prefix is popped into commits.  Offsets *)
(* count messages: a message's CommitOffset is the number of messages up   *)
(* to and including it.                                                    *)
(***************************************************************************)
EXTENDS Integers, Sequences, FiniteSets, Functions

CONSTANTS
    Segments,       \* segments of the bound topics
    Old,            \* those closed before the Since time of the group
    Deletable,      \* those that may be deleted once closed
    SegmentSize,    \* messages in a full topic segment
    LogSize,        \* commits in a full offset commits segment
    Size,           \* capacity of the group
    MaxCrashes,     \* bound: crashes of the process
    MaxFailures     \* bound: consume tasks that end with an error

ASSUME TaskAssumption ==
    /\ IsFiniteSet(Segments)
    /\ Old \subseteq Segments
    /\ Deletable \subseteq Segments
    /\ SegmentSize \in Nat \ {0}
    /\ LogSize \in Nat \ {0}
    /\ Size \in Nat \ {0}
    /\ MaxCrashes \in Nat
    /\ MaxFailures \in Nat

VARIABLES
    status,         \* of a topic segment in the cluster state
    written,        \* messages written to it
    offsetCommits,  \* ClusterConsumerGroup.OffsetCommits
    log, logOpen,   \* the offset commits segment
    pc,             \* where the group task is
    fresh,          \* its state variable is the current cluster state
    committed,      \* its committedOffsets
    ackImmediately, \* its ackImmediately
    ack,            \* the commit it is about to write
    task,           \* its consume tasks
    cursor,         \* offset of the last message a consume task has read
    buffer,         \* the messages in the group
    inFlight,       \* commits between Ack and the group task
    acked,          \* history: the messages acked so far
    crashes, failures

clusterVars == <<status, written, offsetCommits>>
logVars == <<log, logOpen>>
loopVars == <<pc, fresh, committed, ackImmediately, ack>>
groupVars == <<buffer, inFlight, acked>>
vars == <<clusterVars, logVars, loopVars, task, cursor, groupVars, crashes, failures>>

Unknown == -1
Offset == 0..SegmentSize
Message == [segment : Segments, offset : 1..SegmentSize]
Commit == [segment : Segments, offset : Offset]
Existing == {g \in Segments : status[g] \in {"open", "closed"}}

Larger(a, b) == IF a > b THEN a ELSE b

\* A rotation holds the transaction of the leader, which opening, closing and
\* deleting a segment and the reconciler need as well.
InTransaction == pc \in {"rotateClose", "rotateOpen"}

-----------------------------------------------------------------------------
(* Topic segments and the group's entry in the cluster state.              *)

\* txSegmentOpen creates the segment, then adds it to the group's commits; the
\* second command may fail.
OpenSegment(g) ==
    /\ ~InTransaction
    /\ status[g] = "none"
    /\ status' = [status EXCEPT ![g] = "open"]
    /\ \E offset \in {0, Unknown} :
           offsetCommits' = [offsetCommits EXCEPT ![g] = offset]
    /\ fresh' = FALSE
    /\ UNCHANGED <<written, logVars, pc, committed, ackImmediately, ack, task,
                   cursor, groupVars, crashes, failures>>

Publish(g) ==
    /\ status[g] = "open"
    /\ written[g] < SegmentSize
    /\ written' = [written EXCEPT ![g] = @ + 1]
    /\ UNCHANGED <<status, offsetCommits, logVars, loopVars, task, cursor,
                   groupVars, crashes, failures>>

\* The publisher that filled the segment closes it.
CloseSegment(g) ==
    /\ ~InTransaction
    /\ status[g] = "open"
    /\ written[g] = SegmentSize
    /\ status' = [status EXCEPT ![g] = "closed"]
    /\ fresh' = FALSE
    /\ UNCHANGED <<written, offsetCommits, logVars, pc, committed, ackImmediately,
                   ack, task, cursor, groupVars, crashes, failures>>

DeleteSegment(g) ==
    /\ ~InTransaction
    /\ g \in Deletable
    /\ status[g] = "closed"
    /\ status' = [status EXCEPT ![g] = "deleted"]
    /\ fresh' = FALSE
    /\ UNCHANGED <<written, offsetCommits, logVars, pc, committed, ackImmediately,
                   ack, task, cursor, groupVars, crashes, failures>>

\* reconcileConsumerGroupOffsetCommits: the entries of segments that exist.
ReconcileOffsetCommits ==
    /\ ~InTransaction
    /\ \E g \in Segments : (g \in Existing) # (offsetCommits[g] # Unknown)
    /\ offsetCommits' = [g \in Segments |->
           IF g \in Existing THEN Larger(offsetCommits[g], 0) ELSE Unknown]
    /\ fresh' = FALSE
    /\ UNCHANGED <<status, written, logVars, pc, committed, ackImmediately, ack,
                   task, cursor, groupVars, crashes, failures>>

\* reconcileConsumerGroupOffsetCommitsSegment: a group without an open segment
\* gets one.
ReconcileOffsetCommitsSegment ==
    /\ ~InTransaction
    /\ ~logOpen
    /\ logOpen' = TRUE
    /\ log' = <<>>
    /\ fresh' = FALSE
    /\ UNCHANGED <<clusterVars, pc, committed, ackImmediately, ack, task, cursor,
                   groupVars, crashes, failures>>

-----------------------------------------------------------------------------
(* Start and crash.                                                        *)

\* Mutant of Logged: the segment of an entry is not compared.
LoggedOfAny(g) == {log[k].offset : k \in DOMAIN log}

Logged(g) == {log[k].offset : k \in {k \in DOMAIN log : log[k].segment = g}}

\* What a started task knows: the offset in the cluster state or a larger one in
\* the log, for the segments the cluster state knows.
Recovered(g) ==
    IF offsetCommits[g] = Unknown \/ ~logOpen \/ Logged(g) = {} THEN offsetCommits[g]
    ELSE Larger(offsetCommits[g], CHOOSE o \in Logged(g) : \A x \in Logged(g) : x <= o)

StartTask ==
    /\ pc = "down"
    /\ logOpen
    /\ pc' = "loop"
    /\ committed' = [g \in Segments |-> Recovered(g)]
    /\ fresh' = FALSE
    /\ UNCHANGED <<clusterVars, logVars, ackImmediately, ack, task, cursor,
                   groupVars, crashes, failures>>

NoCommit == [segment |-> CHOOSE g \in Segments : TRUE, offset |-> 0]

\* The process stops, or is stopped by an error of SegmentRotate: its missing
\* response is dereferenced.  All of the task's memory is lost.
Crash ==
    /\ pc # "down"
    /\ crashes < MaxCrashes
    /\ pc' = "down"
    /\ fresh' = FALSE
    /\ committed' = [g \in Segments |-> Unknown]
    /\ ackImmediately' = <<>>
    /\ ack' = NoCommit
    /\ task' = [g \in Segments |-> "none"]
    /\ cursor' = [g \in Segments |-> 0]
    /\ buffer' = <<>>
    /\ inFlight' = {}
    /\ crashes' = crashes + 1
    /\ UNCHANGED <<clusterVars, logVars, acked, failures>>

-----------------------------------------------------------------------------
(* The main loop.                                                          *)

InLoop == pc = "loop" /\ ackImmediately = <<>>

\* The task's offset or the cluster state's, for segments the latter knows.
Merged(g) ==
    IF offsetCommits[g] = Unknown THEN Unknown
    ELSE Larger(offsetCommits[g], committed[g])

\* The segments a tick starts to consume.
Startable(g) ==
    /\ task[g] = "none"
    /\ g \in Existing
    /\ Merged(g) # Unknown
    /\ status[g] = "closed" => Merged(g) < written[g]

\* Mutant of StartOffset: the next message is taken for consumed.
StartAfterNext(g) == IF Merged(g) < written[g] THEN Merged(g) + 1 ELSE Merged(g)

StartOffset(g) == Merged(g)

\* A change of the cluster state, or a state forgotten on purpose, makes the tick
\* reconsider every segment.
Tick ==
    /\ InLoop
    /\ ~fresh
    /\ fresh' = TRUE
    /\ committed' = [g \in Segments |-> Merged(g)]
    /\ task' = [g \in Segments |->
           IF Startable(g) THEN "running"
           ELSE IF task[g] = "running" /\ Merged(g) = Unknown THEN "cancelled"
           ELSE task[g]]
    /\ cursor' = [g \in Segments |-> IF Startable(g) THEN StartOffset(g) ELSE cursor[g]]
    /\ LET old == {g \in Old : Startable(g)} IN
       \E order \in Injection(1..Cardinality(old), old) :
           ackImmediately' = [k \in DOMAIN order |->
               [segment |-> order[k], offset |-> written[order[k]]]]
    /\ UNCHANGED <<clusterVars, logVars, pc, ack, groupVars, crashes, failures>>

\* Mutant of ToCommit: committedOffsets is not updated.
ToCommitOnly(c) == ack' = c /\ pc' = "write" /\ UNCHANGED committed

\* The label Commit.
ToCommit(c) ==
    /\ committed' = [committed EXCEPT ![c.segment] = Larger(@, c.offset)]
    /\ ack' = c
    /\ pc' = "write"

CommitImmediately ==
    /\ pc = "loop"
    /\ ackImmediately # <<>>
    /\ ToCommit(Head(ackImmediately))
    /\ ackImmediately' = Tail(ackImmediately)
    /\ UNCHANGED <<clusterVars, logVars, fresh, task, cursor, groupVars, crashes,
                   failures>>

TakeCommit(c) ==
    /\ InLoop
    /\ c \in inFlight
    /\ ToCommit(c)
    /\ inFlight' = inFlight \ {c}
    /\ UNCHANGED <<clusterVars, logVars, fresh, ackImmediately, task, cursor,
                   buffer, acked, crashes, failures>>

\* Mutant of TaskFailed: the state is not read again.
TaskFailedQuietly(g) ==
    /\ InLoop /\ task[g] = "failed" /\ task' = [task EXCEPT ![g] = "none"]
    /\ UNCHANGED <<clusterVars, logVars, loopVars, cursor, groupVars, crashes, failures>>

TaskFailed(g) ==
    /\ InLoop
    /\ task[g] = "failed"
    /\ task' = [task EXCEPT ![g] = "none"]
    /\ fresh' = FALSE
    /\ UNCHANGED <<clusterVars, logVars, pc, committed, ackImmediately, ack, cursor,
                   groupVars, crashes, failures>>

\* A consume task has read its segment to the end.  The loop does nothing else
\* until the segment is closed.
TaskCompleted(g) ==
    /\ InLoop
    /\ task[g] = "eof"
    /\ task' = [task EXCEPT ![g] = "none"]
    /\ ack' = [segment |-> g, offset |-> 0]
    /\ pc' = "closing"
    /\ UNCHANGED <<clusterVars, logVars, fresh, committed, ackImmediately, cursor,
                   groupVars, crashes, failures>>

\* The end of the busy wait: all of a closed segment is committed.  The state
\* this branch forgets is its own, the loop's stays.
SegmentClosed ==
    /\ pc = "closing"
    /\ status[ack.segment] # "open"
    /\ IF status[ack.segment] = "closed"
       THEN ToCommit([segment |-> ack.segment, offset |-> written[ack.segment]])
       ELSE pc' = "loop" /\ UNCHANGED <<committed, ack>>
    /\ UNCHANGED <<clusterVars, logVars, fresh, ackImmediately, task, cursor,
                   groupVars, crashes, failures>>

LogFull == Len(log) >= LogSize

\* The label Write.
WriteCommit ==
    /\ pc = "write"
    /\ log' = IF LogFull THEN log ELSE Append(log, ack)
    /\ pc' = IF LogFull THEN "rotateOffsets" ELSE "loop"
    /\ UNCHANGED <<clusterVars, logOpen, fresh, committed, ackImmediately, ack,
                   task, cursor, groupVars, crashes, failures>>

\* Mutant of RotateOffsets: the cluster state is not updated.
RotateWithoutOffsets ==
    /\ pc = "rotateOffsets" /\ pc' = "rotateClose"
    /\ UNCHANGED <<clusterVars, logVars, fresh, committed, ackImmediately, ack, task,
                   cursor, groupVars, crashes, failures>>

\* SegmentRotate, one step for each command it applies: the task's offsets
\* replace the cluster state's, the full segment is closed, a new one opened.
RotateOffsets ==
    /\ pc = "rotateOffsets"
    /\ offsetCommits' = committed
    /\ pc' = "rotateClose"
    /\ fresh' = FALSE
    /\ UNCHANGED <<status, written, logVars, committed, ackImmediately, ack, task,
                   cursor, groupVars, crashes, failures>>

RotateClose ==
    /\ pc = "rotateClose"
    /\ logOpen' = FALSE
    /\ pc' = "rotateOpen"
    /\ fresh' = FALSE
    /\ UNCHANGED <<clusterVars, log, committed, ackImmediately, ack, task, cursor,
                   groupVars, crashes, failures>>

RotateOpen ==
    /\ pc = "rotateOpen"
    /\ logOpen' = TRUE
    /\ log' = <<>>
    /\ pc' = "write"
    /\ fresh' = FALSE
    /\ UNCHANGED <<clusterVars, committed, ackImmediately, ack, task, cursor,
                   groupVars, crashes, failures>>

-----------------------------------------------------------------------------
(* Consume tasks and consumers.                                            *)

Consuming(g) == task[g] \in {"running", "cancelled"}

\* The next message goes to the group, unless it is older than Since.
Offer(g) ==
    /\ Consuming(g)
    /\ cursor[g] < written[g]
    /\ IF g \in Old THEN UNCHANGED buffer
       ELSE /\ Len(buffer) < Size
            /\ buffer' = Append(buffer,
                   [segment |-> g, offset |-> cursor[g] + 1, acked |-> FALSE])
    /\ cursor' = [cursor EXCEPT ![g] = @ + 1]
    /\ UNCHANGED <<clusterVars, logVars, loopVars, task, inFlight, acked, crashes,
                   failures>>

\* The iterator ends where a segment is full.
ConsumeEnds(g) ==
    /\ Consuming(g)
    /\ cursor[g] = SegmentSize
    /\ task' = [task EXCEPT ![g] = "eof"]
    /\ UNCHANGED <<clusterVars, logVars, loopVars, cursor, groupVars, crashes,
                   failures>>

ConsumeFails(g) ==
    /\ \/ task[g] = "cancelled" /\ UNCHANGED failures
       \/ /\ task[g] = "running"
          /\ failures < MaxFailures
          /\ failures' = failures + 1
    /\ task' = [task EXCEPT ![g] = "failed"]
    /\ UNCHANGED <<clusterVars, logVars, loopVars, cursor, groupVars, crashes>>

\* Mutant of AckedPrefix: everything up to the last acked message is popped.
UpToLastAcked(b) ==
    CHOOSE n \in DOMAIN b : b[n].acked /\ \A k \in DOMAIN b : b[k].acked => k =< n

\* How many acked messages the buffer starts with.
AckedPrefix(b) ==
    Cardinality({k \in DOMAIN b : \A j \in 1..k : b[j].acked})

\* A consumer acks one of the messages in the buffer.
Ack(k) ==
    LET b == [buffer EXCEPT ![k] =
                 [segment |-> @.segment, offset |-> @.offset, acked |-> TRUE]]
        n == AckedPrefix(b) IN
    /\ ~buffer[k].acked
    /\ buffer' = SubSeq(b, n + 1, Len(b))
    /\ inFlight' = inFlight \cup
           {[segment |-> b[j].segment, offset |-> b[j].offset] : j \in 1..n}
    /\ acked' = acked \cup
           {[segment |-> buffer[k].segment, offset |-> buffer[k].offset]}
    /\ UNCHANGED <<clusterVars, logVars, loopVars, task, cursor, crashes, failures>>

-----------------------------------------------------------------------------
Init ==
    /\ status = [g \in Segments |-> IF g \in Old THEN "closed" ELSE "none"]
    /\ written = [g \in Segments |-> IF g \in Old THEN SegmentSize ELSE 0]
    /\ offsetCommits = [g \in Segments |-> IF g \in Old THEN 0 ELSE Unknown]
    /\ log = <<>> /\ logOpen = TRUE
    /\ pc = "down"
    /\ fresh = FALSE
    /\ committed = [g \in Segments |-> Unknown]
    /\ ackImmediately = <<>>
    /\ ack = NoCommit
    /\ task = [g \in Segments |-> "none"]
    /\ cursor = [g \in Segments |-> 0]
    /\ buffer = <<>> /\ inFlight = {} /\ acked = {}
    /\ crashes = 0 /\ failures = 0

Loop ==
    \/ Tick \/ CommitImmediately
    \/ \E c \in inFlight : TakeCommit(c)
    \/ \E g \in Segments : TaskFailed(g) \/ TaskCompleted(g)
    \/ SegmentClosed \/ WriteCommit \/ RotateOffsets \/ RotateClose \/ RotateOpen

Consume(g) == Offer(g) \/ ConsumeEnds(g)

Next ==
    \/ \E g \in Segments :
        \/ OpenSegment(g) \/ Publish(g) \/ CloseSegment(g) \/ DeleteSegment(g)
        \/ Consume(g) \/ ConsumeFails(g)
    \/ ReconcileOffsetCommits \/ ReconcileOffsetCommitsSegment
    \/ StartTask \/ Crash \/ Loop
    \/ \E k \in DOMAIN buffer : Ack(k)

Spec == Init /\ [][Next]_vars

\* The loop and the consume tasks run, reconciliation comes round, the publisher
\* that filled a segment closes it, and consumers ack what they are sent.
Fairness ==
    /\ WF_vars(Loop) /\ WF_vars(StartTask)
    /\ WF_vars(ReconcileOffsetCommits) /\ WF_vars(ReconcileOffsetCommitsSegment)
    /\ \A g \in Segments : WF_vars(Consume(g)) /\ WF_vars(CloseSegment(g))
    /\ WF_vars(\E k \in DOMAIN buffer : Ack(k))

FairSpec == Spec /\ Fairness

-----------------------------------------------------------------------------
AckedBelow(g, offset) ==
    \A o \in 1..offset : [segment |-> g, offset |-> o] \in acked

\* What the offset commits on disk and in the cluster state tell the next task
\* covers acked messages only.
CommittedIsAcked == \A g \in Segments \ Old : AckedBelow(g, Recovered(g))

\* It does, as long as it does not cover the whole segment: out-of-order acks,
\* crashes, rotations and consume tasks started again never let a commit jump
\* over a message nobody acked.
PartialCommitIsAcked ==
    \A g \in Segments \ Old :
        Recovered(g) < SegmentSize => AckedBelow(g, Recovered(g))

\* A consume task has passed no message without offering it: the messages up to
\* its cursor are acked or in the buffer, also after a restart from a commit.
NothingSkipped ==
    \A g \in Segments \ Old : task[g] # "none" =>
        \A o \in 1..cursor[g] :
            \/ [segment |-> g, offset |-> o] \in acked
            \/ \E k \in DOMAIN buffer : buffer[k].segment = g /\ buffer[k].offset = o

\* A commit once written is never forgotten: neither a crash, nor any step of a
\* rotation, nor reconciliation makes the next task start a segment earlier.
NoCommitForgotten ==
    [][\A g \in Segments : status'[g] # "deleted" =>
        Larger(Recovered(g)', 0) >= Larger(Recovered(g), 0)]_vars

\* Every message published is acked in the end, however often its consume task
\* fails, unless its segment is deleted first, or a crash comes after the segment
\* was committed as a whole while the message was still in the buffer.
EveryMessageAcked ==
    \A m \in [segment : Segments \ Old, offset : 1..SegmentSize] :
        written[m.segment] >= m.offset ~>
            \/ m \in acked
            \/ status[m.segment] = "deleted"
            \/ crashes > 0 /\ Recovered(m.segment) = SegmentSize

\* Old segments do not keep the group busy: they end up committed as a whole.
OldSegmentsCommitted ==
    \A g \in Old : <>[](status[g] = "deleted" \/ Recovered(g) = SegmentSize)
=============================================================================
