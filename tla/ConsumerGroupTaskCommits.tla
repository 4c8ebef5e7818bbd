---------------------- MODULE ConsumerGroupTaskCommits ------------------------
(***************************************************************************)
(* The inductive invariant of the consumer group task, and the first half  *)
(* of the proof that its steps keep it: the types, the segments and the    *)
(* offsets that are committed.                                             *)
(*                                                                         *)
(* TaskInv is the invariant. Its parts follow an offset on its way: from   *)
(* the buffer (BufferSound) through Ack, the loop and the log into the     *)
(* cluster state (CommitsGood), and back to the next consume task          *)
(* (CursorSound). Tracked and Ahead say that the task never knows less     *)
(* than the log and the cluster state together.                            *)
(***************************************************************************)
EXTENDS ConsumerGroupTask, FiniteSetTheorems, WellFoundedInduction, TLAPS

Writing == {"write", "rotateOffsets", "rotateClose", "rotateOpen"}
Known == Offset \cup {Unknown}
Entry == [segment : Segments, offset : 1..SegmentSize, acked : BOOLEAN]

TaskType ==
    /\ status \in [Segments -> {"none", "open", "closed", "deleted"}]
    /\ written \in [Segments -> Offset]
    /\ offsetCommits \in [Segments -> Known]
    /\ log \in Seq(Message)
    /\ logOpen \in BOOLEAN
    /\ pc \in {"down", "loop", "closing"} \cup Writing
    /\ committed \in [Segments -> Known]
    /\ ackImmediately \in Seq(Message)
    /\ pc = "closing" => ack \in Commit
    /\ pc \in Writing => ack \in Message
    /\ task \in [Segments -> {"none", "running", "cancelled", "failed", "eof"}]
    /\ cursor \in [Segments -> Offset]
    /\ buffer \in Seq(Entry)
    /\ inFlight \subseteq Message
    /\ acked \subseteq Message

\* A closed segment is full, and nobody knows of a segment not yet opened.
StatusSound ==
    \A g \in Segments :
        /\ status[g] \in {"closed", "deleted"} => written[g] = SegmentSize
        /\ status[g] = "none" => offsetCommits[g] = Unknown /\ committed[g] = Unknown
        /\ g \in Old => status[g] \in {"closed", "deleted"}

\* All up to the offset is acked, or all of a closed segment is covered.
Good(g, offset) ==
    \/ AckedBelow(g, offset)
    \/ offset = SegmentSize /\ status[g] \in {"closed", "deleted"}

\* Every offset on its way from Ack to the cluster state is good.
CommitsGood ==
    \A g \in Segments \ Old :
        /\ Good(g, offsetCommits[g])
        /\ Good(g, committed[g])
        /\ \A k \in DOMAIN log : log[k].segment = g => Good(g, log[k].offset)
        /\ pc \in Writing /\ ack.segment = g => Good(g, ack.offset)
        /\ \A c \in inFlight : c.segment = g => AckedBelow(g, c.offset)
        /\ \A k \in DOMAIN ackImmediately : ackImmediately[k].segment # g

\* A message is acked or in the buffer, before place n.
Accounted(g, o, n) ==
    \/ [segment |-> g, offset |-> o] \in acked
    \/ \E j \in DOMAIN buffer :
           j < n /\ buffer[j].segment = g /\ buffer[j].offset = o

\* The messages before one in the buffer are acked or before it in the buffer,
\* even if consume tasks that failed have left it with duplicates.
BufferSound ==
    \A k \in DOMAIN buffer :
        /\ buffer[k].segment \notin Old
        /\ buffer[k].acked =>
               [segment |-> buffer[k].segment, offset |-> buffer[k].offset] \in acked
        /\ \A o \in 1..(buffer[k].offset - 1) : Accounted(buffer[k].segment, o, k)

CursorSound ==
    \A g \in Segments \ Old : task[g] # "none" =>
        \A o \in 1..cursor[g] : Accounted(g, o, Len(buffer) + 1)

\* The segments of which something is under way or logged.
Seen(g) ==
    \/ task[g] # "none"
    \/ \E k \in DOMAIN buffer : buffer[k].segment = g
    \/ \E c \in inFlight : c.segment = g
    \/ \E k \in DOMAIN ackImmediately : ackImmediately[k].segment = g
    \/ \E k \in DOMAIN log : log[k].segment = g
    \/ pc \in Writing \cup {"closing"} /\ ack.segment = g

\* The cluster state and the task know them, as long as they exist.
Tracked ==
    \A g \in Segments : Seen(g) =>
        /\ status[g] # "none"
        /\ status[g] # "deleted" => /\ offsetCommits[g] # Unknown
                                    /\ pc # "down" => committed[g] # Unknown

\* The task knows no less than the cluster state and the log.
Ahead ==
    /\ ~logOpen => pc \in {"down", "rotateOpen"}
    /\ \A g \in Segments : pc # "down" /\ status[g] # "deleted" =>
        /\ offsetCommits[g] =< Larger(committed[g], 0)
        /\ \A k \in DOMAIN log : log[k].segment = g => log[k].offset =< committed[g]
        /\ pc \in Writing /\ ack.segment = g => ack.offset =< committed[g]
        /\ InTransaction => offsetCommits[g] = committed[g]

TaskInv ==
    TaskType /\ StatusSound /\ CommitsGood /\ BufferSound /\ CursorSound
    /\ Tracked /\ Ahead

-----------------------------------------------------------------------------
(* The operators of the model.                                             *)

\* A set of offsets has a largest element.
LEMMA Maximum ==
  ASSUME NEW b \in Nat, NEW T \in SUBSET (0..b), T # {}
  PROVE  \E m \in T : \A x \in T : x =< m
<1> DEFINE R == OpToRel(<, Nat)
<1>1. IsWellFoundedOn(R, Nat)
  BY Zenon, NatLessThanWellFounded
<1>2. \A y, x \in Nat : y < x => <<y, x>> \in R
  BY Zenon DEF OpToRel
<1> HIDE DEF R
<1> DEFINE D == {b - x : x \in T}
<1>3. \A x \in T : x \in Nat /\ b - x \in D
  OBVIOUS
<1>4. \A d \in D : d \in Nat /\ \E x \in T : d = b - x
  OBVIOUS
<1> HIDE DEF D
<1>5. PICK d \in D : \A y \in D : ~ (<<y, d>> \in R)
  <2>1. D \subseteq Nat /\ D # {}
    BY Zenon, <1>3, <1>4
  <2> QED
    BY Zenon, <1>1, <2>1, WFMin
<1>6. PICK m \in T : d = b - m
  BY Zenon, <1>4
<1>7. \A x \in T : ~(b - x < d)
  BY Zenon, <1>2, <1>3, <1>4, <1>5
<1> QED
  BY <1>3, <1>6, <1>7

\* Larger returns the larger one.
LEMMA LargerIs ==
  \A a, b \in Int : /\ Larger(a, b) = a \/ Larger(a, b) = b
                    /\ a =< Larger(a, b) /\ b =< Larger(a, b)
BY DEF Larger

\* What the log adds to the offset in the cluster state.
RecoveredIs(g) ==
    /\ Recovered(g) \in Known
    /\ offsetCommits[g] =< Recovered(g)
    /\ offsetCommits[g] = Unknown \/ ~logOpen => Recovered(g) = offsetCommits[g]
    /\ \/ Recovered(g) = offsetCommits[g]
       \/ \E k \in DOMAIN log : log[k].segment = g /\ Recovered(g) = log[k].offset
    /\ offsetCommits[g] # Unknown /\ logOpen =>
           \A k \in DOMAIN log : log[k].segment = g => log[k].offset =< Recovered(g)

\* A started task takes the largest offset known for a segment.
LEMMA RecoveredFacts == TaskType => \A g \in Segments : RecoveredIs(g)
<1> SUFFICES ASSUME TaskType, NEW g \in Segments PROVE RecoveredIs(g)
  OBVIOUS
<1>1. offsetCommits[g] \in Known /\ Known \subseteq Int /\ SegmentSize \in Nat
  BY TaskAssumption DEF TaskType, Known, Offset, Unknown
<1>2. \A k \in DOMAIN log : log[k] \in Message
  BY DEF TaskType
<1>3. Logged(g) \subseteq 0..SegmentSize
  BY <1>1, <1>2 DEF Logged, Message
<1>4. \A o \in Logged(g) : \E k \in DOMAIN log : log[k].segment = g /\ o = log[k].offset
  BY Zenon DEF Logged
<1>5. \A k \in DOMAIN log : log[k].segment = g => log[k].offset \in Logged(g)
  BY Zenon DEF Logged
<1>6. CASE offsetCommits[g] = Unknown \/ ~logOpen \/ Logged(g) = {}
  <2>1. Recovered(g) = offsetCommits[g]
    BY Zenon, <1>6 DEF Recovered
  <2>2. offsetCommits[g] # Unknown /\ logOpen => \A k \in DOMAIN log : log[k].segment # g
    BY Zenon, <1>5, <1>6
  <2>3. offsetCommits[g] \in Int
    BY Zenon, <1>1
  <2>4. offsetCommits[g] =< Recovered(g)
    BY <2>1, <2>3
  <2>5. Recovered(g) \in Known
    BY Zenon, <1>1, <2>1
  <2> QED
    BY Zenon, <2>1, <2>2, <2>4, <2>5 DEF RecoveredIs
<1>7. CASE ~(offsetCommits[g] = Unknown \/ ~logOpen \/ Logged(g) = {})
  <2> DEFINE L == Logged(g)
             m == CHOOSE o \in L : \A x \in L : x <= o
  <2>1. L \in SUBSET (0..SegmentSize) /\ L # {}
    BY Zenon, <1>3, <1>7
  <2> HIDE DEF L
  <2>2. \E o \in L : \A x \in L : x <= o
    BY Zenon, <1>1, <2>1, Maximum
  <2>3. m \in L /\ \A x \in L : x <= m
    BY Zenon, <2>2
  <2> USE DEF L
  <2>4. Recovered(g) = Larger(offsetCommits[g], m)
    BY Zenon, <1>7 DEF Recovered
  <2> HIDE DEF m
  <2>5. m \in 0..SegmentSize /\ m \in Known /\ m \in Int /\ offsetCommits[g] \in Int
    BY Zenon, <1>1, <1>3, <2>3 DEF Known, Offset
  <2>6. /\ Recovered(g) = offsetCommits[g] \/ Recovered(g) = m
        /\ offsetCommits[g] =< Recovered(g) /\ m =< Recovered(g)
    BY Zenon, <2>4, <2>5, LargerIs
  <2>7. \A k \in DOMAIN log : log[k].segment = g => log[k].offset =< Recovered(g)
    BY <1>1, <1>3, <1>5, <2>3, <2>5, <2>6
  <2> QED
    BY Zenon, <1>1, <1>4, <1>7, <2>3, <2>5, <2>6, <2>7 DEF RecoveredIs
<1> QED
  BY Zenon, <1>6, <1>7

\* popAcked removes acked messages only.
LEMMA PrefixFacts ==
  ASSUME NEW b \in Seq(Entry)
  PROVE  /\ AckedPrefix(b) \in 0..Len(b)
         /\ \A j \in 1..AckedPrefix(b) : b[j].acked
<1> DEFINE T == {k \in DOMAIN b : \A j \in 1..k : b[j].acked}
<1>1. Len(b) \in Nat /\ DOMAIN b = 1..Len(b)
  OBVIOUS
<1>2. AckedPrefix(b) = Cardinality(T)
  BY Zenon DEF AckedPrefix
<1>3. T \in SUBSET (0..Len(b)) /\ \A k \in T : k \in 1..Len(b)
  BY <1>1
<1>4. \A k \in T : \A j \in 1..k : b[j].acked
  OBVIOUS
<1>5. \A k \in T : \A j \in 1..k : j \in T
  BY <1>1
<1> HIDE DEF T
<1>6. CASE T = {}
  BY <1>1, <1>2, <1>6, FS_EmptySet
<1>7. CASE T # {}
  <2>1. PICK m \in T : \A x \in T : x =< m
    BY Zenon, <1>1, <1>3, <1>7, Maximum
  <2>2. m \in Nat /\ m \in 1..Len(b)
    BY <1>1, <1>3, <2>1
  <2>3. T = 1..m
    <3>1. \A k \in T : k \in 1..m
      BY <1>1, <1>3, <2>1, <2>2
    <3>2. \A k \in 1..m : k \in T
      BY Zenon, <1>5
    <3> QED
      BY Zenon, <3>1, <3>2
  <2>4. Cardinality(1..m) = m
    BY <2>2, FS_Interval
  <2> QED
    BY <1>1, <1>2, <1>4, <2>1, <2>2, <2>3, <2>4
<1> QED
  BY Zenon, <1>6, <1>7
-----------------------------------------------------------------------------
(* The types.                                                              *)

\* ToCommit keeps the task's offsets in their range.
LEMMA ToCommitType ==
  ASSUME TaskType, NEW c \in Message, ToCommit(c)
  PROVE  committed' \in [Segments -> Known] /\ ack' \in Message /\ pc' = "write"
<1>1. committed[c.segment] \in Known /\ c.offset \in Known /\ Known \subseteq Int
  BY TaskAssumption DEF TaskType, Message, Known, Offset, Unknown
<1>2. Larger(committed[c.segment], c.offset) \in Known
  BY Zenon, <1>1 DEF Larger
<1> QED
  BY Zenon, <1>2 DEF ToCommit, TaskType, Message

\* A segment that a tick starts has an offset, and Tick makes a sequence of those
\* that are too old.
LEMMA TickFacts ==
  ASSUME TaskType, StatusSound, Tick
  PROVE  /\ \A g \in Segments : Merged(g) \in Known
         /\ ackImmediately' \in Seq(Message)
         /\ \A k \in DOMAIN ackImmediately' :
                LET g == ackImmediately'[k].segment IN g \in Old /\ Startable(g)
<1>1. \A g \in Segments : Merged(g) \in Known
  BY Zenon, TaskAssumption DEF TaskType, Merged, Larger, Known, Offset, Unknown
<1> DEFINE S == {g \in Old : Startable(g)}
<1>2. IsFiniteSet(S) /\ \A g \in S : g \in Segments /\ g \in Old /\ Startable(g)
  <2>1. S \subseteq Segments /\ IsFiniteSet(Segments)
    BY Zenon, TaskAssumption
  <2> QED
    BY Zenon, <2>1, FS_Subset
<1>3. \A g \in S : written[g] \in 1..SegmentSize
  BY <1>2, TaskAssumption DEF StatusSound, Startable, Existing
<1>4. PICK order \in Injection(1..Cardinality(S), S) :
        ackImmediately' = [k \in DOMAIN order |->
            [segment |-> order[k], offset |-> written[order[k]]]]
  BY Zenon DEF Tick
<1> HIDE DEF S
<1>5. Cardinality(S) \in Nat
  BY Zenon, <1>2, FS_CardinalityType
<1>6. order \in [1..Cardinality(S) -> S]
  BY Zenon DEF Injection
<1>7. \A k \in 1..Cardinality(S) :
        [segment |-> order[k], offset |-> written[order[k]]] \in Message
  BY Zenon, <1>2, <1>3, <1>6 DEF Message
<1>8. ackImmediately' \in [1..Cardinality(S) -> Message]
  BY Zenon, <1>4, <1>6, <1>7
<1>9. ackImmediately' \in Seq(Message)
  BY <1>5, <1>8
<1>10. ASSUME NEW k \in DOMAIN ackImmediately'
       PROVE  ackImmediately'[k].segment \in S
  BY Zenon, <1>4, <1>6, <1>8
<1> QED
  BY Zenon, <1>1, <1>2, <1>9, <1>10

\* Ack pops acked messages from the front and turns them into commits.
LEMMA AckFacts ==
  ASSUME TaskType, NEW k \in DOMAIN buffer, Ack(k)
  PROVE  \E n \in 0..Len(buffer) :
           /\ buffer' \in Seq(Entry)
           /\ Len(buffer') = Len(buffer) - n
           /\ \A j \in 1..(Len(buffer) - n) :
                /\ buffer'[j].segment = buffer[j + n].segment
                /\ buffer'[j].offset = buffer[j + n].offset
                /\ buffer'[j].acked => j + n = k \/ buffer[j + n].acked
           /\ \A j \in 1..n : j = k \/ buffer[j].acked
           /\ inFlight' = inFlight \cup
                {[segment |-> buffer[j].segment, offset |-> buffer[j].offset] : j \in 1..n}
<1> DEFINE e == [segment |-> buffer[k].segment, offset |-> buffer[k].offset, acked |-> TRUE]
           b == [buffer EXCEPT ![k] = e]
           n == AckedPrefix(b)
<1>1. buffer \in Seq(Entry) /\ DOMAIN buffer = 1..Len(buffer) /\ Len(buffer) \in Nat
  BY DEF TaskType
<1>2. e \in Entry
  <2>1. buffer[k] \in Entry
    BY <1>1
  <2> QED
    BY Zenon, <2>1 DEF Entry
<1>4. b \in Seq(Entry) /\ Len(b) = Len(buffer)
  BY <1>1, <1>2
<1>5. \A j \in 1..Len(buffer) :
         /\ b[j].segment = buffer[j].segment /\ b[j].offset = buffer[j].offset
         /\ b[j].acked => j = k \/ buffer[j].acked
  BY Zenon, <1>1, <1>2 DEF Entry
<1> HIDE DEF b
<1>6. n \in 0..Len(buffer) /\ \A j \in 1..n : b[j].acked
  BY Zenon, <1>4, PrefixFacts
<1>7. buffer' = SubSeq(b, n + 1, Len(b))
  BY Zenon DEF Ack, b
<1>8. inFlight' = inFlight \cup {[segment |-> b[j].segment, offset |-> b[j].offset] : j \in 1..n}
  BY Zenon DEF Ack, b
<1> HIDE DEF n
<1>9. buffer' \in Seq(Entry) /\ Len(buffer') = Len(buffer) - n
  <2>1. n + 1 \in 1..(Len(b) + 1) /\ Len(b) \in Nat /\ n \in Nat
    BY <1>1, <1>4, <1>6
  <2>2. SubSeq(b, n + 1, Len(b)) \in Seq(Entry)
    BY <1>4, <2>1
  <2>3. Len(SubSeq(b, n + 1, Len(b))) = Len(b) - n
    BY <1>4, <2>1
  <2> QED
    BY Zenon, <1>4, <1>7, <2>2, <2>3
<1>10. \A j \in 1..(Len(buffer) - n) : buffer'[j] = b[j + n]
  BY <1>1, <1>4, <1>6, <1>7
<1>11. \A j \in 1..n : j \in 1..Len(buffer)
  BY <1>1, <1>6
<1>12. inFlight' = inFlight \cup
         {[segment |-> buffer[j].segment, offset |-> buffer[j].offset] : j \in 1..n}
  BY Zenon, <1>5, <1>8, <1>11
<1>13. \A j \in 1..(Len(buffer) - n) : j + n \in 1..Len(buffer)
  BY <1>1, <1>6
<1> QED
  BY Zenon, <1>5, <1>6, <1>9, <1>10, <1>11, <1>12, <1>13

\* The types are kept.
LEMMA TypeStep ==
  ASSUME TaskType, StatusSound, [Next]_vars
  PROVE  TaskType'
<1> USE DEF clusterVars, logVars, loopVars, groupVars, vars
<1>1. ASSUME NEW g \in Segments, OpenSegment(g) PROVE TaskType'
  BY <1>1, TaskAssumption DEF TaskType, OpenSegment, Known, Offset, Unknown
<1>2. ASSUME NEW g \in Segments, Publish(g) PROVE TaskType'
  BY <1>2, TaskAssumption DEF TaskType, Publish, Offset
<1>3. ASSUME NEW g \in Segments, CloseSegment(g) PROVE TaskType'
  BY Zenon, <1>3 DEF TaskType, CloseSegment
<1>4. ASSUME NEW g \in Segments, DeleteSegment(g) PROVE TaskType'
  BY Zenon, <1>4 DEF TaskType, DeleteSegment
<1>5. CASE ReconcileOffsetCommits
  BY <1>5, TaskAssumption
     DEF TaskType, ReconcileOffsetCommits, Known, Offset, Unknown, Larger
<1>6. CASE ReconcileOffsetCommitsSegment
  BY <1>6 DEF TaskType, ReconcileOffsetCommitsSegment
<1>7. CASE StartTask
  BY Zenon, <1>7, RecoveredFacts DEF TaskType, StartTask, RecoveredIs, Writing
<1>8. CASE Crash
  BY SMTT(30), <1>8, TaskAssumption DEF TaskType, Crash, Known, Offset, Writing
<1>9. CASE Tick
  <2>1. committed' \in [Segments -> Known]
    BY Zenon, <1>9, TickFacts DEF Tick
  <2>2. cursor' \in [Segments -> Offset]
    BY Zenon, <1>9, TickFacts DEF Tick, TaskType, Startable, StartOffset, Known
  <2>3. task' \in [Segments -> {"none", "running", "cancelled", "failed", "eof"}]
    BY Zenon, <1>9 DEF Tick, TaskType
  <2> QED
    BY Zenon, <1>9, <2>1, <2>2, <2>3, TickFacts DEF Tick, TaskType
<1>10. CASE CommitImmediately
  <2>1. Head(ackImmediately) \in Message /\ Tail(ackImmediately) \in Seq(Message)
    BY <1>10 DEF CommitImmediately, TaskType
  <2> QED
    BY Zenon, <1>10, <2>1, ToCommitType DEF CommitImmediately, TaskType, Writing
<1>11. ASSUME NEW c \in inFlight, TakeCommit(c) PROVE TaskType'
  <2>1. c \in Message
    BY Zenon DEF TaskType
  <2> QED
    BY Zenon, <1>11, <2>1, ToCommitType DEF TakeCommit, TaskType, Writing
<1>12. ASSUME NEW g \in Segments, TaskFailed(g) PROVE TaskType'
  BY Zenon, <1>12 DEF TaskType, TaskFailed
<1>13. ASSUME NEW g \in Segments, TaskCompleted(g) PROVE TaskType'
  BY <1>13, TaskAssumption DEF TaskType, TaskCompleted, Commit, Offset, Writing
<1>14. CASE SegmentClosed
  <2>1. CASE status[ack.segment] = "closed"
    <3> DEFINE c == [segment |-> ack.segment, offset |-> written[ack.segment]]
    <3>1. ack \in Commit /\ ack.segment \in Segments
      BY Zenon, <1>14 DEF SegmentClosed, TaskType, Commit
    <3>2. written[ack.segment] \in 1..SegmentSize
      BY <2>1, <3>1, TaskAssumption DEF StatusSound
    <3>3. c \in Message
      BY Zenon, <3>1, <3>2 DEF Commit, Message
    <3>4. ToCommit(c)
      BY Zenon, <1>14, <2>1 DEF SegmentClosed
    <3> QED
      BY Zenon, <1>14, <3>3, <3>4, ToCommitType DEF SegmentClosed, TaskType, Writing
  <2>2. CASE status[ack.segment] # "closed"
    BY Zenon, <1>14, <2>2 DEF SegmentClosed, TaskType, Writing
  <2> QED
    BY Zenon, <2>1, <2>2
<1>15. CASE WriteCommit
  BY <1>15 DEF TaskType, WriteCommit, Writing
<1>16. CASE RotateOffsets
  BY Zenon, <1>16 DEF TaskType, RotateOffsets, Writing
<1>17. CASE RotateClose
  BY Zenon, <1>17 DEF TaskType, RotateClose, Writing
<1>18. CASE RotateOpen
  BY <1>18 DEF TaskType, RotateOpen, Writing
<1>19. ASSUME NEW g \in Segments, Offer(g) PROVE TaskType'
  <2>1. cursor[g] + 1 \in 1..SegmentSize
    BY <1>19, TaskAssumption DEF TaskType, Offer, Offset
  <2>2. cursor' \in [Segments -> Offset]
    BY <1>19, <2>1, TaskAssumption DEF TaskType, Offer, Offset
  <2>3. [segment |-> g, offset |-> cursor[g] + 1, acked |-> FALSE] \in Entry
    BY Zenon, <2>1 DEF Entry
  <2>4. buffer' \in Seq(Entry)
    <3>1. buffer \in Seq(Entry)
      BY Zenon DEF TaskType
    <3>2. CASE g \in Old
      BY Zenon, <1>19, <3>1, <3>2 DEF Offer
    <3>3. CASE g \notin Old
      <4>1. buffer' = Append(buffer,
                        [segment |-> g, offset |-> cursor[g] + 1, acked |-> FALSE])
        BY Zenon, <1>19, <3>3 DEF Offer
      <4> QED
        BY <2>3, <3>1, <4>1
    <3> QED
      BY Zenon, <3>2, <3>3
  <2> QED
    BY Zenon, <1>19, <2>2, <2>4 DEF TaskType, Offer
<1>20. ASSUME NEW g \in Segments, ConsumeEnds(g) PROVE TaskType'
  BY Zenon, <1>20 DEF TaskType, ConsumeEnds
<1>21. ASSUME NEW g \in Segments, ConsumeFails(g) PROVE TaskType'
  BY Zenon, <1>21 DEF TaskType, ConsumeFails
<1>22. ASSUME NEW k \in DOMAIN buffer, Ack(k) PROVE TaskType'
  <2>1. PICK n \in 0..Len(buffer) :
          /\ buffer' \in Seq(Entry)
          /\ inFlight' = inFlight \cup
               {[segment |-> buffer[j].segment, offset |-> buffer[j].offset] : j \in 1..n}
    BY Zenon, <1>22, AckFacts
  <2>2. \A j \in DOMAIN buffer :
          [segment |-> buffer[j].segment, offset |-> buffer[j].offset] \in Message
    <3>1. \A j \in DOMAIN buffer : buffer[j] \in Entry
      BY DEF TaskType
    <3> QED
      BY Zenon, <3>1 DEF Entry, Message
  <2>3. 1..n \subseteq DOMAIN buffer
    BY <2>1 DEF TaskType
  <2>4. inFlight' \subseteq Message /\ acked' \subseteq Message
    BY Zenon, <1>22, <2>1, <2>2, <2>3 DEF TaskType, Ack
  <2> QED
    BY Zenon, <1>22, <2>1, <2>4 DEF TaskType, Ack
<1>23. CASE UNCHANGED vars
  BY Zenon, <1>23 DEF TaskType
<1> QED
  BY Zenon, <1>1, <1>2, <1>3, <1>4, <1>5, <1>6, <1>7, <1>8, <1>9, <1>10, <1>11, <1>12,
     <1>13, <1>14, <1>15, <1>16, <1>17, <1>18, <1>19, <1>20, <1>21, <1>22, <1>23
     DEF Next, Loop, Consume

-----------------------------------------------------------------------------
(* The segments in the cluster state.                                      *)

\* An offset is committed only of a segment the cluster state has had.
LEMMA ToCommitKnown ==
  ASSUME TaskInv, NEW c \in Message, ToCommit(c), status[c.segment] # "none"
  PROVE  \A g \in Segments : status[g] = "none" => committed'[g] = committed[g]
BY Zenon DEF ToCommit, TaskInv, TaskType, Message

\* Segments are opened, filled, closed and deleted in this order.
LEMMA StatusStep ==
  ASSUME TaskInv, [Next]_vars
  PROVE  StatusSound'
<1> USE DEF clusterVars, logVars, loopVars, groupVars, vars
<1>0. TaskType /\ StatusSound /\ Tracked
  BY Zenon DEF TaskInv
<1>1. ASSUME NEW g \in Segments, OpenSegment(g) PROVE StatusSound'
  BY Zenon, <1>0, <1>1 DEF TaskType, StatusSound, OpenSegment
<1>2. ASSUME NEW g \in Segments, Publish(g) PROVE StatusSound'
  BY Zenon, <1>0, <1>2 DEF TaskType, StatusSound, Publish
<1>3. ASSUME NEW g \in Segments, CloseSegment(g) PROVE StatusSound'
  BY Zenon, <1>0, <1>3 DEF TaskType, StatusSound, CloseSegment
<1>4. ASSUME NEW g \in Segments, DeleteSegment(g) PROVE StatusSound'
  BY Zenon, <1>0, <1>4 DEF TaskType, StatusSound, DeleteSegment
<1>5. CASE ReconcileOffsetCommits
  BY Zenon, <1>0, <1>5 DEF TaskType, StatusSound, ReconcileOffsetCommits, Existing
<1>6. CASE StartTask
  <2>1. \A g \in Segments : offsetCommits[g] = Unknown => Recovered(g) = Unknown
    BY Zenon, <1>0, RecoveredFacts DEF RecoveredIs
  <2> QED
    BY Zenon, <1>0, <1>6, <2>1 DEF TaskType, StatusSound, StartTask
<1>7. CASE Crash
  BY Zenon, <1>0, <1>7 DEF TaskType, StatusSound, Crash
<1>8. CASE Tick
  <2>1. \A g \in Segments : offsetCommits[g] = Unknown => Merged(g) = Unknown
    BY ZenonT(30) DEF Merged
  <2> QED
    BY SMTT(30), <1>0, <1>8, <2>1 DEF TaskType, StatusSound, Tick
<1>9. ASSUME NEW c \in Message, ToCommit(c), Seen(c.segment),
             UNCHANGED clusterVars
      PROVE  StatusSound'
  <2>1. status[c.segment] # "none"
    BY Zenon, <1>0, <1>9 DEF Tracked, Message
  <2> QED
    BY Zenon, <1>0, <1>9, <2>1, ToCommitKnown DEF StatusSound
<1>10. CASE CommitImmediately
  <2>1. ackImmediately \in Seq(Message) /\ ackImmediately # <<>>
    BY Zenon, <1>0, <1>10 DEF CommitImmediately, TaskType
  <2>2. /\ Head(ackImmediately) \in Message
        /\ 1 \in DOMAIN ackImmediately /\ Head(ackImmediately) = ackImmediately[1]
    BY <2>1
  <2>3. Seen(Head(ackImmediately).segment)
    BY Zenon, <2>2 DEF Seen
  <2> QED
    BY Zenon, <1>9, <1>10, <2>2, <2>3 DEF CommitImmediately
<1>11. ASSUME NEW c \in inFlight, TakeCommit(c) PROVE StatusSound'
  <2>1. c \in Message /\ Seen(c.segment)
    BY Zenon, <1>0 DEF TaskType, Seen
  <2> QED
    BY Zenon, <1>9, <1>11, <2>1 DEF TakeCommit
<1>12. CASE SegmentClosed
  BY Zenon, <1>0, <1>12 DEF TaskType, StatusSound, SegmentClosed, ToCommit, Commit
<1>13. CASE RotateOffsets
  BY Zenon, <1>0, <1>13 DEF TaskType, StatusSound, RotateOffsets
<1>14. CASE UNCHANGED <<status, written, offsetCommits, committed>>
  BY Zenon, <1>0, <1>14 DEF StatusSound
<1> QED
  <2>1. CASE \/ ReconcileOffsetCommitsSegment \/ WriteCommit \/ RotateClose \/ RotateOpen
             \/ \E g \in Segments : \/ TaskFailed(g) \/ TaskCompleted(g) \/ Offer(g)
                                    \/ ConsumeEnds(g) \/ ConsumeFails(g)
             \/ \E k \in DOMAIN buffer : Ack(k)
    BY Zenon, <1>14, <2>1 DEF ReconcileOffsetCommitsSegment, WriteCommit, RotateClose,
       RotateOpen, TaskFailed, TaskCompleted, Offer, ConsumeEnds, ConsumeFails, Ack
  <2> QED
    BY Zenon, <1>1, <1>2, <1>3, <1>4, <1>5, <1>6, <1>7, <1>8, <1>10, <1>11, <1>12, <1>13,
       <1>14, <2>1 DEF Next, Loop, Consume

-----------------------------------------------------------------------------
(* Offsets on their way from Ack to the cluster state.                     *)

\* Nobody takes an ack back or opens a closed segment again.
LEMMA Monotone ==
  ASSUME TaskType, [Next]_vars
  PROVE  /\ acked \subseteq acked'
         /\ \A g \in Segments : status[g] \in {"closed", "deleted"} =>
                                status'[g] \in {"closed", "deleted"}
<1> USE DEF clusterVars, logVars, loopVars, groupVars, vars
<1>1. ASSUME NEW g \in Segments, OpenSegment(g) \/ CloseSegment(g) \/ DeleteSegment(g)
      PROVE  /\ acked = acked'
             /\ \A x \in Segments : status[x] \in {"closed", "deleted"} =>
                                    status'[x] \in {"closed", "deleted"}
  BY Zenon, <1>1 DEF TaskType, OpenSegment, CloseSegment, DeleteSegment
<1>2. ASSUME NEW k \in DOMAIN buffer, Ack(k)
      PROVE  acked \subseteq acked' /\ status' = status
  BY Zenon, <1>2 DEF Ack
<1>3. CASE \/ ReconcileOffsetCommits \/ ReconcileOffsetCommitsSegment
           \/ StartTask \/ Crash \/ Loop \/ UNCHANGED vars
           \/ \E g \in Segments : Publish(g) \/ Consume(g) \/ ConsumeFails(g)
  <2>1. UNCHANGED <<status, acked>>
    BY Zenon, <1>3 DEF ReconcileOffsetCommits, ReconcileOffsetCommitsSegment, StartTask,
       Crash, Loop, Publish, Consume, Offer, ConsumeEnds, ConsumeFails, Tick,
       CommitImmediately, TakeCommit, TaskFailed, TaskCompleted, SegmentClosed,
       WriteCommit, RotateOffsets, RotateClose, RotateOpen
  <2> QED
    BY SMTT(30), <2>1
<1> QED
  BY Zenon, <1>1, <1>2, <1>3 DEF Next

\* A good offset stays good.
LEMMA GoodKept ==
  ASSUME TaskType, [Next]_vars, NEW g \in Segments, NEW o
  PROVE  /\ AckedBelow(g, o) => AckedBelow(g, o)'
         /\ Good(g, o) => Good(g, o)'
BY Zenon, Monotone DEF Good, AckedBelow

\* Offsets before the first message are good.
LEMMA GoodStart ==
  ASSUME NEW g, NEW o \in {0, Unknown}
  PROVE  Good(g, o)' /\ Good(g, o)
BY DEF Good, AckedBelow, Unknown

\* What is committed is at most what was known or is being committed.
LEMMA ToCommitIs ==
  ASSUME TaskType, NEW c \in Message, ToCommit(c)
  PROVE  /\ ack' = c /\ pc' = "write"
         /\ \A g \in Segments :
                /\ committed'[g] = committed[g] \/ (g = c.segment /\ committed'[g] = c.offset)
                /\ committed[g] =< committed'[g]
                /\ g = c.segment => c.offset =< committed'[g]
<1>1. c.segment \in Segments /\ c.offset \in Int
  BY TaskAssumption DEF Message
<1>2. \A g \in Segments : committed[g] \in Int
  BY TaskAssumption DEF TaskType, Known, Offset, Unknown
<1>3. committed' = [committed EXCEPT ![c.segment] = Larger(committed[c.segment], c.offset)]
  BY Zenon DEF ToCommit
<1>4. ASSUME NEW g \in Segments
      PROVE  /\ committed'[g] = committed[g] \/ (g = c.segment /\ committed'[g] = c.offset)
             /\ committed[g] =< committed'[g]
             /\ g = c.segment => c.offset =< committed'[g]
  <2>1. CASE g = c.segment
    <3>1. committed'[g] = Larger(committed[g], c.offset)
      BY Zenon, <1>1, <1>3, <2>1 DEF TaskType
    <3>2. committed[g] \in Int /\ c.offset \in Int
      BY Zenon, <1>1, <1>2
    <3>3. /\ committed'[g] = committed[g] \/ committed'[g] = c.offset
          /\ committed[g] =< committed'[g] /\ c.offset =< committed'[g]
      BY Zenon, <3>1, <3>2, LargerIs
    <3> QED
      BY Zenon, <2>1, <3>3
  <2>2. CASE g # c.segment
    <3>1. committed'[g] = committed[g]
      BY Zenon, <1>3, <2>2 DEF TaskType
    <3>2. committed[g] =< committed[g]
      BY <1>2
    <3> QED
      BY Zenon, <2>2, <3>1, <3>2
  <2> QED
    BY Zenon, <2>1, <2>2
<1> QED
  BY Zenon, <1>4 DEF ToCommit

\* A step after which every offset is one that was good keeps CommitsGood.
LEMMA CommitsFrame ==
  ASSUME TaskType, [Next]_vars,
         \A g \in Segments \ Old :
            /\ Good(g, offsetCommits'[g])
            /\ Good(g, committed'[g])
            /\ \A k \in DOMAIN log' : log'[k].segment = g => Good(g, log'[k].offset)
            /\ pc' \in Writing /\ ack'.segment = g => Good(g, ack'.offset)
            /\ \A c \in inFlight' : c.segment = g => AckedBelow(g, c.offset)
            /\ \A k \in DOMAIN ackImmediately' : ackImmediately'[k].segment # g
  PROVE  CommitsGood'
<1> SUFFICES ASSUME NEW g \in Segments \ Old
             PROVE  /\ Good(g, offsetCommits[g])'
                    /\ Good(g, committed[g])'
                    /\ \A k \in DOMAIN log' :
                          log'[k].segment = g => (AckedBelow(g, log[k].offset)'
                             \/ (log'[k].offset = SegmentSize
                                    /\ status'[g] \in {"closed", "deleted"}))
                    /\ pc' \in Writing /\ ack'.segment = g => Good(g, ack.offset)'
                    /\ \A c \in inFlight' : c.segment = g => AckedBelow(g, c.offset)'
                    /\ \A k \in DOMAIN ackImmediately' : ackImmediately'[k].segment # g
  BY Zenon DEF CommitsGood, Good
<1> QED
  BY SMTT(30), Monotone DEF Good, AckedBelow

\* Offsets stay good on their way.
LEMMA CommitsStep ==
  ASSUME TaskInv, [Next]_vars
  PROVE  CommitsGood'
<1> USE DEF clusterVars, logVars, loopVars, groupVars, vars
<1>0. TaskType /\ StatusSound /\ CommitsGood /\ BufferSound
  BY Zenon DEF TaskInv
<1>1. ASSUME NEW g \in Segments, OpenSegment(g) PROVE CommitsGood'
  <2>1. \A x \in Segments \ Old : Good(x, offsetCommits'[x])
    BY SMTT(30), <1>0, <1>1, GoodStart DEF OpenSegment, CommitsGood, TaskType
  <2> QED
    BY Zenon, <1>0, <1>1, <2>1, CommitsFrame DEF OpenSegment, CommitsGood
<1>2. CASE ReconcileOffsetCommits
  <2>1. \A x \in Segments : offsetCommits[x] \in Int
    BY <1>0, TaskAssumption DEF TaskType, Known, Offset, Unknown
  <2>2. \A x \in Segments :
          offsetCommits'[x] = offsetCommits[x] \/ offsetCommits'[x] \in {0, Unknown}
    BY <1>2, <2>1, LargerIs DEF ReconcileOffsetCommits
  <2>3. \A x \in Segments \ Old : Good(x, offsetCommits'[x])
    BY SMTT(30), <1>0, <2>2, GoodStart DEF CommitsGood
  <2> QED
    BY Zenon, <1>0, <1>2, <2>3, CommitsFrame DEF ReconcileOffsetCommits, CommitsGood
<1>3. CASE ReconcileOffsetCommitsSegment \/ RotateOpen
  <2>1. log' = <<>>
    BY Zenon, <1>3 DEF ReconcileOffsetCommitsSegment, RotateOpen
  <2>2. pc' \in Writing => pc \in Writing
    BY SMTT(30), <1>3 DEF ReconcileOffsetCommitsSegment, RotateOpen, Writing
  <2>3. UNCHANGED <<offsetCommits, committed, ack, inFlight, ackImmediately>>
    BY Zenon, <1>3 DEF ReconcileOffsetCommitsSegment, RotateOpen
  <2> QED
    BY <1>0, <2>1, <2>2, <2>3, CommitsFrame DEF CommitsGood
<1>4. CASE StartTask
  <2>1. \A x \in Segments \ Old : Good(x, Recovered(x))
    BY Zenon, <1>0, RecoveredFacts DEF RecoveredIs, CommitsGood
  <2>2. \A x \in Segments \ Old : Good(x, committed'[x])
    BY SMTT(30), <1>4, <2>1 DEF StartTask
  <2>3. /\ UNCHANGED <<offsetCommits, log, inFlight, ackImmediately>>
        /\ pc' \notin Writing
    BY Zenon, <1>4 DEF StartTask, Writing
  <2> QED
    BY Zenon, <1>0, <2>2, <2>3, CommitsFrame DEF CommitsGood
<1>5. CASE Crash
  <2>1. \A x \in Segments \ Old : Good(x, committed'[x])
    BY SMTT(30), <1>5, GoodStart DEF Crash
  <2>2. /\ UNCHANGED <<offsetCommits, log>> /\ inFlight' = {} /\ ackImmediately' = <<>>
        /\ pc' \notin Writing
    BY Zenon, <1>5 DEF Crash, Writing
  <2> QED
    BY <1>0, <2>1, <2>2, CommitsFrame DEF CommitsGood
<1>6. CASE Tick
  <2>1. \A x \in Segments :
          Merged(x) = Unknown \/ Merged(x) = offsetCommits[x] \/ Merged(x) = committed[x]
    BY SMTT(30) DEF Merged, Larger
  <2>2. \A x \in Segments \ Old : Good(x, committed'[x])
    BY Zenon, <1>0, <1>6, <2>1, GoodStart DEF Tick, CommitsGood
  <2>3. \A k \in DOMAIN ackImmediately' : ackImmediately'[k].segment \in Old
    BY SMTT(30), <1>0, <1>6, TickFacts
  <2>4. UNCHANGED <<offsetCommits, log, pc, ack, inFlight>>
    BY Zenon, <1>6 DEF Tick
  <2> QED
    BY Zenon, <1>0, <2>2, <2>3, <2>4, CommitsFrame DEF CommitsGood
<1>7. ASSUME NEW c \in Message, ToCommit(c),
             c.segment \in Old \/ Good(c.segment, c.offset),
             UNCHANGED <<offsetCommits, log>>, inFlight' \subseteq inFlight,
             \A k \in DOMAIN ackImmediately' :
                \E j \in DOMAIN ackImmediately : ackImmediately'[k] = ackImmediately[j]
      PROVE  CommitsGood'
  <2>1. \A x \in Segments \ Old : Good(x, committed'[x])
    BY SMTT(30), <1>0, <1>7, ToCommitIs DEF CommitsGood
  <2>2. \A x \in Segments \ Old : ack'.segment = x => Good(x, ack'.offset)
    BY Zenon, <1>0, <1>7, ToCommitIs
  <2> QED
    BY ZenonT(30), <1>0, <1>7, <2>1, <2>2, CommitsFrame DEF CommitsGood
<1>8. CASE CommitImmediately
  <2>1. ackImmediately \in Seq(Message) /\ ackImmediately # <<>>
    BY Zenon, <1>0, <1>8 DEF CommitImmediately, TaskType
  <2>2. /\ Head(ackImmediately) \in Message
        /\ 1 \in DOMAIN ackImmediately /\ Head(ackImmediately) = ackImmediately[1]
    BY <2>1
  <2>3. Head(ackImmediately).segment \in Old
    BY Zenon, <1>0, <2>2 DEF CommitsGood, Message
  <2>4. \A k \in DOMAIN Tail(ackImmediately) :
          /\ k + 1 \in DOMAIN ackImmediately
          /\ Tail(ackImmediately)[k] = ackImmediately[k + 1]
    BY <2>1
  <2> QED
    BY Zenon, <1>7, <1>8, <2>2, <2>3, <2>4 DEF CommitImmediately
<1>9. ASSUME NEW c \in inFlight, TakeCommit(c) PROVE CommitsGood'
  <2>1. c \in Message /\ c.segment \in Segments
    BY Zenon, <1>0 DEF TaskType, Message
  <2>2. c.segment \in Old \/ Good(c.segment, c.offset)
    BY Zenon, <1>0, <2>1 DEF CommitsGood, Good
  <2> QED
    BY Zenon, <1>7, <1>9, <2>1, <2>2 DEF TakeCommit
<1>10. CASE SegmentClosed
  <2>1. CASE status[ack.segment] = "closed"
    <3> DEFINE c == [segment |-> ack.segment, offset |-> written[ack.segment]]
    <3>1. ack \in Commit /\ ack.segment \in Segments
      BY Zenon, <1>0, <1>10 DEF SegmentClosed, TaskType, Commit
    <3>2. written[ack.segment] = SegmentSize /\ SegmentSize \in 1..SegmentSize
      BY <1>0, <2>1, <3>1, TaskAssumption DEF StatusSound
    <3>3. c \in Message /\ c.segment = ack.segment /\ c.offset = SegmentSize
      BY Zenon, <3>1, <3>2 DEF Commit, Message
    <3>4. ToCommit(c)
      BY Zenon, <1>10, <2>1 DEF SegmentClosed
    <3> HIDE DEF c
    <3>5. Good(c.segment, c.offset)
      BY Zenon, <2>1, <3>3 DEF Good
    <3> QED
      BY Zenon, <1>7, <1>10, <3>3, <3>4, <3>5 DEF SegmentClosed
  <2>2. CASE status[ack.segment] # "closed"
    <3>1. /\ UNCHANGED <<offsetCommits, committed, log, inFlight, ackImmediately>>
          /\ pc' \notin Writing
      BY Zenon, <1>10, <2>2 DEF SegmentClosed, Writing
    <3> QED
      BY Zenon, <1>0, <3>1, CommitsFrame DEF CommitsGood
  <2> QED
    BY Zenon, <2>1, <2>2
<1>11. CASE WriteCommit
  <2>1. log \in Seq(Message) /\ ack \in Message
    BY Zenon, <1>0, <1>11 DEF WriteCommit, TaskType, Writing
  <2>2. \A k \in DOMAIN log' :
           (k \in DOMAIN log /\ log'[k] = log[k]) \/ log'[k] = ack
    BY <1>11, <2>1 DEF WriteCommit
  <2>3. \A x \in Segments \ Old : ack.segment = x => Good(x, ack.offset)
    BY Zenon, <1>0, <1>11 DEF WriteCommit, CommitsGood, Writing
  <2>4. \A x \in Segments \ Old :
          \A k \in DOMAIN log' : log'[k].segment = x => Good(x, log'[k].offset)
    BY SMTT(30), <1>0, <2>2, <2>3 DEF CommitsGood
  <2>5. UNCHANGED <<offsetCommits, committed, ack, inFlight, ackImmediately>>
    BY Zenon, <1>11 DEF WriteCommit
  <2> QED
    BY Zenon, <1>0, <2>3, <2>4, <2>5, CommitsFrame DEF CommitsGood
<1>12. CASE RotateOffsets \/ RotateClose
  <2>1. /\ \/ UNCHANGED offsetCommits
           \/ offsetCommits' = committed
        /\ UNCHANGED <<committed, ack, inFlight, ackImmediately>>
        /\ pc \in Writing
        /\ log' = log
    BY Zenon, <1>12 DEF RotateOffsets, RotateClose, Writing
  <2> QED
    BY Zenon, <1>0, <2>1, CommitsFrame DEF CommitsGood
<1>13. ASSUME NEW k \in DOMAIN buffer, Ack(k) PROVE CommitsGood'
  <2>1. PICK n \in 0..Len(buffer) :
          /\ \A j \in 1..n : j = k \/ buffer[j].acked
          /\ inFlight' = inFlight \cup
               {[segment |-> buffer[j].segment, offset |-> buffer[j].offset] : j \in 1..n}
    BY Zenon, <1>0, <1>13, AckFacts
  <2>2. DOMAIN buffer = 1..Len(buffer) /\ Len(buffer) \in Nat
        /\ \A j \in DOMAIN buffer : buffer[j] \in Entry
    BY <1>0 DEF TaskType
  <2>3. \A j \in 1..n :
           [segment |-> buffer[j].segment, offset |-> buffer[j].offset] \in acked'
    BY <1>0, <1>13, <2>1, <2>2 DEF Ack, BufferSound
  <2>4. ASSUME NEW j \in 1..n, NEW o \in 1..buffer[j].offset
        PROVE  [segment |-> buffer[j].segment, offset |-> o] \in acked'
    <3>1. j \in DOMAIN buffer /\ buffer[j].offset \in Nat /\ o \in Nat
      BY <2>2 DEF Entry
    <3>2. CASE o = buffer[j].offset
      BY Zenon, <2>3, <3>2
    <3>3. CASE o # buffer[j].offset
      <4>1. o \in 1..(buffer[j].offset - 1)
        BY <3>1, <3>3
      <4>2. Accounted(buffer[j].segment, o, j)
        BY Zenon, <1>0, <3>1, <4>1 DEF BufferSound
      <4>3. CASE [segment |-> buffer[j].segment, offset |-> o] \in acked
        BY Zenon, <1>0, <4>3, Monotone
      <4>4. ASSUME NEW i \in DOMAIN buffer, i < j,
                   buffer[i].segment = buffer[j].segment, buffer[i].offset = o
            PROVE  [segment |-> buffer[j].segment, offset |-> o] \in acked'
        <5>1. i \in 1..n
          BY <2>2, <4>4
        <5> QED
          BY Zenon, <2>3, <4>4, <5>1
      <4> QED
        BY Zenon, <4>2, <4>3, <4>4 DEF Accounted
    <3> QED
      BY Zenon, <3>2, <3>3
  <2>5. ASSUME NEW g \in Segments \ Old, NEW c \in inFlight', c.segment = g
        PROVE  AckedBelow(g, c.offset)'
    <3>1. CASE c \in inFlight
      BY Zenon, <1>0, <2>5, <3>1, GoodKept DEF CommitsGood
    <3>2. ASSUME NEW j \in 1..n,
                 c = [segment |-> buffer[j].segment, offset |-> buffer[j].offset]
          PROVE  AckedBelow(g, c.offset)'
      BY Zenon, <2>4, <2>5, <3>2 DEF AckedBelow
    <3> QED
      BY SMTT(30), <2>1, <3>1, <3>2
  <2>6. UNCHANGED <<status, offsetCommits, committed, log, pc, ack, ackImmediately>>
    BY SMTT(30), <1>13 DEF Ack
  <2> QED
    BY SMTT(30), <1>0, <2>5, <2>6, Monotone DEF CommitsGood, Good, AckedBelow
<1>14. CASE /\ UNCHANGED <<offsetCommits, committed, log, inFlight, ackImmediately>>
            /\ UNCHANGED <<pc, ack>> \/ pc' \notin Writing
  BY Zenon, <1>0, <1>14, CommitsFrame DEF CommitsGood
<1> QED
  <2>1. CASE \/ \E g \in Segments :
                  \/ Publish(g) \/ CloseSegment(g) \/ DeleteSegment(g)
                  \/ TaskFailed(g) \/ TaskCompleted(g) \/ Offer(g)
                  \/ ConsumeEnds(g) \/ ConsumeFails(g)
             \/ UNCHANGED vars
    BY ZenonT(30), <1>14, <2>1 DEF Publish, CloseSegment, DeleteSegment, TaskFailed,
       TaskCompleted, Offer, ConsumeEnds, ConsumeFails, Writing
  <2> QED
    BY Zenon, <1>1, <1>2, <1>3, <1>4, <1>5, <1>6, <1>8, <1>9, <1>10, <1>11, <1>12, <1>13,
       <2>1 DEF Next, Loop, Consume

==============================================================================
