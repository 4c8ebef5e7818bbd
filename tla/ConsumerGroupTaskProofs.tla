----------------------- MODULE ConsumerGroupTaskProofs ------------------------
(***************************************************************************)
(* What the offset commits of a consumer group promise, for every number   *)
(* of segments and messages, crashes and failures: a commit covers acked   *)
(* messages only, unless the whole of a closed segment was committed at    *)
(* once; a consume task skips no message; a commit once written is never   *)
(* forgotten.                                                              *)
(*                                                                         *)
(* TaskInv and the steps of its parts on types, segments and commits are   *)
(* in ConsumerGroupTaskCommits; the buffer, the cursors, Tracked and Ahead *)
(* follow here.                                                            *)
(***************************************************************************)
EXTENDS ConsumerGroupTaskCommits

(* The buffer and the cursors of the consume tasks.                        *)

\* An offered message goes behind the others.
LEMMA OfferFacts ==
  ASSUME TaskInv, NEW g \in Segments, Offer(g)
  PROVE  /\ acked' = acked /\ task' = task /\ task[g] # "none"
         /\ buffer' \in Seq(Entry)
         /\ \A j \in DOMAIN buffer : j \in DOMAIN buffer' /\ buffer'[j] = buffer[j]
         /\ \A j \in DOMAIN buffer' \ DOMAIN buffer :
               /\ g \notin Old /\ j = Len(buffer) + 1
               /\ buffer'[j] = [segment |-> g, offset |-> cursor[g] + 1, acked |-> FALSE]
         /\ g \notin Old => Len(buffer) + 1 \in DOMAIN buffer'
         /\ \A x \in Segments : cursor'[x] = IF x = g THEN cursor[g] + 1 ELSE cursor[x]
<1> USE DEF clusterVars, logVars, loopVars, groupVars, vars
<1>1. buffer \in Seq(Entry) /\ cursor \in [Segments -> Offset] /\ TaskType
  BY Zenon DEF TaskInv, TaskType
<1>2. [segment |-> g, offset |-> cursor[g] + 1, acked |-> FALSE] \in Entry
  <2>1. cursor[g] + 1 \in 1..SegmentSize
    BY <1>1, TaskAssumption DEF TaskType, Offer, Offset
  <2> QED
    BY Zenon, <2>1 DEF Entry
<1>3. acked' = acked /\ task' = task /\ task[g] # "none"
  BY Zenon DEF Offer, Consuming
<1>4. \A x \in Segments : cursor'[x] = IF x = g THEN cursor[g] + 1 ELSE cursor[x]
  BY Zenon, <1>1 DEF Offer
<1>5. CASE g \in Old
  BY Zenon, <1>1, <1>3, <1>4, <1>5 DEF Offer
<1>6. CASE g \notin Old
  <2>1. buffer' = Append(buffer,
                    [segment |-> g, offset |-> cursor[g] + 1, acked |-> FALSE])
    BY Zenon, <1>6 DEF Offer
  <2>2. /\ buffer' \in Seq(Entry) /\ DOMAIN buffer = 1..Len(buffer)
        /\ Len(buffer) \in Nat /\ DOMAIN buffer' = 1..(Len(buffer) + 1)
        /\ \A j \in 1..Len(buffer) : buffer'[j] = buffer[j]
        /\ buffer'[Len(buffer) + 1] =
             [segment |-> g, offset |-> cursor[g] + 1, acked |-> FALSE]
    BY <1>1, <1>2, <2>1
  <2>3. DOMAIN buffer \subseteq DOMAIN buffer' /\ Len(buffer) + 1 \in DOMAIN buffer'
    BY <2>2
  <2>4. \A j \in DOMAIN buffer' \ DOMAIN buffer : j = Len(buffer) + 1
    BY <2>2
  <2> QED
    BY Zenon, <1>3, <1>4, <1>6, <2>2, <2>3, <2>4
<1> QED
  BY Zenon, <1>5, <1>6

\* What was acked or in the buffer still is, at its place or n places earlier.
LEMMA AckAccounts ==
  ASSUME TaskInv, NEW k \in DOMAIN buffer, Ack(k)
  PROVE  \E n \in 0..Len(buffer) :
           /\ Len(buffer') = Len(buffer) - n /\ buffer' \in Seq(Entry)
           /\ \A j \in 1..(Len(buffer) - n) :
                /\ buffer'[j].segment = buffer[j + n].segment
                /\ buffer'[j].offset = buffer[j + n].offset
                /\ buffer'[j].acked => j + n = k \/ buffer[j + n].acked
           /\ \A g \in Segments : \A o, i \in Nat :
                Accounted(g, o, i) =>
                   \/ [segment |-> g, offset |-> o] \in acked'
                   \/ \E j \in DOMAIN buffer' :
                        j < i - n /\ buffer'[j].segment = g /\ buffer'[j].offset = o
<1>0. TaskType /\ BufferSound
  BY Zenon DEF TaskInv
<1>1. PICK n \in 0..Len(buffer) :
        /\ Len(buffer') = Len(buffer) - n /\ buffer' \in Seq(Entry)
        /\ \A j \in 1..(Len(buffer) - n) :
             /\ buffer'[j].segment = buffer[j + n].segment
             /\ buffer'[j].offset = buffer[j + n].offset
             /\ buffer'[j].acked => j + n = k \/ buffer[j + n].acked
        /\ \A j \in 1..n : j = k \/ buffer[j].acked
  BY Zenon, <1>0, AckFacts
<1>2. DOMAIN buffer = 1..Len(buffer) /\ Len(buffer) \in Nat /\ n \in Nat
  BY <1>0 DEF TaskType
<1>3. acked' = acked \cup
        {[segment |-> buffer[k].segment, offset |-> buffer[k].offset]}
  BY Zenon DEF Ack
<1>4. DOMAIN buffer' = 1..(Len(buffer) - n)
  BY <1>1, <1>2
<1>5. ASSUME NEW g \in Segments, NEW o \in Nat, NEW i \in Nat, Accounted(g, o, i)
      PROVE  \/ [segment |-> g, offset |-> o] \in acked'
             \/ \E j \in DOMAIN buffer' :
                  j < i - n /\ buffer'[j].segment = g /\ buffer'[j].offset = o
  <2>1. CASE [segment |-> g, offset |-> o] \in acked
    BY Zenon, <1>3, <2>1
  <2>2. ASSUME NEW j \in DOMAIN buffer, j < i, buffer[j].segment = g, buffer[j].offset = o
        PROVE  \/ [segment |-> g, offset |-> o] \in acked'
               \/ \E l \in DOMAIN buffer' :
                    l < i - n /\ buffer'[l].segment = g /\ buffer'[l].offset = o
    <3>1. CASE j \in 1..n
      <4>1. j = k \/ buffer[j].acked
        BY Zenon, <1>1, <3>1
      <4>2. [segment |-> g, offset |-> o] \in acked'
        BY Zenon, <1>0, <1>3, <2>2, <4>1 DEF BufferSound
      <4> QED
        BY Zenon, <4>2
    <3>2. CASE j \notin 1..n
      <4>1. PICK l \in 1..(Len(buffer) - n) : l = j - n /\ l + n = j /\ l < i - n
        BY <1>2, <2>2, <3>2
      <4> QED
        BY Zenon, <1>1, <1>4, <2>2, <4>1
    <3> QED
      BY Zenon, <3>1, <3>2
  <2> QED
    BY Zenon, <1>5, <2>1, <2>2 DEF Accounted
<1> QED
  BY Zenon, <1>1, <1>5

\* The messages before one in the buffer are acked or before it.
LEMMA BufferStep ==
  ASSUME TaskInv, [Next]_vars
  PROVE  BufferSound'
<1> USE DEF clusterVars, logVars, loopVars, groupVars, vars
<1>0. TaskType /\ BufferSound /\ CursorSound
  BY Zenon DEF TaskInv
<1>1. CASE UNCHANGED <<buffer, acked>>
  BY <1>0, <1>1 DEF BufferSound, Accounted
<1>2. CASE Crash
  BY <1>2 DEF Crash, BufferSound
<1>3. ASSUME NEW g \in Segments, Offer(g) PROVE BufferSound'
  <2>1. \A x, o, n : Accounted(x, o, n) => Accounted(x, o, n)'
    BY Zenon, <1>3, OfferFacts DEF Accounted
  <2>2. ASSUME NEW j \in DOMAIN buffer
        PROVE  /\ buffer'[j].segment \notin Old
               /\ buffer'[j].acked =>
                   [segment |-> buffer'[j].segment, offset |-> buffer'[j].offset] \in acked'
               /\ \A o \in 1..(buffer'[j].offset - 1) :
                    Accounted(buffer[j].segment, o, j)'
    <3>1. buffer'[j] = buffer[j] /\ acked' = acked
      BY Zenon, <1>3, OfferFacts
    <3> QED
      BY Zenon, <1>0, <2>1, <3>1 DEF BufferSound
  <2>3. ASSUME NEW j \in DOMAIN buffer' \ DOMAIN buffer
        PROVE  /\ buffer'[j].segment \notin Old /\ ~buffer'[j].acked
               /\ \A o \in 1..(buffer'[j].offset - 1) :
                    Accounted(buffer[j].segment, o, j)'
    <3>1. /\ g \notin Old /\ j = Len(buffer) + 1 /\ task[g] # "none"
          /\ buffer'[j] = [segment |-> g, offset |-> cursor[g] + 1, acked |-> FALSE]
      BY Zenon, <1>3, OfferFacts
    <3>2. cursor[g] \in Int
      BY <1>0, TaskAssumption DEF TaskType, Offset
    <3>3. \A o \in 1..(buffer'[j].offset - 1) : o \in 1..cursor[g]
      BY <3>1, <3>2
    <3>4. \A o \in 1..cursor[g] : Accounted(g, o, j)
      BY Zenon, <1>0, <3>1 DEF CursorSound
    <3>5. \A o \in 1..cursor[g] : Accounted(g, o, j)'
      BY Zenon, <2>1, <3>4
    <3>6. \A o \in 1..cursor[g] : Accounted(buffer[j].segment, o, j)'
      BY <3>1, <3>5 DEF Accounted
    <3> QED
      BY <3>1, <3>3, <3>6
  <2> QED
    BY Zenon, <2>2, <2>3 DEF BufferSound
<1>4. ASSUME NEW k \in DOMAIN buffer, Ack(k) PROVE BufferSound'
  <2>1. PICK n \in 0..Len(buffer) :
          /\ Len(buffer') = Len(buffer) - n /\ buffer' \in Seq(Entry)
          /\ \A j \in 1..(Len(buffer) - n) :
               /\ buffer'[j].segment = buffer[j + n].segment
               /\ buffer'[j].offset = buffer[j + n].offset
               /\ buffer'[j].acked => j + n = k \/ buffer[j + n].acked
          /\ \A g \in Segments : \A o, i \in Nat :
               Accounted(g, o, i) =>
                  \/ [segment |-> g, offset |-> o] \in acked'
                  \/ \E j \in DOMAIN buffer' :
                       j < i - n /\ buffer'[j].segment = g /\ buffer'[j].offset = o
    BY Zenon, <1>4, AckAccounts
  <2>2. DOMAIN buffer = 1..Len(buffer) /\ Len(buffer) \in Nat /\ n \in Nat
        /\ \A j \in DOMAIN buffer : buffer[j] \in Entry
    BY <1>0 DEF TaskType
  <2>3. acked' = acked \cup
          {[segment |-> buffer[k].segment, offset |-> buffer[k].offset]}
    BY Zenon, <1>4 DEF Ack
  <2>4. ASSUME NEW j \in DOMAIN buffer'
        PROVE  /\ buffer'[j].segment \notin Old
               /\ buffer'[j].acked =>
                   [segment |-> buffer'[j].segment, offset |-> buffer'[j].offset] \in acked'
               /\ \A o \in 1..(buffer'[j].offset - 1) :
                    Accounted(buffer[j].segment, o, j)'
    <3>1. j \in 1..(Len(buffer) - n) /\ j + n \in DOMAIN buffer /\ j + n \in Nat
      BY <2>1, <2>2
    <3>2. buffer[j + n].segment \in Segments
      BY Zenon, <2>2, <3>1 DEF Entry
    <3>3. /\ buffer'[j].segment = buffer[j + n].segment
          /\ buffer'[j].offset = buffer[j + n].offset
          /\ buffer'[j].acked => j + n = k \/ buffer[j + n].acked
      BY SMTT(30), <2>1, <3>1
    <3>4. buffer'[j].acked =>
            [segment |-> buffer'[j].segment, offset |-> buffer'[j].offset] \in acked'
      BY Zenon, <1>0, <2>3, <3>1, <3>3 DEF BufferSound
    <3>5. ASSUME NEW o \in 1..(buffer'[j].offset - 1)
          PROVE  Accounted(buffer[j].segment, o, j)'
      <4>1. Accounted(buffer[j + n].segment, o, j + n) /\ o \in Nat
        <5>1. o \in 1..(buffer[j + n].offset - 1)
          BY Zenon, <3>3
        <5>2. o \in Nat
          BY <5>1
        <5> QED
          BY Zenon, <1>0, <3>1, <5>1, <5>2 DEF BufferSound
      <4> DEFINE x == buffer[j + n].segment
                 l == j + n
      <4>2. x \in Segments /\ l \in Nat /\ Accounted(x, o, l) /\ o \in Nat
        BY Zenon, <3>1, <3>2, <4>1
      <4> HIDE DEF x, l
      <4>3. \/ [segment |-> x, offset |-> o] \in acked'
            \/ \E i \in DOMAIN buffer' :
                 i < l - n /\ buffer'[i].segment = x /\ buffer'[i].offset = o
        BY <2>1, <4>2
      <4>4. l - n = j
        BY <2>1, <2>2, <3>1 DEF l
      <4>5. x = buffer'[j].segment
        BY Zenon, <3>3 DEF x
      <4> QED
        BY Zenon, <4>3, <4>4, <4>5 DEF Accounted
    <3> QED
      BY Zenon, <1>0, <3>1, <3>3, <3>4, <3>5 DEF BufferSound
  <2> QED
    BY Zenon, <2>4 DEF BufferSound
<1> QED
  <2>1. CASE \/ ReconcileOffsetCommits \/ ReconcileOffsetCommitsSegment
             \/ StartTask \/ Loop \/ UNCHANGED vars
             \/ \E g \in Segments :
                  \/ OpenSegment(g) \/ Publish(g) \/ CloseSegment(g) \/ DeleteSegment(g)
                  \/ ConsumeEnds(g) \/ ConsumeFails(g)
    BY Zenon, <1>1, <2>1 DEF ReconcileOffsetCommits, ReconcileOffsetCommitsSegment, StartTask,
       Loop, OpenSegment, Publish, CloseSegment, DeleteSegment, ConsumeEnds,
       ConsumeFails, Tick, CommitImmediately, TakeCommit, TaskFailed, TaskCompleted,
       SegmentClosed, WriteCommit, RotateOffsets, RotateClose, RotateOpen
  <2> QED
    BY Zenon, <1>2, <1>3, <1>4, <2>1 DEF Next, Consume

\* A consume task skips no message, and starts where all before is acked.
LEMMA CursorStep ==
  ASSUME TaskInv, [Next]_vars
  PROVE  CursorSound'
<1> USE DEF clusterVars, logVars, loopVars, groupVars, vars
<1>0. TaskType /\ CursorSound /\ CommitsGood /\ StatusSound
  BY Zenon DEF TaskInv
<1>1. CASE /\ UNCHANGED <<buffer, acked, cursor>>
           /\ \A g \in Segments : task'[g] # "none" => task[g] # "none"
  BY <1>0, <1>1 DEF CursorSound, Accounted
<1>2. CASE Crash
  BY Zenon, <1>2 DEF Crash, CursorSound
<1>3. CASE Tick
  <2>1. ASSUME NEW g \in Segments \ Old, Startable(g), NEW o \in 1..cursor'[g]
        PROVE  [segment |-> g, offset |-> o] \in acked
    <3>1. cursor'[g] = Merged(g) /\ Merged(g) # Unknown
      BY Zenon, <1>3, <2>1 DEF Tick, Startable, StartOffset
    <3>2. Good(g, Merged(g))
      BY Zenon, <1>0, <3>1 DEF CommitsGood, Merged, Larger
    <3>3. status[g] = "open" \/ (status[g] = "closed" /\ Merged(g) < SegmentSize)
      BY Zenon, <1>0, <2>1 DEF Startable, Existing, StatusSound
    <3>4. Merged(g) \in Int /\ SegmentSize \in Int
      BY <1>0, TaskAssumption DEF Merged, Larger, TaskType, Known, Offset, Unknown
    <3>5. AckedBelow(g, Merged(g))
      BY <3>2, <3>3, <3>4 DEF Good
    <3> QED
      BY Zenon, <2>1, <3>1, <3>5 DEF AckedBelow
  <2>2. ASSUME NEW g \in Segments \ Old, ~Startable(g)
        PROVE  cursor'[g] = cursor[g] /\ (task'[g] # "none" => task[g] # "none")
    BY Zenon, <1>3, <2>2 DEF Tick
  <2>3. UNCHANGED <<buffer, acked>>
    BY Zenon, <1>3 DEF Tick
  <2> QED
    BY <1>0, <2>1, <2>2, <2>3 DEF CursorSound, Accounted
<1>4. ASSUME NEW g \in Segments, Offer(g) PROVE CursorSound'
  <2>1. Len(buffer) \in Nat /\ DOMAIN buffer = 1..Len(buffer) /\ cursor[g] \in Nat
    BY <1>0, TaskAssumption DEF TaskType, Offset
  <2>2. Len(buffer') \in Nat /\ DOMAIN buffer' = 1..Len(buffer')
    BY <1>4, OfferFacts
  <2>3. ASSUME NEW x \in Segments \ Old, task'[x] # "none", NEW o \in 1..cursor'[x]
        PROVE  \/ [segment |-> x, offset |-> o] \in acked'
               \/ \E j \in DOMAIN buffer' : buffer'[j].segment = x /\ buffer'[j].offset = o
    <3>1. CASE o \in 1..cursor[x]
      BY <1>0, <1>4, <2>3, <3>1, OfferFacts DEF CursorSound, Accounted
    <3>2. CASE o \notin 1..cursor[x]
      <4>1. x = g /\ o = cursor[g] + 1
        <5>1. cursor'[x] = IF x = g THEN cursor[g] + 1 ELSE cursor[x]
          BY Zenon, <1>4, OfferFacts
        <5> QED
          BY <2>1, <2>3, <3>2, <5>1
      <4>2. /\ Len(buffer) + 1 \in DOMAIN buffer' \ DOMAIN buffer
            /\ buffer'[Len(buffer) + 1] =
                 [segment |-> g, offset |-> cursor[g] + 1, acked |-> FALSE]
        <5>1. Len(buffer) + 1 \in DOMAIN buffer' /\ Len(buffer) + 1 \notin DOMAIN buffer
          BY <1>4, <2>1, <2>3, <4>1, OfferFacts
        <5> QED
          BY Zenon, <1>4, <5>1, OfferFacts
      <4> QED
        BY <4>1, <4>2
    <3> QED
      BY Zenon, <3>1, <3>2
  <2>4. \A j \in DOMAIN buffer' : j < Len(buffer') + 1
    BY <2>2
  <2> QED
    BY <2>3, <2>4 DEF CursorSound, Accounted
<1>5. ASSUME NEW k \in DOMAIN buffer, Ack(k) PROVE CursorSound'
  <2>1. PICK n \in 0..Len(buffer) :
          /\ Len(buffer') = Len(buffer) - n /\ buffer' \in Seq(Entry)
          /\ \A g \in Segments : \A o, i \in Nat :
               Accounted(g, o, i) =>
                  \/ [segment |-> g, offset |-> o] \in acked'
                  \/ \E j \in DOMAIN buffer' :
                       j < i - n /\ buffer'[j].segment = g /\ buffer'[j].offset = o
    BY Zenon, <1>5, AckAccounts
  <2>2. Len(buffer) + 1 \in Nat /\ UNCHANGED <<task, cursor>>
    BY <1>0, <1>5 DEF TaskType, Ack
  <2>3. ASSUME NEW x \in Segments \ Old, task'[x] # "none", NEW o \in 1..cursor'[x]
        PROVE  \/ [segment |-> x, offset |-> o] \in acked'
               \/ \E j \in DOMAIN buffer' : buffer'[j].segment = x /\ buffer'[j].offset = o
    <3>1. Accounted(x, o, Len(buffer) + 1) /\ o \in Nat
      BY <1>0, <2>2, <2>3 DEF CursorSound
    <3> QED
      BY SMTT(30), <2>1, <2>2, <3>1
  <2>4. \A j \in DOMAIN buffer' : j < Len(buffer') + 1
    BY <2>1
  <2> QED
    BY <2>3, <2>4 DEF CursorSound, Accounted
<1> QED
  <2>1. CASE \E g \in Segments :
               TaskFailed(g) \/ TaskCompleted(g) \/ ConsumeEnds(g) \/ ConsumeFails(g)
    BY Zenon, <1>0, <1>1, <2>1 DEF TaskType, TaskFailed, TaskCompleted, ConsumeEnds,
       ConsumeFails, Consuming
  <2>2. CASE \/ ReconcileOffsetCommits \/ ReconcileOffsetCommitsSegment
             \/ StartTask \/ UNCHANGED vars
             \/ \E g \in Segments :
                  OpenSegment(g) \/ Publish(g) \/ CloseSegment(g) \/ DeleteSegment(g)
             \/ CommitImmediately \/ \E c \in inFlight : TakeCommit(c)
             \/ SegmentClosed \/ WriteCommit \/ RotateOffsets \/ RotateClose \/ RotateOpen
    BY Zenon, <1>1, <2>2 DEF ReconcileOffsetCommits, ReconcileOffsetCommitsSegment, StartTask,
       OpenSegment, Publish, CloseSegment, DeleteSegment, CommitImmediately, TakeCommit,
       SegmentClosed, WriteCommit, RotateOffsets, RotateClose, RotateOpen
  <2> QED
    BY Zenon, <1>2, <1>3, <1>4, <1>5, <2>1, <2>2 DEF Next, Loop, Consume

-----------------------------------------------------------------------------
(* What the task knows.                                                    *)

\* Only a tick starts to consume a segment.
LEMMA SeenStep ==
  ASSUME TaskInv, [Next]_vars, NEW g \in Segments, Seen(g)'
  PROVE  Seen(g) \/ (Tick /\ Startable(g))
<1> USE DEF clusterVars, logVars, loopVars, groupVars, vars
<1>0. TaskType /\ StatusSound
  BY Zenon DEF TaskInv
<1>1. CASE /\ UNCHANGED <<task, buffer, inFlight, ackImmediately>>
           /\ log' = log \/ log' = <<>>
           /\ \/ pc' \notin Writing \cup {"closing"}
              \/ pc \in Writing \cup {"closing"} /\ ack' = ack
  BY <1>1 DEF Seen
<1>2. CASE Crash
  BY SMTT(30), <1>2 DEF Seen, Crash, Writing
<1>3. CASE Tick
  <2>1. \A k \in DOMAIN ackImmediately' : Startable(ackImmediately'[k].segment)
    BY Zenon, <1>0, <1>3, TickFacts
  <2>2. task'[g] # "none" => task[g] # "none" \/ Startable(g)
    BY Zenon, <1>3 DEF Tick
  <2> QED
    BY Zenon, <1>3, <2>1, <2>2 DEF Tick, Seen
<1>4. CASE CommitImmediately
  <2>1. ackImmediately \in Seq(Message) /\ ackImmediately # <<>>
    BY Zenon, <1>0, <1>4 DEF CommitImmediately, TaskType
  <2>2. 1 \in DOMAIN ackImmediately /\ Head(ackImmediately) = ackImmediately[1]
    BY <2>1
  <2>3. \A k \in DOMAIN Tail(ackImmediately) :
          /\ k + 1 \in DOMAIN ackImmediately
          /\ Tail(ackImmediately)[k] = ackImmediately[k + 1]
    BY <2>1
  <2>4. /\ ack' = Head(ackImmediately) /\ ackImmediately' = Tail(ackImmediately)
        /\ UNCHANGED <<task, buffer, inFlight, log>>
    BY Zenon, <1>4 DEF CommitImmediately, ToCommit
  <2> QED
    BY Zenon, <2>2, <2>3, <2>4 DEF Seen
<1>5. ASSUME NEW c \in inFlight, TakeCommit(c) PROVE Seen(g)
  BY Zenon, <1>5 DEF TakeCommit, ToCommit, Seen
<1>6. ASSUME NEW x \in Segments,
             \/ TaskFailed(x) \/ TaskCompleted(x) \/ ConsumeEnds(x) \/ ConsumeFails(x)
      PROVE  Seen(g)
  <2>1. /\ UNCHANGED <<buffer, inFlight, ackImmediately, log>>
        /\ task[x] # "none"
        /\ g # x => task'[g] = task[g]
        /\ UNCHANGED <<pc, ack>> \/ ack'.segment = x
    BY <1>0, <1>6 DEF TaskType, TaskFailed, TaskCompleted, ConsumeEnds, ConsumeFails,
       Consuming
  <2> QED
    BY Zenon, <2>1 DEF Seen
<1>7. CASE SegmentClosed
  <2>1. /\ UNCHANGED <<task, buffer, inFlight, ackImmediately, log>>
        /\ pc = "closing" /\ ack'.segment = ack.segment
    BY <1>0, <1>7 DEF SegmentClosed, ToCommit, TaskType, Commit
  <2> QED
    BY Zenon, <2>1 DEF Seen
<1>8. CASE WriteCommit
  <2>1. log \in Seq(Message) /\ ack \in Message
    BY Zenon, <1>0, <1>8 DEF WriteCommit, TaskType, Writing
  <2>2. \A k \in DOMAIN log' :
           (k \in DOMAIN log /\ log'[k] = log[k]) \/ log'[k] = ack
    BY <1>8, <2>1 DEF WriteCommit
  <2>3. /\ UNCHANGED <<task, buffer, inFlight, ackImmediately, ack>>
        /\ pc \in Writing
    BY Zenon, <1>8 DEF WriteCommit, Writing
  <2> QED
    BY Zenon, <2>2, <2>3 DEF Seen
<1>9. ASSUME NEW x \in Segments, Offer(x) PROVE Seen(g)
  <2>1. \A k \in DOMAIN buffer' :
           (k \in DOMAIN buffer /\ buffer'[k] = buffer[k]) \/ buffer'[k].segment = x
    BY <1>9, OfferFacts
  <2>2. task[x] # "none" /\ UNCHANGED <<task, inFlight, ackImmediately, log, pc, ack>>
    BY Zenon, <1>9 DEF Offer, Consuming
  <2> QED
    BY Zenon, <2>1, <2>2 DEF Seen
<1>10. ASSUME NEW k \in DOMAIN buffer, Ack(k) PROVE Seen(g)
  <2>1. PICK n \in 0..Len(buffer) :
           /\ buffer' \in Seq(Entry) /\ Len(buffer') = Len(buffer) - n
           /\ \A j \in 1..(Len(buffer) - n) : buffer'[j].segment = buffer[j + n].segment
           /\ inFlight' = inFlight \cup
                {[segment |-> buffer[j].segment, offset |-> buffer[j].offset] : j \in 1..n}
    BY Zenon, <1>0, <1>10, AckFacts
  <2>2. DOMAIN buffer = 1..Len(buffer) /\ Len(buffer) \in Nat
    BY <1>0 DEF TaskType
  <2>3. \A c \in inFlight' : \/ c \in inFlight
                             \/ \E j \in DOMAIN buffer : c.segment = buffer[j].segment
    BY <2>1, <2>2
  <2>4. \A j \in DOMAIN buffer' : j + n \in DOMAIN buffer /\ j \in 1..(Len(buffer) - n)
    BY <2>1, <2>2
  <2>5. \A j \in DOMAIN buffer' : \E i \in DOMAIN buffer : buffer'[j].segment = buffer[i].segment
    BY SMTT(30), <2>1, <2>4
  <2>6. UNCHANGED <<task, ackImmediately, log, pc, ack>>
    BY Zenon, <1>10 DEF Ack
  <2> QED
    BY SMTT(30), <2>3, <2>5, <2>6 DEF Seen
<1> QED
  <2>1. CASE \/ ReconcileOffsetCommits \/ ReconcileOffsetCommitsSegment
             \/ StartTask \/ RotateOffsets \/ RotateClose \/ RotateOpen \/ UNCHANGED vars
             \/ \E x \in Segments :
                  OpenSegment(x) \/ Publish(x) \/ CloseSegment(x) \/ DeleteSegment(x)
    <3>1. /\ UNCHANGED <<task, buffer, inFlight, ackImmediately, ack>>
          /\ log' = log \/ log' = <<>>
      BY Zenon, <2>1 DEF ReconcileOffsetCommits, ReconcileOffsetCommitsSegment, StartTask,
         OpenSegment, Publish, CloseSegment, DeleteSegment, RotateOffsets, RotateClose,
         RotateOpen
    <3>2. pc' = pc \/ pc' = "loop" \/ (pc \in Writing /\ pc' \in Writing)
      BY Zenon, <2>1 DEF ReconcileOffsetCommits, ReconcileOffsetCommitsSegment, StartTask,
         OpenSegment, Publish, CloseSegment, DeleteSegment, RotateOffsets, RotateClose,
         RotateOpen, Writing
    <3> QED
      BY SMTT(30), <1>1, <3>1, <3>2 DEF Writing
  <2> QED
    BY Zenon, <1>2, <1>3, <1>4, <1>5, <1>6, <1>7, <1>8, <1>9, <1>10, <2>1
       DEF Next, Loop, Consume

\* The cluster state and the task know the segments something is under way of.
LEMMA TrackedStep ==
  ASSUME TaskInv, [Next]_vars
  PROVE  Tracked'
<1> USE DEF clusterVars, logVars, loopVars, groupVars, vars
<1>0. TaskType /\ Tracked
  BY Zenon DEF TaskInv
<1> SUFFICES ASSUME NEW g \in Segments, Seen(g)'
             PROVE  /\ status'[g] # "none"
                    /\ status'[g] # "deleted" =>
                         /\ offsetCommits'[g] # Unknown
                         /\ pc' # "down" => committed'[g] # Unknown
  BY Zenon DEF Tracked
<1> DEFINE Kept == /\ status'[g] # "none"
                   /\ status'[g] # "deleted" =>
                        /\ offsetCommits'[g] # Unknown
                        /\ pc' # "down" => committed'[g] # Unknown
<1>1. /\ offsetCommits[g] \in Known /\ committed[g] \in Known
      /\ Unknown = -1 /\ \A x \in Known : x # Unknown => x \in Nat
  BY <1>0, TaskAssumption DEF TaskType, Known, Offset, Unknown
<1>2. CASE Tick /\ Startable(g)
  <2>1. status[g] \in {"open", "closed"} /\ status' = status /\ offsetCommits' = offsetCommits
    BY SMTT(30), <1>2 DEF Tick, Startable, Existing
  <2>2. Merged(g) # Unknown /\ committed'[g] = Merged(g)
    BY SMTT(30), <1>2 DEF Tick, Startable
  <2> QED
    BY SMTT(30), <2>1, <2>2 DEF Merged
<1>3. CASE Seen(g)
  <2>0. /\ status[g] # "none"
        /\ status[g] # "deleted" => /\ offsetCommits[g] # Unknown
                                    /\ pc # "down" => committed[g] # Unknown
    BY Zenon, <1>0, <1>3 DEF Tracked
  <2>1. CASE /\ UNCHANGED <<status, offsetCommits, committed>>
             /\ pc = "down" => pc' = "down"
    BY Zenon, <2>0, <2>1
  <2>2. ASSUME NEW x \in Segments,
               OpenSegment(x) \/ CloseSegment(x) \/ DeleteSegment(x)
        PROVE  Kept
    BY Zenon, <1>0, <2>0, <2>2 DEF TaskType, OpenSegment, CloseSegment, DeleteSegment
  <2>3. CASE ReconcileOffsetCommits
    <3>1. g \in Existing => offsetCommits'[g] # Unknown
      BY <1>1, <2>3, LargerIs DEF ReconcileOffsetCommits, Larger
    <3>2. status[g] # "deleted" => g \in Existing
      BY Zenon, <1>0, <2>0 DEF TaskType, Existing
    <3> QED
      BY Zenon, <2>0, <2>3, <3>1, <3>2 DEF ReconcileOffsetCommits
  <2>4. CASE StartTask
    <3>1. Recovered(g) \in Known /\ offsetCommits[g] =< Recovered(g)
      BY Zenon, <1>0, RecoveredFacts DEF RecoveredIs
    <3>2. offsetCommits[g] # Unknown => Recovered(g) # Unknown
      BY <1>1, <3>1
    <3> QED
      BY Zenon, <2>0, <2>4, <3>2 DEF StartTask
  <2>5. CASE Crash
    BY Zenon, <2>0, <2>5 DEF Crash
  <2>6. CASE Tick
    <3>1. offsetCommits[g] # Unknown => Merged(g) # Unknown
      BY <1>1 DEF Merged, Larger
    <3> QED
      BY Zenon, <2>0, <2>6, <3>1 DEF Tick
  <2>7. ASSUME NEW c \in Message, ToCommit(c), UNCHANGED clusterVars, pc # "down"
        PROVE  Kept
    <3>1. /\ committed'[g] = committed[g] \/ committed'[g] = c.offset
          /\ committed[g] =< committed'[g]
      BY Zenon, <1>0, <2>7, ToCommitIs
    <3>2. c.offset \in Known
      BY TaskAssumption DEF Message, Known, Offset
    <3>3. committed[g] # Unknown => committed'[g] # Unknown
      BY <1>1, <3>1, <3>2
    <3> QED
      BY Zenon, <2>0, <2>7, <3>3
  <2>8. CASE CommitImmediately
    <3>1. Head(ackImmediately) \in Message
      BY <1>0, <2>8 DEF CommitImmediately, TaskType
    <3> QED
      BY Zenon, <2>7, <2>8, <3>1 DEF CommitImmediately
  <2>9. ASSUME NEW c \in inFlight, TakeCommit(c) PROVE Kept
    <3>1. c \in Message
      BY Zenon, <1>0 DEF TaskType
    <3> QED
      BY Zenon, <2>7, <2>9, <3>1 DEF TakeCommit, InLoop
  <2>10. CASE SegmentClosed
    <3>1. ack \in Commit
      BY Zenon, <1>0, <2>10 DEF SegmentClosed, TaskType
    <3>2. CASE status[ack.segment] = "closed"
      <4> DEFINE c == [segment |-> ack.segment, offset |-> written[ack.segment]]
      <4>1. written[ack.segment] \in 1..SegmentSize
        BY <3>1, <3>2, TaskAssumption DEF TaskInv, StatusSound, Commit
      <4>2. c \in Message
        BY Zenon, <3>1, <4>1 DEF Commit, Message
      <4> QED
        BY Zenon, <2>7, <2>10, <3>2, <4>2 DEF SegmentClosed
    <3>3. CASE status[ack.segment] # "closed"
      BY Zenon, <2>1, <2>10, <3>3 DEF SegmentClosed
    <3> QED
      BY Zenon, <3>2, <3>3
  <2>11. CASE RotateOffsets
    BY SMTT(30), <2>0, <2>11 DEF RotateOffsets
  <2> QED
    <3>1. CASE \/ ReconcileOffsetCommitsSegment \/ UNCHANGED vars
               \/ \E x \in Segments :
                    \/ Publish(x) \/ Offer(x) \/ ConsumeEnds(x) \/ ConsumeFails(x)
                    \/ TaskFailed(x) \/ TaskCompleted(x)
               \/ WriteCommit \/ RotateClose \/ RotateOpen
               \/ \E k \in DOMAIN buffer : Ack(k)
      BY ZenonT(30), <2>1, <3>1 DEF ReconcileOffsetCommitsSegment, Publish, Offer, ConsumeEnds,
         ConsumeFails, TaskFailed, TaskCompleted, InLoop, WriteCommit, RotateClose,
         RotateOpen, Ack
    <3> QED
      BY Zenon, <2>2, <2>3, <2>4, <2>5, <2>6, <2>8, <2>9, <2>10, <2>11, <3>1
         DEF Next, Loop, Consume
<1> QED
  BY Zenon, <1>2, <1>3, SeenStep

\* The task knows no less than the cluster state and the log.
LEMMA AheadStep ==
  ASSUME TaskInv, [Next]_vars
  PROVE  Ahead'
<1> USE DEF clusterVars, logVars, loopVars, groupVars, vars
<1>0. TaskType /\ StatusSound /\ Tracked /\ Ahead
  BY Zenon DEF TaskInv
<1>16. ~logOpen' => pc' \in {"down", "rotateOpen"}
  <2>1. CASE \/ ReconcileOffsetCommitsSegment \/ StartTask \/ Crash
             \/ RotateClose \/ RotateOpen
    BY <2>1 DEF ReconcileOffsetCommitsSegment, StartTask, Crash, RotateClose, RotateOpen
  <2>2. CASE /\ logOpen' = logOpen
             /\ pc' = pc \/ pc \notin {"down", "rotateOpen"}
    BY Zenon, <1>0, <2>2 DEF Ahead
  <2>3. CASE \/ ReconcileOffsetCommits \/ Tick \/ CommitImmediately \/ SegmentClosed
             \/ \E c \in inFlight : TakeCommit(c)
             \/ WriteCommit \/ RotateOffsets
    BY Zenon, <2>2, <2>3 DEF ReconcileOffsetCommits, Tick, CommitImmediately, SegmentClosed,
       TakeCommit, InLoop, WriteCommit, RotateOffsets
  <2>4. CASE \/ \E x \in Segments :
                  \/ OpenSegment(x) \/ Publish(x) \/ CloseSegment(x) \/ DeleteSegment(x)
                  \/ Offer(x) \/ ConsumeEnds(x) \/ ConsumeFails(x)
                  \/ TaskFailed(x) \/ TaskCompleted(x)
             \/ \E k \in DOMAIN buffer : Ack(k)
             \/ UNCHANGED vars
    BY Zenon, <2>2, <2>4 DEF OpenSegment, Publish, CloseSegment, DeleteSegment, Offer,
       ConsumeEnds, ConsumeFails, TaskFailed, TaskCompleted, InLoop, Ack
  <2> QED
    BY Zenon, <2>1, <2>3, <2>4 DEF Next, Loop, Consume
<1> SUFFICES ASSUME NEW g \in Segments, pc' # "down", status'[g] # "deleted"
             PROVE  /\ offsetCommits'[g] =< Larger(committed'[g], 0)
                    /\ \A k \in DOMAIN log' :
                          log'[k].segment = g => log'[k].offset =< committed'[g]
                    /\ pc' \in Writing /\ ack'.segment = g => ack'.offset =< committed'[g]
                    /\ InTransaction' => offsetCommits'[g] = committed'[g]
  BY Zenon, <1>16 DEF Ahead, Larger
<1> DEFINE Kept == /\ offsetCommits'[g] =< Larger(committed'[g], 0)
                   /\ \A k \in DOMAIN log' :
                         log'[k].segment = g => log'[k].offset =< committed'[g]
                   /\ pc' \in Writing /\ ack'.segment = g => ack'.offset =< committed'[g]
                   /\ InTransaction' => offsetCommits'[g] = committed'[g]
<1>1. /\ offsetCommits[g] \in Int /\ committed[g] \in Int
      /\ \A k \in DOMAIN log : log[k].offset \in Int
      /\ pc \in Writing => ack.offset \in Int
  <2>1. offsetCommits[g] \in Int /\ committed[g] \in Int
    BY <1>0, TaskAssumption DEF TaskType, Known, Offset, Unknown
  <2>2. /\ \A k \in DOMAIN log : log[k] \in Message
        /\ pc \in Writing => ack \in Message
    BY <1>0 DEF TaskType
  <2>3. \A c \in Message : c.offset \in Int
    BY TaskAssumption DEF Message
  <2> QED
    BY Zenon, <2>1, <2>2, <2>3
<1>2. pc # "down" /\ status[g] # "deleted" =>
        /\ offsetCommits[g] =< Larger(committed[g], 0)
        /\ \A k \in DOMAIN log : log[k].segment = g => log[k].offset =< committed[g]
        /\ pc \in Writing /\ ack.segment = g => ack.offset =< committed[g]
        /\ InTransaction => offsetCommits[g] = committed[g]
  BY SMTT(30), <1>0 DEF Ahead
<1>3. status[g] # "deleted"
  BY Zenon, <1>0 DEF TaskType, Next, OpenSegment, Publish, CloseSegment, DeleteSegment,
     ReconcileOffsetCommits, ReconcileOffsetCommitsSegment, StartTask, Crash, Loop,
     Tick, CommitImmediately, TakeCommit, TaskFailed, TaskCompleted, SegmentClosed,
     WriteCommit, RotateOffsets, RotateClose, RotateOpen, Consume, Offer, ConsumeEnds,
     ConsumeFails, Ack
<1>4. CASE /\ UNCHANGED <<offsetCommits, committed, log>>
           /\ pc # "down"
           /\ pc' \in Writing => pc \in Writing /\ ack' = ack
           /\ InTransaction' => InTransaction
  BY Zenon, <1>2, <1>3, <1>4
<1>5. ASSUME NEW x \in Segments, OpenSegment(x) PROVE Kept
  <2>1. offsetCommits'[g] = offsetCommits[g] \/ offsetCommits'[g] \in {0, Unknown}
    BY Zenon, <1>0, <1>5 DEF OpenSegment, TaskType
  <2>2. pc # "down" /\ ~InTransaction' /\ UNCHANGED <<committed, log, pc, ack>>
    BY Zenon, <1>5 DEF OpenSegment, InTransaction
  <2>3. offsetCommits'[g] =< Larger(committed[g], 0)
    BY <1>1, <1>2, <1>3, <2>1, <2>2 DEF Larger, Unknown
  <2> QED
    BY Zenon, <1>2, <1>3, <2>2, <2>3
<1>6. CASE ReconcileOffsetCommits
  <2>1. \/ offsetCommits'[g] = offsetCommits[g]
        \/ offsetCommits'[g] \in {0, Unknown}
    BY Zenon, <1>1, <1>6 DEF ReconcileOffsetCommits, Larger
  <2>2. pc # "down" /\ ~InTransaction' /\ UNCHANGED <<committed, log, pc, ack>>
    BY Zenon, <1>6 DEF ReconcileOffsetCommits, InTransaction
  <2>3. offsetCommits'[g] =< Larger(committed[g], 0)
    BY <1>1, <1>2, <1>3, <2>1, <2>2 DEF Larger, Unknown
  <2> QED
    BY Zenon, <1>2, <1>3, <2>2, <2>3
<1>7. CASE ReconcileOffsetCommitsSegment \/ RotateOpen
  <2>1. /\ log' = <<>> /\ UNCHANGED <<offsetCommits, committed, ack>> /\ pc # "down"
        /\ ~InTransaction'
        /\ pc' \in Writing => pc \in Writing
    BY Zenon, <1>7 DEF ReconcileOffsetCommitsSegment, RotateOpen, InTransaction, Writing
  <2> QED
    BY <1>2, <1>3, <2>1
<1>8. CASE StartTask
  <2>1. /\ committed'[g] = Recovered(g) /\ UNCHANGED <<offsetCommits, log>> /\ logOpen
        /\ pc' \notin Writing /\ ~InTransaction'
    BY Zenon, <1>8 DEF StartTask, InTransaction, Writing
  <2>2. RecoveredIs(g)
    BY Zenon, <1>0, RecoveredFacts
  <2>3. Recovered(g) \in Int
    BY <2>2, TaskAssumption DEF RecoveredIs, Known, Offset, Unknown
  <2>4. \A k \in DOMAIN log : log[k].segment = g => log[k].offset =< Recovered(g)
    <3>1. (\E k \in DOMAIN log : log[k].segment = g) => Seen(g)
      BY Zenon DEF Seen
    <3>2. (\E k \in DOMAIN log : log[k].segment = g) => offsetCommits[g] # Unknown
      BY Zenon, <1>0, <1>3, <3>1 DEF Tracked
    <3> QED
      BY SMTT(30), <2>1, <2>2, <3>2 DEF RecoveredIs
  <2>5. offsetCommits[g] =< Larger(Recovered(g), 0)
    BY <1>1, <2>2, <2>3 DEF RecoveredIs, Larger
  <2> QED
    BY Zenon, <2>1, <2>4, <2>5
<1>9. CASE Tick
  <2>1. /\ committed'[g] = Merged(g) /\ UNCHANGED <<offsetCommits, log, pc>>
        /\ pc = "loop"
    BY Zenon, <1>9 DEF Tick, InLoop
  <2>2. pc' \notin Writing /\ ~InTransaction'
    BY Zenon, <2>1 DEF Writing, InTransaction
  <2>3. \A k \in DOMAIN log : log[k].segment = g => log[k].offset =< Merged(g)
    <3>1. (\E k \in DOMAIN log : log[k].segment = g) => Seen(g)
      BY Zenon DEF Seen
    <3>2. (\E k \in DOMAIN log : log[k].segment = g) => offsetCommits[g] # Unknown
      BY Zenon, <1>0, <1>3, <3>1 DEF Tracked
    <3>3. offsetCommits[g] # Unknown => committed[g] =< Merged(g) /\ Merged(g) \in Int
      BY <1>1 DEF Merged, Larger
    <3>4. \A k \in DOMAIN log : log[k].segment = g => log[k].offset =< committed[g]
      BY Zenon, <1>2, <1>3, <2>1
    <3> QED
      BY <1>1, <3>2, <3>3, <3>4
  <2>4. offsetCommits[g] =< Larger(Merged(g), 0)
    BY <1>1 DEF Merged, Larger, Unknown
  <2> QED
    BY SMTT(30), <2>1, <2>2, <2>3, <2>4
<1>10. ASSUME NEW c \in Message, ToCommit(c), UNCHANGED <<offsetCommits, log>>, pc # "down"
       PROVE  Kept
  <2>1. /\ committed[g] =< committed'[g]
        /\ g = c.segment => c.offset =< committed'[g]
        /\ committed'[g] = committed[g] \/ committed'[g] = c.offset
        /\ ack' = c /\ pc' = "write"
    BY Zenon, <1>0, <1>10, ToCommitIs
  <2>2. c.offset \in Int
    BY TaskAssumption DEF Message
  <2>3. committed'[g] \in Int
    BY Zenon, <1>1, <2>1, <2>2
  <2>4. offsetCommits[g] =< Larger(committed'[g], 0)
    BY <1>1, <1>2, <1>3, <1>10, <2>1, <2>3 DEF Larger
  <2>5. \A k \in DOMAIN log : log[k].segment = g => log[k].offset =< committed'[g]
    BY SMTT(30), <1>1, <1>2, <1>3, <1>10, <2>1, <2>3
  <2> QED
    BY Zenon, <1>10, <2>1, <2>4, <2>5 DEF InTransaction
<1>11. CASE CommitImmediately
  <2>1. Head(ackImmediately) \in Message
    BY <1>0, <1>11 DEF CommitImmediately, TaskType
  <2> QED
    BY Zenon, <1>10, <1>11, <2>1 DEF CommitImmediately
<1>12. ASSUME NEW c \in inFlight, TakeCommit(c) PROVE Kept
  <2>1. c \in Message
    BY Zenon, <1>0 DEF TaskType
  <2> QED
    BY Zenon, <1>10, <1>12, <2>1 DEF TakeCommit, InLoop
<1>13. CASE SegmentClosed
  <2>1. ack \in Commit
    BY Zenon, <1>0, <1>13 DEF SegmentClosed, TaskType
  <2>2. CASE status[ack.segment] = "closed"
    <3> DEFINE c == [segment |-> ack.segment, offset |-> written[ack.segment]]
    <3>1. written[ack.segment] \in 1..SegmentSize
      BY <1>0, <2>1, <2>2, TaskAssumption DEF StatusSound, Commit
    <3>2. c \in Message
      BY Zenon, <2>1, <3>1 DEF Commit, Message
    <3> QED
      BY SMTT(30), <1>10, <1>13, <2>2, <3>2 DEF SegmentClosed
  <2>3. CASE status[ack.segment] # "closed"
    BY Zenon, <1>4, <1>13, <2>3 DEF SegmentClosed, Writing, InTransaction
  <2> QED
    BY Zenon, <2>2, <2>3
<1>14. CASE WriteCommit
  <2>1. log \in Seq(Message) /\ ack \in Message /\ pc \in Writing /\ pc # "down"
    BY Zenon, <1>0, <1>14 DEF WriteCommit, TaskType, Writing
  <2>2. \A k \in DOMAIN log' :
           (k \in DOMAIN log /\ log'[k] = log[k]) \/ log'[k] = ack
    BY <1>14, <2>1 DEF WriteCommit
  <2>3. \A k \in DOMAIN log' : log'[k].segment = g => log'[k].offset =< committed[g]
    BY Zenon, <1>2, <1>3, <2>1, <2>2
  <2>4. UNCHANGED <<offsetCommits, committed, ack>> /\ ~InTransaction'
    BY Zenon, <1>14 DEF WriteCommit, InTransaction
  <2> QED
    BY SMTT(30), <1>2, <1>3, <2>1, <2>3, <2>4
<1>15. CASE RotateOffsets
  <2>1. /\ offsetCommits' = committed /\ UNCHANGED <<committed, log, ack>>
        /\ pc \in Writing /\ pc # "down"
    BY Zenon, <1>15 DEF RotateOffsets, Writing
  <2>2. committed[g] =< Larger(committed[g], 0)
    BY <1>1 DEF Larger
  <2> QED
    BY Zenon, <1>2, <1>3, <2>1, <2>2
<1> QED
  <2>1. CASE \/ UNCHANGED vars \/ RotateClose
             \/ \E x \in Segments :
                  \/ Publish(x) \/ CloseSegment(x) \/ DeleteSegment(x)
                  \/ Offer(x) \/ ConsumeEnds(x) \/ ConsumeFails(x)
                  \/ TaskFailed(x) \/ TaskCompleted(x)
             \/ \E k \in DOMAIN buffer : Ack(k)
    BY ZenonT(30), <1>4, <2>1 DEF Publish, CloseSegment, DeleteSegment, Offer, ConsumeEnds,
       ConsumeFails, TaskFailed, TaskCompleted, InLoop, RotateClose, Ack, InTransaction,
       Writing
  <2>2. CASE Crash
    BY Zenon, <2>2 DEF Crash
  <2> QED
    BY Zenon, <1>5, <1>6, <1>7, <1>8, <1>9, <1>11, <1>12, <1>13, <1>14, <1>15, <2>1, <2>2
       DEF Next, Loop, Consume

-----------------------------------------------------------------------------
(* The theorems.                                                           *)

\* TaskInv holds before the first start of the task.
LEMMA InitTask == Init => TaskInv
<1> SUFFICES ASSUME Init PROVE TaskInv
  OBVIOUS
<1>1. TaskType
  BY TaskAssumption DEF Init, TaskType, Known, Offset, Writing
<1>2. StatusSound
  BY SMTT(30), TaskAssumption DEF Init, StatusSound
<1>3. CommitsGood
  <2>1. \A g \in Segments \ Old : offsetCommits[g] = Unknown /\ committed[g] = Unknown
    BY Zenon DEF Init
  <2>2. pc \notin Writing /\ log = <<>> /\ inFlight = {} /\ ackImmediately = <<>>
    BY Zenon DEF Init, Writing
  <2> QED
    BY SMTT(30), <2>1, <2>2, GoodStart DEF CommitsGood
<1>4. BufferSound /\ CursorSound
  BY DEF Init, BufferSound, CursorSound
<1>5. Tracked
  BY DEF Init, Tracked, Seen, Writing
<1>6. Ahead
  BY Zenon DEF Init, Ahead
<1> QED
  BY Zenon, <1>1, <1>2, <1>3, <1>4, <1>5, <1>6 DEF TaskInv

\* TaskInv is an invariant of the task.
THEOREM TaskInvariant == Spec => []TaskInv
<1>1. TaskInv /\ [Next]_vars => TaskInv'
  <2> SUFFICES ASSUME TaskInv, [Next]_vars PROVE TaskInv'
    OBVIOUS
  <2>1. TaskType /\ StatusSound
    BY Zenon DEF TaskInv
  <2> QED
    BY Zenon, <2>1, TypeStep, StatusStep, CommitsStep, BufferStep, CursorStep, TrackedStep,
       AheadStep DEF TaskInv
<1> QED
  BY <1>1, InitTask, PTL DEF Spec

\* The offset the next task would start from covers acked messages only, unless
\* all of a closed segment was committed.
THEOREM CommitsCoverAcks == Spec => []PartialCommitIsAcked
<1>1. TaskInv => PartialCommitIsAcked
  <2> SUFFICES ASSUME TaskInv, NEW g \in Segments \ Old, Recovered(g) < SegmentSize
               PROVE  AckedBelow(g, Recovered(g))
    BY Zenon DEF PartialCommitIsAcked
  <2>1. RecoveredIs(g)
    BY SMTT(30), RecoveredFacts DEF TaskInv
  <2>2. Good(g, Recovered(g))
    BY Zenon, <2>1 DEF RecoveredIs, TaskInv, CommitsGood
  <2>3. Recovered(g) # SegmentSize
    BY <2>1, TaskAssumption DEF RecoveredIs, Known, Offset, Unknown
  <2> QED
    BY Zenon, <2>2, <2>3 DEF Good
<1> QED
  BY <1>1, TaskInvariant, PTL

\* A consume task passes no message without offering it to the group.
THEOREM NoMessageIsSkipped == Spec => []NothingSkipped
<1>1. TaskInv => NothingSkipped
  BY DEF TaskInv, CursorSound, Accounted, NothingSkipped
<1> QED
  BY <1>1, TaskInvariant, PTL

AllRecovered == \A g \in Segments : RecoveredIs(g)

\* What RecoveredFacts says of the next state.
LEMMA RecoveredFactsNext == TaskType' => AllRecovered'
<1>1. TaskType => AllRecovered
  BY Zenon, RecoveredFacts DEF AllRecovered
<1> QED
  BY <1>1, PTL

\* No step makes the next task start a segment earlier.
LEMMA RecoveredGrows ==
  ASSUME TaskInv, TaskType', [Next]_vars, NEW g \in Segments, status'[g] # "deleted"
  PROVE  Larger(Recovered(g)', 0) >= Larger(Recovered(g), 0)
<1> USE DEF clusterVars, logVars, loopVars, groupVars, vars
<1>0. TaskType /\ StatusSound /\ Ahead
  BY Zenon DEF TaskInv
<1>1. RecoveredIs(g)
  BY Zenon, <1>0, RecoveredFacts
<1>2. RecoveredIs(g)'
  BY Zenon, RecoveredFactsNext DEF AllRecovered
<1>3. /\ Recovered(g) \in Int /\ Recovered(g)' \in Int /\ committed[g] \in Int
      /\ offsetCommits[g] \in Int /\ offsetCommits'[g] \in Int /\ Unknown = -1
      /\ \A k \in DOMAIN log : log[k].offset \in Int
  <2>1. Known \subseteq Int /\ Unknown = -1 /\ \A c \in Message : c.offset \in Int
    BY TaskAssumption DEF Known, Offset, Unknown, Message
  <2>2. Recovered(g) \in Known /\ Recovered(g)' \in Known
    BY Zenon, <1>1, <1>2 DEF RecoveredIs, Known, Offset
  <2>3. /\ committed[g] \in Known /\ offsetCommits[g] \in Known
        /\ \A k \in DOMAIN log : log[k] \in Message
    BY <1>0 DEF TaskType
  <2>4. offsetCommits'[g] \in Known
    BY Zenon DEF TaskType, Known, Offset
  <2> QED
    BY Zenon, <2>1, <2>2, <2>3, <2>4
<1>4. offsetCommits'[g] =< Recovered(g)'
  BY Zenon, <1>2 DEF RecoveredIs
<1>5. CASE /\ offsetCommits'[g] = offsetCommits[g]
           /\ UNCHANGED <<log, logOpen>>
  <2>1. Recovered(g)' = Recovered(g)
    BY <1>5 DEF Recovered, Logged
  <2> QED
    BY SMTT(30), <1>3, <2>1 DEF Larger
<1>6. CASE offsetCommits[g] = Unknown
  <2>1. Recovered(g) = Unknown
    BY Zenon, <1>1, <1>6 DEF RecoveredIs
  <2> QED
    BY <1>3, <2>1 DEF Larger
<1>7. CASE Recovered(g) =< Larger(offsetCommits'[g], 0)
  BY <1>3, <1>4, <1>7 DEF Larger
<1>8. ASSUME NEW x \in Segments, OpenSegment(x)
      PROVE  Larger(Recovered(g)', 0) >= Larger(Recovered(g), 0)
  <2>1. CASE x = g
    BY SMTT(30), <1>0, <1>6, <1>8, <2>1 DEF OpenSegment, StatusSound
  <2>2. CASE x # g
    BY Zenon, <1>0, <1>5, <1>8, <2>2 DEF OpenSegment, TaskType
  <2> QED
    BY Zenon, <2>1, <2>2
<1>9. CASE ReconcileOffsetCommits
  <2>1. CASE status[g] \in {"open", "closed"}
    <3>1. offsetCommits'[g] = Larger(offsetCommits[g], 0) /\ UNCHANGED <<log, logOpen>>
      BY Zenon, <1>9, <2>1 DEF ReconcileOffsetCommits, Existing
    <3>2. offsetCommits[g] # Unknown => offsetCommits[g] >= 0
      BY SMTT(30), <1>0, TaskAssumption DEF TaskType, Known, Offset
    <3>3. offsetCommits[g] # Unknown => offsetCommits'[g] = offsetCommits[g]
      BY SMTT(30), <1>3, <3>1, <3>2 DEF Larger
    <3> QED
      BY Zenon, <1>5, <1>6, <3>1, <3>3
  <2>2. CASE status[g] = "none"
    BY Zenon, <1>0, <1>6, <2>2 DEF StatusSound
  <2> QED
    BY SMTT(30), <1>0, <1>9, <2>1, <2>2 DEF TaskType, ReconcileOffsetCommits
<1>10. CASE ReconcileOffsetCommitsSegment
  <2>1. Recovered(g) = offsetCommits[g] /\ offsetCommits' = offsetCommits
    BY Zenon, <1>1, <1>10 DEF ReconcileOffsetCommitsSegment, RecoveredIs
  <2> QED
    BY SMTT(30), <1>3, <1>7, <2>1 DEF Larger
<1>11. CASE WriteCommit
  <2>1. log \in Seq(Message) /\ ack \in Message
    BY Zenon, <1>0, <1>11 DEF WriteCommit, TaskType, Writing
  <2>2. \A k \in DOMAIN log : k \in DOMAIN log' /\ log'[k] = log[k]
    BY <1>11, <2>1 DEF WriteCommit
  <2>3. UNCHANGED <<offsetCommits, logOpen>>
    BY SMTT(30), <1>11 DEF WriteCommit
  <2>4. CASE Recovered(g) = offsetCommits[g]
    BY SMTT(30), <1>3, <1>7, <2>3, <2>4 DEF Larger
  <2>5. CASE Recovered(g) # offsetCommits[g]
    <3>1. offsetCommits[g] # Unknown /\ logOpen
      BY Zenon, <1>1, <2>5 DEF RecoveredIs
    <3>2. PICK k \in DOMAIN log : log[k].segment = g /\ Recovered(g) = log[k].offset
      BY Zenon, <1>1, <2>5 DEF RecoveredIs
    <3>3. \A j \in DOMAIN log' : log'[j].segment = g => log'[j].offset =< Recovered(g)'
      BY Zenon, <1>2, <2>3, <3>1 DEF RecoveredIs
    <3>4. Recovered(g) =< Recovered(g)'
      BY Zenon, <2>2, <3>2, <3>3
    <3> QED
      BY <1>3, <3>4 DEF Larger
  <2> QED
    BY SMTT(30), <2>4, <2>5
<1>12. CASE RotateOffsets \/ RotateClose \/ RotateOpen
  <2>1. pc # "down" /\ status' = status
    BY SMTT(30), <1>12 DEF RotateOffsets, RotateClose, RotateOpen
  <2>2. /\ offsetCommits[g] =< Larger(committed[g], 0)
        /\ \A k \in DOMAIN log : log[k].segment = g => log[k].offset =< committed[g]
        /\ InTransaction => offsetCommits[g] = committed[g]
    BY Zenon, <1>0, <2>1 DEF Ahead
  <2>3. Recovered(g) =< Larger(committed[g], 0)
    <3>1. committed[g] =< Larger(committed[g], 0) /\ Larger(committed[g], 0) \in Int
      BY <1>3 DEF Larger
    <3>2. CASE Recovered(g) = offsetCommits[g]
      BY Zenon, <2>2, <3>2
    <3>3. CASE Recovered(g) # offsetCommits[g]
      <4>1. PICK k \in DOMAIN log : log[k].segment = g /\ Recovered(g) = log[k].offset
        BY Zenon, <1>1, <3>3 DEF RecoveredIs
      <4>2. Recovered(g) =< committed[g]
        BY SMTT(30), <2>2, <4>1
      <4> QED
        BY SMTT(30), <1>3, <3>1, <4>2
    <3> QED
      BY Zenon, <3>2, <3>3
  <2>4. offsetCommits'[g] = committed[g]
    BY Zenon, <1>12, <2>2 DEF RotateOffsets, RotateClose, RotateOpen, InTransaction
  <2> QED
    BY Zenon, <1>7, <2>3, <2>4
<1> QED
  <2>1. CASE \/ StartTask \/ Crash \/ UNCHANGED vars
             \/ Tick \/ CommitImmediately \/ SegmentClosed
             \/ \E c \in inFlight : TakeCommit(c)
    BY Zenon, <1>5, <2>1 DEF StartTask, Crash, Tick, CommitImmediately, SegmentClosed,
       TakeCommit
  <2>2. CASE \/ \E x \in Segments :
                  \/ Publish(x) \/ CloseSegment(x) \/ DeleteSegment(x)
                  \/ Offer(x) \/ ConsumeEnds(x) \/ ConsumeFails(x)
                  \/ TaskFailed(x) \/ TaskCompleted(x)
             \/ \E k \in DOMAIN buffer : Ack(k)
    BY Zenon, <1>5, <2>2 DEF Publish, CloseSegment, DeleteSegment, Offer, ConsumeEnds,
       ConsumeFails, TaskFailed, TaskCompleted, Ack
  <2> QED
    BY SMTT(30), <1>8, <1>9, <1>10, <1>11, <1>12, <2>1, <2>2 DEF Next, Loop, Consume

\* A commit once written is never forgotten, neither by a crash nor between the
\* steps of a rotation.
THEOREM CommitsAreRemembered == Spec => NoCommitForgotten
<1> DEFINE Remembered == \A g \in Segments : status'[g] # "deleted" =>
             Larger(Recovered(g)', 0) >= Larger(Recovered(g), 0)
<1>1. TaskInv /\ TaskInv' /\ [Next]_vars => [Remembered]_vars
  BY Zenon, RecoveredGrows DEF TaskInv
<1>2. Spec => [][Remembered]_vars
  BY <1>1, TaskInvariant, PTL DEF Spec
<1> QED
  BY Zenon, <1>2 DEF NoCommitForgotten
=============================================================================
