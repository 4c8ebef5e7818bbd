------------------------- MODULE ReplicationTasks -------------------------
(***************************************************************************)
(* The invariant of the replication of a segment, and that the steps of the *)
(* nodes and of their tasks keep it.                                       *)
(***************************************************************************)
EXTENDS Replication, TLAPS

Message == Nodes \X Nat

TaskRec ==
    [pc : {"start", "truncate", "copy", "write", "close"}, src : Nodes,
     size : Nat, end : Nat, held : Seq(Message), valid : BOOLEAN,
     cancelled : BOOLEAN]

ClosingRec == [sum : Seq(Message), msgs : SUBSET Message]

\* The segment in the state, open or closed.
SegmentRec ==
    [type : {TOPIC}, ns : {DefaultNamespace}, name : {"topic"},
     generation : {View(Opened).generation}, shard : {View(Opened).shard},
     primary : Nodes \cup {NoNode}, replicating : Seq(Nodes), done : Seq(Nodes),
     size : Nat]

\* The segment is either open, with a primary, or closed.
StateSound(s) ==
    /\ s \in [namespaces : {Opened.namespaces},
              open : [{Segment} -> SegmentRec] \cup {Empty},
              closed : [{Segment} -> SegmentRec] \cup {Empty},
              nodes : [Nodes -> {"alive", "dead"}], current : {Segment}]
    /\ \/ /\ DOMAIN s.open = {Segment} /\ DOMAIN s.closed = {}
          /\ s.open[Segment].primary \in Nodes /\ s.open[Segment].done = <<>>
       \/ /\ DOMAIN s.open = {} /\ DOMAIN s.closed = {Segment}
          /\ s.closed[Segment].primary = NoNode

\* No node has two places in the segment.
Apart(segment) ==
    /\ segment.primary \notin Range(segment.replicating)
    /\ Range(segment.done) \cap Range(segment.replicating) = {}

RepType ==
    /\ MaxSize \in Nat \ {0}
    /\ StateSound(state)
    /\ sealed \in Seq(Message)
    /\ local \in [Nodes -> SegmentRec]
    /\ handled \in [Nodes -> BOOLEAN]
    /\ file \in [Nodes -> Seq(Message) \cup {NoFile}]
    /\ task \in [Nodes -> [Kinds -> TaskRec \cup {NoTask}]]
    /\ closing \in [Nodes -> ClosingRec]
    /\ published \in Nat
    /\ acked \subseteq Message
    /\ up \subseteq Nodes

\* The copies of the state: one that says closed is right, and one that is not
\* behind is the state.
CopiesSound ==
    /\ Apart(View(state))
    /\ \A n \in Nodes :
        /\ Apart(local[n])
        /\ IsClosed(local[n]) => Closed
        /\ n \in behind \/ local[n] = View(state)

\* A replication copies from another node. Past its first step it has its own
\* file and that of its source, a valid iterator over a closed segment does not go
\* beyond the end of the file, and a full sum it has taken is that of its file.
\* It is at its end, or one of a closed segment, only where that is known.
TaskOk(n, kind, t) ==
    t # NoTask =>
        /\ t.src # n
        /\ t.pc # "start" => file[n] # NoFile
        /\ t.pc \in {"copy", "write"} => file[t.src] # NoFile
        /\ kind = "closed" /\ t.pc \in {"copy", "write"} /\ t.valid =>
               t.end <= Len(file[t.src])
        /\ t.pc = "close" /\ Len(t.held) >= MaxSize => n \in cut \/ file[n] = t.held
        /\ t.pc = "close" \/ kind = "closed" => IsClosed(local[n])

TasksSound ==
    \A n \in Nodes : \A kind \in Kinds : TaskOk(n, kind, task[n][kind])

\* The Loop has yet to look at a replica of a closed segment, or copies it.
Driven ==
    \A n \in Nodes : Closed /\ IsReplica(n) =>
        n \in behind \/ ~handled[n] \/ task[n]["closed"] # NoTask

\* What the reconciler may decide for a state: no living primary loses its place,
\* nobody becomes done, a living closer does not stop being it, and nobody has
\* two places.
PlanFor(cmds, s) ==
    \/ cmds = <<>>
    \/ /\ ~IsClosed(View(s))
       /\ \E p \in Nodes, r \in Seq(Nodes) :
            /\ cmds = <<UpdateOpenNodes(Segment, p, r)>>
            /\ p \notin Range(r)
            /\ p = View(s).primary \/ ~Alive(s, View(s).primary)
    \/ /\ IsClosed(View(s))
       /\ \E d, r \in Seq(Nodes) :
            /\ cmds = <<UpdateClosedNodes(Segment, d, r)>>
            /\ Range(d) \cap Range(r) = {}
            /\ Range(d) \subseteq Range(View(s).done)
            /\ View(s).done # <<>> /\ Alive(s, View(s).done[1]) =>
                   d # <<>> /\ d[1] = View(s).done[1]

\* The command the leader is about to apply.
PlanSound == PlanFor(plan, state)

\* The sum under way to the leader is that of the file, which is full. A node that
\* has not failed is the primary, or has closed the segment.
ClosingOk(n, c) ==
    c # NoClosing =>
        /\ Len(c.sum) >= MaxSize
        /\ n \in cut \/ file[n] = c.sum
        /\ \A m \in c.msgs : m[1] = n /\ m \in Range(c.sum)
        /\ n \notin failed =>
               /\ ~Closed => View(state).primary = n
               /\ Closed => n \in cut \/ c.sum = sealed

ClosingSound == \A n \in Nodes : ClosingOk(n, closing[n])

SealedFull == Closed => Len(sealed) >= MaxSize

\* The nodes that are not alive have failed.
FailedKnown ==
    \A n \in Nodes : ~Alive(state, n) \/ n \notin up => n \in failed

\* A node that has not failed and takes itself for the primary is the primary,
\* or the one that closed the segment.
PrimarySound ==
    \A n \in Nodes : local[n].primary = n /\ n \notin failed =>
        IF Closed THEN View(state).done # <<>> /\ View(state).done[1] = n
        ELSE View(state).primary = n

\* A node that has not failed and where a Publish may write to the segment is the
\* primary, or its file has the closed content.
PublisherOk(n) ==
    n \notin failed =>
        IF Closed THEN n \in cut \/ file[n] = sealed ELSE View(state).primary = n

ChosenSound == \A n \in Nodes : n \in chosen => PublisherOk(n)

\* An acked message is in the file of the primary that took it, or closed.
AckedOk(m) ==
    m[1] \notin failed \cup cut =>
        IF Closed THEN m \in Range(sealed)
        ELSE /\ View(state).primary = m[1]
             /\ file[m[1]] # NoFile /\ m \in Range(file[m[1]])

AckedSound == \A m \in acked : AckedOk(m)

\* The inductive invariant.
RepInv ==
    /\ RepType /\ CopiesSound /\ TasksSound /\ PlanSound /\ ClosingSound
    /\ SealedFull /\ FailedKnown /\ PrimarySound /\ ChosenSound /\ AckedSound
    /\ DoneExact /\ Driven
-----------------------------------------------------------------------------
(* Lists and the state. *)

\* The members of a list.
LEMMA RangeFacts ==
  ASSUME NEW T, NEW C \in SUBSET T, NEW list \in Seq(C)
  PROVE  list \in Seq(T) /\ Range(list) \subseteq C
BY DEF Range

\* The members of two lists put together.
LEMMA CatFacts ==
  ASSUME NEW T, NEW a \in Seq(T), NEW b \in Seq(T)
  PROVE  /\ a \o b \in Seq(T) /\ Range(a \o b) = Range(a) \cup Range(b)
         /\ Len(a) <= Len(a \o b)
<1>1. a \o b \in Seq(T) /\ Len(a \o b) = Len(a) + Len(b) /\ Len(a) <= Len(a) + Len(b)
  OBVIOUS
<1>2. /\ \A i \in 1..Len(a) : (a \o b)[i] = a[i]
      /\ \A i \in 1..Len(b) : (a \o b)[Len(a) + i] = b[i]
  OBVIOUS
<1>3. /\ Range(a) = {a[i] : i \in 1..Len(a)} /\ Range(b) = {b[i] : i \in 1..Len(b)}
      /\ Range(a \o b) = {(a \o b)[i] : i \in 1..(Len(a) + Len(b))}
  BY <1>1 DEF Range
<1>4. ASSUME NEW x \in Range(a \o b) PROVE x \in Range(a) \cup Range(b)
  <2>1. PICK i \in 1..(Len(a) + Len(b)) : x = (a \o b)[i]
    BY Zenon, <1>3
  <2>2. CASE i \in 1..Len(a)
    BY Zenon, <1>2, <1>3, <2>1, <2>2
  <2>3. CASE i \notin 1..Len(a)
    <3>1. i - Len(a) \in 1..Len(b) /\ i = Len(a) + (i - Len(a))
      BY <2>3
    <3>2. x = b[i - Len(a)]
      BY Zenon, <1>2, <2>1, <3>1
    <3> QED
      BY Zenon, <1>3, <3>1, <3>2
  <2> QED
    BY Zenon, <2>2, <2>3
<1>5. ASSUME NEW x \in Range(a) PROVE x \in Range(a \o b)
  <2>1. PICK i \in 1..Len(a) : x = a[i]
    BY Zenon, <1>3
  <2>2. i \in 1..(Len(a) + Len(b))
    OBVIOUS
  <2> QED
    BY Zenon, <1>2, <1>3, <2>1, <2>2
<1>6. ASSUME NEW x \in Range(b) PROVE x \in Range(a \o b)
  <2>1. PICK i \in 1..Len(b) : x = b[i]
    BY Zenon, <1>3
  <2>2. Len(a) + i \in 1..(Len(a) + Len(b))
    OBVIOUS
  <2> QED
    BY Zenon, <1>2, <1>3, <2>1, <2>2
<1> QED
  BY Zenon, <1>1, <1>4, <1>5, <1>6

\* A state says whether the segment is open or closed.
LEMMA StateViewed ==
  ASSUME NEW s, StateSound(s)
  PROVE  /\ View(s) \in SegmentRec
         /\ ~IsClosed(View(s)) =>
                /\ DOMAIN s.open = {Segment} /\ DOMAIN s.closed = {}
                /\ View(s) = s.open[Segment]
                /\ View(s).primary \in Nodes /\ View(s).done = <<>>
         /\ IsClosed(View(s)) =>
                /\ DOMAIN s.open = {} /\ DOMAIN s.closed = {Segment}
                /\ View(s) = s.closed[Segment] /\ View(s).primary = NoNode
<1>1. /\ s.open \in [{Segment} -> SegmentRec] \cup {Empty}
      /\ s.closed \in [{Segment} -> SegmentRec] \cup {Empty}
  BY Zenon DEF StateSound
<1>2. NoNode \notin Nodes
  BY Zenon, ReplicationAssumption
<1>3. CASE DOMAIN s.open = {Segment} /\ DOMAIN s.closed = {}
  <2>1. View(s) = s.open[Segment]
    BY Zenon, <1>3 DEF View, GetSegment
  <2>2. s.open \in [{Segment} -> SegmentRec]
    BY Zenon, <1>1, <1>3 DEF Empty
  <2>3. s.open[Segment].primary \in Nodes /\ s.open[Segment].done = <<>>
    BY Zenon, <1>3 DEF StateSound
  <2> QED
    BY Zenon, <1>2, <1>3, <2>1, <2>2, <2>3 DEF IsClosed
<1>4. CASE DOMAIN s.open = {} /\ DOMAIN s.closed = {Segment}
  <2>1. View(s) = s.closed[Segment]
    BY Zenon, <1>4 DEF View, GetSegment
  <2>2. s.closed \in [{Segment} -> SegmentRec]
    BY Zenon, <1>1, <1>4 DEF Empty
  <2>3. s.closed[Segment].primary = NoNode
    BY Zenon, <1>4 DEF StateSound
  <2> QED
    BY Zenon, <1>4, <2>1, <2>2, <2>3 DEF IsClosed
<1> QED
  BY Zenon, <1>3, <1>4 DEF StateSound

\* UpdateSegmentNodes of the open segment.
LEMMA OpenNodesUpdated ==
  ASSUME NEW s, StateSound(s), ~IsClosed(View(s)),
         NEW p \in Nodes, NEW r \in Seq(Nodes)
  PROVE  LET t == Do(s, UpdateOpenNodes(Segment, p, r))
         IN  /\ StateSound(t) /\ t.nodes = s.nodes
             /\ ~IsClosed(View(t)) /\ View(t).primary = p /\ View(t).replicating = r
<1> DEFINE cmd == UpdateOpenNodes(Segment, p, r)
           old == s.open[Segment]
           new == [old EXCEPT !.primary = p, !.done = <<>>, !.replicating = r]
           t == [s EXCEPT !.open[Segment] = new]
<1>1. /\ DOMAIN s.open = {Segment} /\ DOMAIN s.closed = {}
      /\ old \in SegmentRec /\ s.open \in [{Segment} -> SegmentRec]
  BY Zenon, StateViewed DEF StateSound, Empty
<1>2. Do(s, cmd) = doUpdateSegmentNodes(s, cmd)
  BY Zenon DEF Do, UpdateOpenNodes
<1>3. doUpdateSegmentNodes(s, cmd) = t
  BY Zenon, <1>1 DEF doUpdateSegmentNodes, UpdateOpenNodes
<1> HIDE DEF old
<1>4. <<>> \in Seq(Nodes)
  OBVIOUS
<1>5. new \in SegmentRec
  BY Zenon, <1>1, <1>4 DEF SegmentRec
<1>6. new.primary = p /\ new.done = <<>> /\ new.replicating = r
  BY Zenon, <1>1 DEF SegmentRec
<1> HIDE DEF new
<1>7. /\ t.nodes = s.nodes /\ t.closed = s.closed
      /\ t.open \in [{Segment} -> SegmentRec] /\ t.open[Segment] = new
  BY Zenon, <1>1, <1>5 DEF StateSound
<1>8. StateSound(t)
  BY Zenon, <1>1, <1>5, <1>6, <1>7 DEF StateSound
<1> HIDE DEF t
<1>9. ~IsClosed(View(t)) /\ View(t).primary = p /\ View(t).replicating = r
  BY Zenon, <1>6, <1>7, <1>8, StateViewed DEF View, GetSegment, IsClosed
<1> QED
  BY Zenon, <1>2, <1>3, <1>7, <1>8, <1>9

\* UpdateSegmentNodes of the closed segment.
LEMMA ClosedNodesUpdated ==
  ASSUME NEW s, StateSound(s), IsClosed(View(s)),
         NEW d \in Seq(Nodes), NEW r \in Seq(Nodes)
  PROVE  LET t == Do(s, UpdateClosedNodes(Segment, d, r))
         IN  /\ StateSound(t) /\ t.nodes = s.nodes
             /\ IsClosed(View(t)) /\ View(t).done = d /\ View(t).replicating = r
<1> DEFINE cmd == UpdateClosedNodes(Segment, d, r)
           old == s.closed[Segment]
           new == [old EXCEPT !.primary = NoNode, !.done = d, !.replicating = r]
           t == [s EXCEPT !.closed[Segment] = new]
<1>1. /\ DOMAIN s.open = {} /\ DOMAIN s.closed = {Segment}
      /\ old \in SegmentRec /\ s.closed \in [{Segment} -> SegmentRec]
  BY Zenon, StateViewed DEF StateSound, Empty
<1>2. Do(s, cmd) = doUpdateSegmentNodes(s, cmd)
  BY Zenon DEF Do, UpdateClosedNodes
<1>3. doUpdateSegmentNodes(s, cmd) = t
  BY Zenon, <1>1 DEF doUpdateSegmentNodes, UpdateClosedNodes
<1> HIDE DEF old
<1>4. new \in SegmentRec
  BY Zenon, <1>1 DEF SegmentRec
<1>5. new.primary = NoNode /\ new.done = d /\ new.replicating = r
  BY Zenon, <1>1 DEF SegmentRec
<1> HIDE DEF new
<1>6. /\ t.nodes = s.nodes /\ t.open = s.open
      /\ t.closed \in [{Segment} -> SegmentRec] /\ t.closed[Segment] = new
  BY Zenon, <1>1, <1>4 DEF StateSound
<1>7. StateSound(t)
  BY Zenon, <1>1, <1>4, <1>5, <1>6 DEF StateSound
<1> HIDE DEF t
<1>8. View(t) = new
  BY Zenon, <1>1, <1>6 DEF View, GetSegment
<1> QED
  BY Zenon, <1>2, <1>3, <1>5, <1>6, <1>7, <1>8 DEF IsClosed

\* CloseSegment.
LEMMA SegmentIsClosed ==
  ASSUME NEW s, StateSound(s), ~IsClosed(View(s)), NEW n \in Nodes, NEW size \in Nat
  PROVE  /\ CloseSegment(s, n, Segment, size) # <<>>
         /\ LET t == Do(s, CloseSegment(s, n, Segment, size)[1])
            IN  /\ StateSound(t) /\ t.nodes = s.nodes
                /\ IsClosed(View(t)) /\ View(t).done = <<n>>
                /\ View(t).replicating = View(s).replicating
<1> DEFINE cmd == [op |-> "CloseSegment", id |-> Segment, node |-> n, size |-> size]
           old == s.open[Segment]
           new == [old EXCEPT !.primary = NoNode, !.size = size, !.done = <<n>>]
           t == [s EXCEPT !.open = Without(@, {Segment}), !.closed = Put(@, Segment, new)]
<1>1. /\ DOMAIN s.open = {Segment} /\ DOMAIN s.closed = {}
      /\ old \in SegmentRec /\ View(s) = old
  BY Zenon, StateViewed
<1>2. CloseSegment(s, n, Segment, size) = <<cmd>>
  BY Zenon, <1>1 DEF CloseSegment
<1>3. Do(s, cmd) = doCloseSegment(s, cmd)
  BY Zenon DEF Do
<1>4. doCloseSegment(s, cmd) = t
  BY Zenon, <1>1 DEF doCloseSegment
<1> HIDE DEF old
<1>5. <<n>> \in Seq(Nodes)
  OBVIOUS
<1>6. new \in SegmentRec
  BY Zenon, <1>1, <1>5 DEF SegmentRec
<1>7. new.primary = NoNode /\ new.done = <<n>> /\ new.replicating = old.replicating
  BY Zenon, <1>1 DEF SegmentRec
<1> HIDE DEF new
<1>8. Without(s.open, {Segment}) = Empty
  BY Zenon, <1>1 DEF Without, Empty
<1>9. Put(s.closed, Segment, new) \in [{Segment} -> SegmentRec]
        /\ Put(s.closed, Segment, new)[Segment] = new
  BY Zenon, <1>1, <1>6 DEF Put
<1>10. /\ t.nodes = s.nodes /\ t.open = Empty
       /\ t.closed \in [{Segment} -> SegmentRec] /\ t.closed[Segment] = new
  BY Zenon, <1>8, <1>9 DEF StateSound
<1>11. StateSound(t)
  <2>1. DOMAIN Empty = {}
    BY Zenon DEF Empty
  <2> QED
    BY Zenon, <1>1, <1>6, <1>7, <1>10, <2>1 DEF StateSound
<1> HIDE DEF t, cmd
<1>12. View(t) = new
  BY Zenon, <1>10 DEF View, GetSegment, Empty
<1>13. <<cmd>> # <<>> /\ <<cmd>>[1] = cmd
  OBVIOUS
<1> QED
  BY Zenon, <1>1, <1>2, <1>3, <1>4, <1>7, <1>10, <1>11, <1>12, <1>13 DEF IsClosed

\* UpdateNode.
LEMMA NodeUpdated ==
  ASSUME NEW s, StateSound(s), NEW n \in Nodes, NEW status \in {"alive", "dead"}
  PROVE  LET t == Do(s, UpdateNode(n, status))
         IN  /\ StateSound(t) /\ t.nodes = [s.nodes EXCEPT ![n] = status]
             /\ View(t) = View(s)
<1> DEFINE cmd == UpdateNode(n, status)
           nodes == [s.nodes EXCEPT ![n] = status]
           t == [s EXCEPT !.nodes = nodes]
<1>1. s.nodes \in [Nodes -> {"alive", "dead"}]
  BY Zenon DEF StateSound
<1>2. Do(s, cmd) = doUpdateNode(s, cmd)
  BY Zenon DEF Do, UpdateNode
<1>3. Put(s.nodes, n, status) = nodes
  BY Zenon, <1>1 DEF Put
<1>4. doUpdateNode(s, cmd) = t
  BY Zenon, <1>3 DEF doUpdateNode, UpdateNode
<1>5. nodes \in [Nodes -> {"alive", "dead"}]
  BY Zenon, <1>1
<1> HIDE DEF nodes
<1>6. t.nodes = nodes /\ t.open = s.open /\ t.closed = s.closed
  BY Zenon DEF StateSound
<1>7. StateSound(t)
  BY Zenon, <1>5, <1>6 DEF StateSound
<1>8. View(t) = View(s)
  <2> HIDE DEF t
  <2> QED
    BY Zenon, <1>6 DEF View, GetSegment
<1> QED
  BY Zenon, <1>2, <1>4, <1>6, <1>7, <1>8 DEF nodes
-----------------------------------------------------------------------------
(* What a step keeps. *)

\* Files grow: one that is full does not change.
FilesGrow ==
    \A n \in Nodes : file[n] # NoFile =>
        /\ file'[n] # NoFile /\ Len(file[n]) <= Len(file'[n])
        /\ Range(file[n]) \subseteq Range(file'[n])
        /\ Len(file[n]) >= MaxSize => file'[n] = file[n]

\* A replication that stays where it is.
Stays(u, t) ==
    /\ u.pc = t.pc /\ u.src = t.src /\ u.end = t.end /\ u.held = t.held
    /\ u.valid => t.valid

TaskFollows(n, kind) ==
    \/ task'[n][kind] = task[n][kind]
    \/ task'[n][kind] = NoTask
    \/ task[n][kind] # NoTask /\ task'[n][kind] # NoTask /\ Stays(task'[n][kind], task[n][kind])
    \/ TaskOk(n, kind, task[n][kind])'

\* Every replication stays where it is, ends, or makes a sound step.
LEMMA TasksStep ==
  ASSUME RepType, RepType', TasksSound, FilesGrow, cut \subseteq cut', MaxSize' = MaxSize,
         \A n \in Nodes : IsClosed(local[n]) => IsClosed(local'[n]),
         \A n \in Nodes : \A kind \in Kinds : TaskFollows(n, kind)
  PROVE  TasksSound'
<1> SUFFICES ASSUME NEW n \in Nodes, NEW kind \in Kinds
             PROVE  TaskOk(n, kind, task[n][kind])'
  BY Zenon DEF TasksSound
<1> DEFINE t == task[n][kind]
           u == task'[n][kind]
<1>1. TaskOk(n, kind, t)
  BY Zenon DEF TasksSound
<1>2. TaskFollows(n, kind)
  OBVIOUS
<1>3. /\ t \in TaskRec \cup {NoTask} /\ u \in TaskRec \cup {NoTask}
      /\ MaxSize \in Nat /\ file \in [Nodes -> Seq(Message) \cup {NoFile}]
      /\ file' \in [Nodes -> Seq(Message) \cup {NoFile}]
  BY DEF RepType
<1>4. CASE u = NoTask
  BY Zenon, <1>4 DEF TaskOk
<1>5. CASE /\ t # NoTask /\ u # NoTask /\ t \in TaskRec /\ u \in TaskRec /\ Stays(u, t)
  <2>1. /\ u.pc = t.pc /\ u.src = t.src /\ u.end = t.end /\ u.held = t.held
        /\ u.valid => t.valid
    BY Zenon, <1>5 DEF Stays
  <2>2. t.src \in Nodes /\ t.end \in Nat /\ t.held \in Seq(Message)
    BY Zenon, <1>5 DEF TaskRec
  <2> HIDE DEF t, u
  <2>3. /\ file[n] # NoFile => file'[n] # NoFile
        /\ file[t.src] # NoFile => file'[t.src] # NoFile /\ Len(file[t.src]) <= Len(file'[t.src])
    BY Zenon, <2>2 DEF FilesGrow
  <2>4. file[t.src] # NoFile /\ t.end <= Len(file[t.src]) => t.end <= Len(file'[t.src])
    BY <1>3, <2>2, <2>3
  <2>5. Len(t.held) >= MaxSize /\ file[n] = t.held => file'[n] = t.held
    <3>1. t.held # NoFile
      BY Zenon, <2>2, ReplicationAssumption DEF Message
    <3> QED
      BY Zenon, <3>1 DEF FilesGrow
  <2>6. TaskOk(n, kind, task[n][kind])' <=> (u # NoTask =>
        /\ u.src # n
        /\ u.pc # "start" => file'[n] # NoFile
        /\ u.pc \in {"copy", "write"} => file'[u.src] # NoFile
        /\ kind = "closed" /\ u.pc \in {"copy", "write"} /\ u.valid =>
               u.end <= Len(file'[u.src])
        /\ u.pc = "close" /\ Len(u.held) >= MaxSize' => n \in cut' \/ file'[n] = u.held
        /\ u.pc = "close" \/ kind = "closed" => IsClosed(local'[n]))
    BY Zenon DEF TaskOk, u
  <2>7. u # NoTask =>
        /\ u.src # n
        /\ u.pc # "start" => file'[n] # NoFile
        /\ u.pc \in {"copy", "write"} => file'[u.src] # NoFile
        /\ kind = "closed" /\ u.pc \in {"copy", "write"} /\ u.valid =>
               u.end <= Len(file'[u.src])
        /\ u.pc = "close" /\ Len(u.held) >= MaxSize' => n \in cut' \/ file'[n] = u.held
        /\ u.pc = "close" \/ kind = "closed" => IsClosed(local'[n])
    BY Zenon, <1>1, <1>5, <2>1, <2>3, <2>4, <2>5 DEF TaskOk
  <2> QED
    BY Zenon, <2>6, <2>7 DEF u
<1>6. u = t => u = NoTask \/ Stays(u, t)
  BY Zenon DEF Stays
<1> QED
  BY Zenon, <1>2, <1>3, <1>4, <1>5, <1>6 DEF TaskFollows

\* A step that leaves the segment in the state as it is and cuts no file.
Quiet ==
    /\ View(state') = View(state) /\ sealed' = sealed /\ MaxSize' = MaxSize
    /\ cut' = cut /\ failed \subseteq failed' /\ FilesGrow

\* What a quiet step keeps: the closed content, the files of the nodes that are
\* done, the sums under way and the messages acked.
LEMMA QuietStep ==
  ASSUME RepInv, Quiet
  PROVE  /\ (Closed' <=> Closed)
         /\ SealedFull' /\ DoneExact'
         /\ \A n \in Nodes, c \in ClosingRec : ClosingOk(n, c) => ClosingOk(n, c)'
         /\ \A m \in Message : AckedOk(m) => AckedOk(m)'
         /\ \A n \in Nodes : PublisherOk(n) => PublisherOk(n)'
         /\ chosen' \subseteq chosen => ChosenSound'
         /\ local' = local => PrimarySound'
<1>1. /\ View(state') = View(state) /\ sealed' = sealed /\ MaxSize' = MaxSize
      /\ cut' = cut /\ failed \subseteq failed'
  BY Zenon DEF Quiet
<1>2. Closed' <=> Closed
  BY Zenon, <1>1 DEF Closed
<1>3. SealedFull'
  BY Zenon, <1>1, <1>2 DEF RepInv, SealedFull
<1>4. \A c \in Seq(Message) : \A n \in Nodes :
         Len(c) >= MaxSize /\ file[n] = c => file'[n] = c
  BY Zenon, ReplicationAssumption DEF Quiet, FilesGrow, Message
<1>5. DoneExact'
  <2> SUFFICES ASSUME NEW n \in Nodes, IsDone(n)', n \notin cut'
               PROVE  file'[n] = sealed'
    BY Zenon DEF DoneExact
  <2>1. IsDone(n)
    BY Zenon, <1>1 DEF IsDone
  <2>2. Closed
    <3>1. StateSound(state)
      BY Zenon DEF RepInv, RepType
    <3>2. ~Closed => View(state).done = <<>>
      BY Zenon, <3>1, StateViewed DEF Closed
    <3>3. Range(<<>>) = {}
      BY DEF Range
    <3> QED
      BY Zenon, <2>1, <3>2, <3>3 DEF IsDone
  <2>3. Len(sealed) >= MaxSize /\ file[n] = sealed /\ sealed \in Seq(Message)
    BY Zenon, <1>1, <2>1, <2>2 DEF RepInv, SealedFull, DoneExact, RepType
  <2> QED
    BY Zenon, <1>1, <1>4, <2>3
<1>6. ASSUME NEW n \in Nodes, NEW c \in ClosingRec, ClosingOk(n, c)
      PROVE  ClosingOk(n, c)'
  <2>1. c.sum \in Seq(Message)
    BY Zenon DEF ClosingRec
  <2>2. Len(c.sum) >= MaxSize /\ file[n] = c.sum => file'[n] = c.sum
    BY Zenon, <1>4, <2>1
  <2> QED
    BY Zenon, <1>1, <1>2, <1>6, <2>2 DEF ClosingOk
<1>7. ASSUME NEW m \in Message, AckedOk(m) PROVE AckedOk(m)'
  <2>1. m[1] \in Nodes
    BY Zenon DEF Message
  <2>2. file[m[1]] # NoFile => file'[m[1]] # NoFile /\ Range(file[m[1]]) \subseteq Range(file'[m[1]])
    BY Zenon, <2>1 DEF Quiet, FilesGrow
  <2> QED
    BY Zenon, <1>1, <1>2, <1>7, <2>2 DEF AckedOk
<1>8. local' = local => PrimarySound'
  BY Zenon, <1>1, <1>2 DEF RepInv, PrimarySound
<1>9. ASSUME NEW n \in Nodes, PublisherOk(n) PROVE PublisherOk(n)'
  <2>1. Closed => Len(sealed) >= MaxSize /\ sealed \in Seq(Message)
    BY Zenon DEF RepInv, SealedFull, RepType
  <2>2. Closed /\ file[n] = sealed => file'[n] = sealed
    BY Zenon, <1>4, <2>1
  <2> QED
    BY Zenon, <1>1, <1>2, <1>9, <2>2 DEF PublisherOk
<1>10. chosen' \subseteq chosen => ChosenSound'
  BY Zenon, <1>9 DEF RepInv, ChosenSound
<1> QED
  BY Zenon, <1>2, <1>3, <1>5, <1>6, <1>7, <1>8, <1>9, <1>10

\* The invariant after a quiet step, from what is left of it.
LEMMA QuietInv ==
  ASSUME RepInv, Quiet, RepType', TasksSound', FailedKnown', Driven',
         UNCHANGED <<state, plan, local, behind, closing, chosen, acked>>
  PROVE  RepInv'
<1>1. /\ SealedFull' /\ DoneExact' /\ PrimarySound' /\ ChosenSound'
      /\ \A n \in Nodes, c \in ClosingRec : ClosingOk(n, c) => ClosingOk(n, c)'
      /\ \A m \in Message : AckedOk(m) => AckedOk(m)'
  BY Zenon, QuietStep
<1>2. /\ \A n \in Nodes : closing[n] \in ClosingRec
      /\ \A m \in acked : m \in Message
  BY Zenon DEF RepInv, RepType
<1>3. ClosingSound'
  <2>1. \A n \in Nodes : ClosingOk(n, closing[n])'
    <3> SUFFICES ASSUME NEW n \in Nodes PROVE ClosingOk(n, closing[n])'
      OBVIOUS
    <3> DEFINE c == closing[n]
    <3>1. ClosingOk(n, c) /\ c \in ClosingRec
      BY Zenon, <1>2 DEF RepInv, ClosingSound
    <3>2. closing'[n] = c
      OBVIOUS
    <3> QED
      BY Zenon, <1>1, <3>1, <3>2 DEF ClosingOk
  <2> QED
    BY Zenon, <2>1 DEF ClosingSound
<1>4. AckedSound'
  BY Zenon, <1>1, <1>2 DEF RepInv, AckedSound
<1>5. CopiesSound' /\ PlanSound'
  BY Zenon DEF RepInv, CopiesSound, PlanSound, Closed
<1> QED
  BY Zenon, <1>1, <1>3, <1>4, <1>5 DEF RepInv
-----------------------------------------------------------------------------
(* The replications. *)

\* What the steps of a replication leave alone.
Rest ==
    UNCHANGED <<leader, copies, closing, chosen, published, acked, up, failed>>

\* A step of a replication leaves the leader, the copies and Publish alone.
LEMMA RestFacts ==
  ASSUME Rest
  PROVE  /\ UNCHANGED <<MaxSize, state, sealed, plan, local, behind, closing, chosen, published,
                        acked, up, failed>>
         /\ FilesGrow /\ cut' = cut => Quiet
         /\ FailedKnown => FailedKnown'
BY Zenon DEF Rest, leader, copies, Quiet, FailedKnown

\* A file that is not touched.
LEMMA FilesSame ==
  ASSUME RepType, file' = file
  PROVE  FilesGrow
<1>1. \A n \in Nodes : file[n] # NoFile => file[n] \in Seq(Message)
  BY Zenon DEF RepType
<1>2. \A n \in Nodes : file[n] # NoFile => Len(file[n]) \in Nat
  BY <1>1
<1> QED
  BY <1>2 DEF FilesGrow

\* A replication under way.
LEMMA TaskFacts ==
  ASSUME RepType, NEW n \in Nodes, NEW kind \in Kinds, NEW pc, pc # "none", At(n, kind, pc)
  PROVE  LET t == task[n][kind]
         IN  /\ t \in TaskRec /\ t # NoTask /\ t.pc = pc
             /\ t.src \in Nodes /\ t.size \in Nat /\ t.end \in Nat /\ t.held \in Seq(Message)
<1>1. task[n][kind] \in TaskRec \cup {NoTask} /\ task[n][kind].pc = pc
  BY DEF RepType, At
<1>2. NoTask.pc = "none"
  BY Zenon DEF NoTask
<1>3. task[n][kind] \in TaskRec /\ task[n][kind] # NoTask
  BY Zenon, <1>1, <1>2
<1> QED
  BY Zenon, <1>1, <1>3 DEF TaskRec

\* One replication changes.
TaskSet(n, kind, u) ==
    /\ task' \in [Nodes -> [Kinds -> TaskRec \cup {NoTask}]]
    /\ task'[n][kind] = u
    /\ \A m \in Nodes : \A k \in Kinds : <<m, k>> # <<n, kind>> => task'[m][k] = task[m][k]

\* A step of one replication.
LEMMA OneTask ==
  ASSUME RepType, NEW n \in Nodes, NEW kind \in Kinds, NEW u \in TaskRec \cup {NoTask},
         task' = [task EXCEPT ![n][kind] = u]
  PROVE  TaskSet(n, kind, u)
BY Zenon DEF RepType, TaskSet

\* The files.
LEMMA FileFacts ==
  ASSUME RepType
  PROVE  /\ file \in [Nodes -> Seq(Message) \cup {NoFile}] /\ NoFile \notin Seq(Message)
         /\ \A n \in Nodes :
                /\ OpenFile(n) \in Seq(Message) /\ OpenFile(n) # NoFile
                /\ Len(OpenFile(n)) \in Nat
                /\ file[n] # NoFile => OpenFile(n) = file[n]
<1>1. file \in [Nodes -> Seq(Message) \cup {NoFile}] /\ NoFile \notin Seq(Message)
  BY Zenon, ReplicationAssumption DEF RepType, Message
<1>2. <<>> \in Seq(Message)
  OBVIOUS
<1>3. \A n \in Nodes : OpenFile(n) \in Seq(Message)
  BY Zenon, <1>1, <1>2 DEF OpenFile
<1>4. \A list \in Seq(Message) : Len(list) \in Nat
  OBVIOUS
<1> QED
  BY Zenon, <1>1, <1>3, <1>4 DEF OpenFile

\* A replication makes a step.
LEMMA MovedStep ==
  ASSUME RepInv, Rest, FilesGrow, cut' = cut, handled' = handled,
         file' \in [Nodes -> Seq(Message) \cup {NoFile}],
         NEW n \in Nodes, NEW kind \in Kinds, NEW u \in TaskRec,
         task' = [task EXCEPT ![n][kind] = u], TaskOk(n, kind, task[n][kind])'
  PROVE  RepInv'
<1>1. RepType /\ TasksSound /\ FailedKnown /\ Driven
  BY Zenon DEF RepInv
<1>2. /\ UNCHANGED <<MaxSize, state, sealed, plan, local, behind, closing, chosen, published,
                     acked, up, failed>>
      /\ Quiet /\ FailedKnown'
  BY Zenon, <1>1, RestFacts
<1>3. TaskSet(n, kind, u)
  BY Zenon, <1>1, OneTask
<1> USE DEF TaskSet
<1>4. RepType'
  BY Zenon, <1>1, <1>2, <1>3 DEF RepType
<1>5. TasksSound'
  <2>1. \A m \in Nodes : \A k \in Kinds : TaskFollows(m, k)
    BY Zenon, <1>3 DEF TaskFollows
  <2> QED
    BY Zenon, <1>1, <1>2, <1>4, <2>1, TasksStep
<1>6. Driven'
  <2>1. u # NoTask
    <3>1. u.pc # "none" /\ NoTask.pc = "none"
      BY Zenon DEF TaskRec, NoTask
    <3> QED
      BY Zenon, <3>1
  <2>2. \A m \in Nodes : task[m]["closed"] # NoTask => task'[m]["closed"] # NoTask
    BY Zenon, <1>3, <2>1 DEF Kinds
  <2> QED
    BY Zenon, <1>1, <1>2, <2>2 DEF Driven, Closed, IsReplica
<1> QED
  BY Zenon, <1>2, <1>4, <1>5, <1>6, QuietInv

\* A replication ends with an error.
LEMMA FailedStep ==
  ASSUME RepInv, Rest, FilesGrow, cut' = cut,
         file' \in [Nodes -> Seq(Message) \cup {NoFile}],
         NEW n \in Nodes, NEW kind \in Kinds, Failed(n, kind)
  PROVE  RepInv'
<1>1. RepType /\ TasksSound /\ FailedKnown /\ Driven
  BY Zenon DEF RepInv
<1>2. /\ UNCHANGED <<MaxSize, state, sealed, plan, local, behind, closing, chosen, published,
                     acked, up, failed>>
      /\ Quiet /\ FailedKnown'
  BY Zenon, <1>1, RestFacts
<1>3. TaskSet(n, kind, NoTask)
  BY Zenon, <1>1, OneTask DEF Failed
<1> USE DEF TaskSet
<1>4. /\ handled' \in [Nodes -> BOOLEAN] /\ ~handled'[n]
      /\ \A m \in Nodes : m # n => handled'[m] = handled[m]
  BY Zenon, <1>1 DEF Failed, RepType
<1>5. RepType'
  BY Zenon, <1>1, <1>2, <1>3, <1>4 DEF RepType
<1>6. TasksSound'
  <2>1. \A m \in Nodes : \A k \in Kinds : TaskFollows(m, k)
    BY Zenon, <1>3 DEF TaskFollows
  <2> QED
    BY Zenon, <1>1, <1>2, <1>5, <2>1, TasksStep
<1>7. Driven'
  <2>1. \A m \in Nodes : m # n /\ task[m]["closed"] # NoTask => task'[m]["closed"] # NoTask
    BY Zenon, <1>3 DEF Kinds
  <2> QED
    BY Zenon, <1>1, <1>2, <1>4, <2>1 DEF Driven, Closed, IsReplica
<1> QED
  BY Zenon, <1>2, <1>5, <1>6, <1>7, QuietInv

\* The file is opened and compared.
LEMMA ComparesStep ==
  ASSUME RepInv, NEW n \in Nodes, NEW kind \in Kinds, TaskCompares(n, kind)
  PROVE  RepInv'
<1> DEFINE t == task[n][kind]
           size == IF Matches(OpenFile(n), file[t.src]) THEN Len(OpenFile(n)) ELSE 0
           u == [t EXCEPT !.pc = "truncate", !.size = size]
<1>1. RepType /\ TaskOk(n, kind, t)
  BY Zenon DEF RepInv, TasksSound
<1>2. /\ At(n, kind, "start") /\ file' = [file EXCEPT ![n] = OpenFile(n)]
      /\ Rest /\ cut' = cut
      /\ \/ task' = [task EXCEPT ![n][kind] = u] /\ handled' = handled
         \/ Failed(n, kind)
  BY Zenon DEF TaskCompares, Rest
<1>3. t \in TaskRec /\ t # NoTask
  BY Zenon, <1>1, <1>2, TaskFacts
<1>4. /\ file \in [Nodes -> Seq(Message) \cup {NoFile}]
      /\ OpenFile(n) \in Seq(Message) /\ OpenFile(n) # NoFile
      /\ file[n] # NoFile => OpenFile(n) = file[n]
  BY Zenon, <1>1, FileFacts
<1>5. /\ file' \in [Nodes -> Seq(Message) \cup {NoFile}]
      /\ file'[n] # NoFile /\ \A m \in Nodes : file[m] # NoFile => file'[m] = file[m]
  BY Zenon, <1>2, <1>4
<1>6. FilesGrow
  <2>1. \A m \in Nodes : file[m] # NoFile => Len(file[m]) \in Nat
    BY <1>4
  <2> QED
    BY <1>4, <1>5, <2>1 DEF FilesGrow
<1>7. CASE task' = [task EXCEPT ![n][kind] = u] /\ handled' = handled
  <2>1. size \in Nat
    BY <1>4
  <2>2. u \in TaskRec /\ u.pc = "truncate" /\ u.src = t.src
    <3> HIDE DEF size, t
    <3> QED
      BY Zenon, <1>3, <2>1 DEF TaskRec
  <2> HIDE DEF u
  <2>3. task'[n][kind] = u
    BY Zenon, <1>1, <1>7, <2>2, OneTask DEF TaskSet
  <2>4. local' = local
    BY Zenon, <1>2, RestFacts
  <2>5. TaskOk(n, kind, task[n][kind])'
    BY Zenon, <1>1, <1>3, <1>5, <2>2, <2>3, <2>4 DEF TaskOk
  <2> QED
    BY Zenon, <1>2, <1>5, <1>6, <1>7, <2>2, <2>5, MovedStep
<1>8. CASE Failed(n, kind)
  BY Zenon, <1>2, <1>5, <1>6, <1>8, FailedStep
<1> QED
  BY Zenon, <1>2, <1>7, <1>8

\* A message is received.
LEMMA ReceivesStep ==
  ASSUME RepInv, NEW n \in Nodes, NEW kind \in Kinds, TaskReceives(n, kind)
  PROVE  RepInv'
<1> DEFINE t == task[n][kind]
           m == file[t.src][t.size + 1]
           u == [t EXCEPT !.pc = "write", !.size = t.size + 1, !.held = <<m>>]
<1>1. RepType /\ TaskOk(n, kind, t)
  BY Zenon DEF RepInv, TasksSound
<1>2. /\ At(n, kind, "copy") /\ file' = file /\ Rest /\ cut' = cut
      /\ t.size < Len(file[t.src])
      /\ task' = [task EXCEPT ![n][kind] = u] /\ handled' = handled
  BY Zenon DEF TaskReceives, Rest
<1>3. /\ t \in TaskRec /\ t # NoTask /\ t.pc = "copy" /\ t.src \in Nodes /\ t.size \in Nat
  BY Zenon, <1>1, <1>2, TaskFacts
<1>4. file \in [Nodes -> Seq(Message) \cup {NoFile}]
  BY Zenon, <1>1 DEF RepType
<1>5. FilesGrow
  BY Zenon, <1>1, <1>2, FilesSame
<1>6. file[t.src] # NoFile /\ file[t.src] \in Seq(Message)
  BY Zenon, <1>1, <1>3, <1>4 DEF TaskOk
<1>7. m \in Message
  <2> HIDE DEF t
  <2> QED
    BY <1>2, <1>3, <1>6
<1> HIDE DEF m
<1>8. u \in TaskRec /\ u.pc = "write" /\ u.src = t.src /\ u.end = t.end /\ u.valid = t.valid
  <2>1. <<m>> \in Seq(Message) /\ t.size + 1 \in Nat
    BY <1>3, <1>7
  <2> HIDE DEF t
  <2> QED
    BY Zenon, <1>3, <2>1 DEF TaskRec
<1> HIDE DEF u
<1>9. task'[n][kind] = u /\ local' = local
  BY Zenon, <1>1, <1>2, <1>8, OneTask, RestFacts DEF TaskSet
<1>10. TaskOk(n, kind, task[n][kind])'
  BY Zenon, <1>1, <1>2, <1>3, <1>8, <1>9 DEF TaskOk
<1> QED
  BY Zenon, <1>2, <1>4, <1>5, <1>8, <1>10, MovedStep

\* A message is written.
LEMMA WritesStep ==
  ASSUME RepInv, NEW n \in Nodes, NEW kind \in Kinds, TaskWrites(n, kind)
  PROVE  RepInv'
<1> DEFINE t == task[n][kind]
           u == [t EXCEPT !.pc = "copy", !.held = <<>>]
<1>1. RepType /\ TaskOk(n, kind, t)
  BY Zenon DEF RepInv, TasksSound
<1>2. /\ At(n, kind, "write") /\ Rest /\ cut' = cut
      /\ \/ /\ Len(file[n]) < MaxSize /\ file' = [file EXCEPT ![n] = file[n] \o t.held]
            /\ task' = [task EXCEPT ![n][kind] = u] /\ handled' = handled
         \/ Failed(n, kind) /\ file' = file
  BY Zenon DEF TaskWrites, Rest
<1>3. /\ t \in TaskRec /\ t # NoTask /\ t.pc = "write" /\ t.src \in Nodes
      /\ t.held \in Seq(Message)
  BY Zenon, <1>1, <1>2, TaskFacts
<1>4. file \in [Nodes -> Seq(Message) \cup {NoFile}] /\ NoFile \notin Seq(Message)
  BY Zenon, <1>1, FileFacts
<1>5. file[n] # NoFile /\ file[n] \in Seq(Message) /\ t.src # n /\ file[t.src] # NoFile
  BY Zenon, <1>1, <1>3, <1>4 DEF TaskOk
<1>6. CASE /\ Len(file[n]) < MaxSize /\ file' = [file EXCEPT ![n] = file[n] \o t.held]
           /\ task' = [task EXCEPT ![n][kind] = u] /\ handled' = handled
  <2> DEFINE content == file[n] \o t.held
  <2>1. /\ content \in Seq(Message) /\ Range(file[n]) \subseteq Range(content)
    <3> HIDE DEF t
    <3> QED
      BY <1>3, <1>5, CatFacts
  <2>2. Len(file[n]) <= Len(content)
    <3> HIDE DEF t
    <3> QED
      BY Zenon, <1>3, <1>5, CatFacts
  <2>3. /\ file'[n] = content /\ file' \in [Nodes -> Seq(Message) \cup {NoFile}]
        /\ \A m \in Nodes : m # n => file'[m] = file[m]
    <3> HIDE DEF content
    <3> QED
      BY Zenon, <1>4, <1>6, <2>1 DEF content
  <2> HIDE DEF content
  <2>4. FilesGrow
    <3>1. \A m \in Nodes : file[m] # NoFile => Len(file[m]) \in Nat
      BY <1>4
    <3>2. MaxSize \in Nat /\ Len(file[n]) < MaxSize
      BY Zenon, <1>1, <1>6 DEF RepType
    <3>3. ~(Len(file[n]) >= MaxSize)
      BY <1>5, <3>1, <3>2
    <3> QED
      BY <1>4, <2>1, <2>2, <2>3, <3>1, <3>3 DEF FilesGrow
  <2>5. u \in TaskRec /\ u.pc = "copy" /\ u.src = t.src /\ u.end = t.end /\ u.valid = t.valid
    <3>1. <<>> \in Seq(Message)
      OBVIOUS
    <3> HIDE DEF t
    <3> QED
      BY Zenon, <1>3, <3>1 DEF TaskRec
  <2> HIDE DEF u
  <2>6. task'[n][kind] = u /\ local' = local
    BY Zenon, <1>1, <1>2, <1>6, <2>5, OneTask, RestFacts DEF TaskSet
  <2>7. TaskOk(n, kind, task[n][kind])'
    <3>1. file'[t.src] = file[t.src] /\ file'[n] # NoFile
      BY Zenon, <1>3, <1>4, <1>5, <2>1, <2>3
    <3> QED
      BY Zenon, <1>1, <1>3, <2>5, <2>6, <3>1 DEF TaskOk
  <2> QED
    BY Zenon, <1>2, <1>6, <2>3, <2>4, <2>5, <2>7, MovedStep
<1>7. CASE Failed(n, kind) /\ file' = file
  BY Zenon, <1>1, <1>2, <1>4, <1>7, FilesSame, FailedStep
<1> QED
  BY Zenon, <1>2, <1>6, <1>7

\* The file is summed.
LEMMA SumsStep ==
  ASSUME RepInv, NEW n \in Nodes, NEW kind \in Kinds, TaskSums(n, kind)
  PROVE  RepInv'
<1> DEFINE t == task[n][kind]
           u == [t EXCEPT !.pc = "close", !.held = file[n]]
<1>1. RepType /\ TaskOk(n, kind, t)
  BY Zenon DEF RepInv, TasksSound
<1>2. /\ At(n, kind, "copy") /\ file' = file /\ Rest /\ cut' = cut
      /\ kind = "open" => IsClosed(local[n])
      /\ task' = [task EXCEPT ![n][kind] = u] /\ handled' = handled
  BY Zenon DEF TaskSums, Rest
<1>3. t \in TaskRec /\ t # NoTask /\ t.pc = "copy"
  BY Zenon, <1>1, <1>2, TaskFacts
<1>4. file \in [Nodes -> Seq(Message) \cup {NoFile}]
  BY Zenon, <1>1 DEF RepType
<1>5. FilesGrow
  BY Zenon, <1>1, <1>2, FilesSame
<1>6. file[n] # NoFile /\ file[n] \in Seq(Message)
  BY Zenon, <1>1, <1>3, <1>4 DEF TaskOk
<1>7. u \in TaskRec /\ u.pc = "close" /\ u.src = t.src /\ u.held = file[n]
  <2> HIDE DEF t
  <2> QED
    BY Zenon, <1>3, <1>6 DEF TaskRec
<1> HIDE DEF u
<1>8. task'[n][kind] = u /\ local' = local
  BY Zenon, <1>1, <1>2, <1>7, OneTask, RestFacts DEF TaskSet
<1>9. IsClosed(local[n])
  BY Zenon, <1>1, <1>2, <1>3 DEF TaskOk, Kinds
<1>10. TaskOk(n, kind, task[n][kind])'
  BY Zenon, <1>1, <1>2, <1>3, <1>6, <1>7, <1>8, <1>9 DEF TaskOk
<1> QED
  BY Zenon, <1>2, <1>4, <1>5, <1>7, <1>10, MovedStep

\* The stream breaks, or the sum is refused.
LEMMA BreaksStep ==
  ASSUME RepInv, NEW n \in Nodes, NEW kind \in Kinds,
         TaskBreaks(n, kind) \/ TaskRefused(n, kind)
  PROVE  RepInv'
<1>1. Failed(n, kind) /\ Rest /\ file' = file /\ cut' = cut
  BY Zenon DEF TaskBreaks, TaskRefused, Rest
<1>2. RepType
  BY Zenon DEF RepInv
<1>3. file' \in [Nodes -> Seq(Message) \cup {NoFile}] /\ FilesGrow
  BY Zenon, <1>1, <1>2, FilesSame DEF RepType
<1> QED
  BY Zenon, <1>1, <1>3, FailedStep

\* A file is invalidated for those who read it.
LEMMA InvalidatedFacts ==
  ASSUME RepType, NEW n \in Nodes
  PROVE  /\ Invalidated(n) \in [Nodes -> [Kinds -> TaskRec \cup {NoTask}]]
         /\ \A m \in Nodes : \A k \in Kinds :
              LET t == task[m][k]
                  u == Invalidated(n)[m][k]
              IN  /\ t = NoTask => u = NoTask
                  /\ t # NoTask => /\ u # NoTask /\ Stays(u, t)
                                   /\ u.valid => t.src # n
<1>1. ASSUME NEW m \in Nodes, NEW k \in Kinds
      PROVE  LET t == task[m][k]
                 u == Invalidated(n)[m][k]
             IN  /\ u \in TaskRec \cup {NoTask}
                 /\ t = NoTask => u = NoTask
                 /\ t # NoTask => /\ u # NoTask /\ Stays(u, t)
                                  /\ u.valid => t.src # n
  <2> DEFINE t == task[m][k]
             u == Invalidated(n)[m][k]
             v == [t EXCEPT !.valid = FALSE]
  <2>1. t \in TaskRec \cup {NoTask} /\ NoTask.pc = "none"
    BY DEF RepType, NoTask
  <2>2. u = IF t # NoTask /\ t.src = n THEN v ELSE t
    BY Zenon DEF Invalidated
  <2> HIDE DEF t, u
  <2>3. CASE t # NoTask /\ t.src = n
    <3>1. v \in TaskRec /\ v.pc # "none" /\ Stays(v, t) /\ v.valid = FALSE
      BY Zenon, <2>1, <2>3 DEF TaskRec, Stays
    <3> HIDE DEF v
    <3>2. v # NoTask
      BY Zenon, <2>1, <3>1
    <3> QED
      BY Zenon, <2>2, <2>3, <3>1, <3>2 DEF t, u
  <2>4. CASE ~(t # NoTask /\ t.src = n)
    BY Zenon, <2>1, <2>2, <2>4 DEF Stays, t, u
  <2> QED
    BY Zenon, <2>3, <2>4
<1>2. Invalidated(n) \in [Nodes -> [Kinds -> TaskRec \cup {NoTask}]]
  <2>1. /\ Invalidated(n) = [m \in Nodes |-> Invalidated(n)[m]]
        /\ \A m \in Nodes : Invalidated(n)[m] = [k \in Kinds |-> Invalidated(n)[m][k]]
    BY Zenon DEF Invalidated
  <2>2. \A m \in Nodes : \A k \in Kinds : Invalidated(n)[m][k] \in TaskRec \cup {NoTask}
    BY Zenon, <1>1
  <2>3. \A m \in Nodes : Invalidated(n)[m] \in [Kinds -> TaskRec \cup {NoTask}]
    BY Zenon, <2>1, <2>2
  <2> QED
    BY Zenon, <2>1, <2>3
<1> QED
  BY Zenon, <1>1, <1>2

\* A file may be cut, but if it counts then this is known.
CutOne(n) ==
    /\ \A m \in Nodes : m # n => file'[m] = file[m]
    /\ file'[n] # NoFile
    /\ cut \subseteq cut'
    /\ n \in cut' \/ ~Counts(n) \/ file'[n] = file[n]

\* A file may be cut where nothing counts on it: everything but the replications
\* is kept.
LEMMA CutKeeps ==
  ASSUME RepInv, NEW n \in Nodes, Rest, CutOne(n)
  PROVE  /\ CopiesSound' /\ PlanSound' /\ ClosingSound' /\ SealedFull' /\ FailedKnown'
         /\ PrimarySound' /\ ChosenSound' /\ AckedSound' /\ DoneExact'
<1>1. /\ UNCHANGED <<MaxSize, state, sealed, plan, local, behind, closing, chosen, published,
                     acked, up, failed>>
      /\ FailedKnown'
  BY Zenon, RestFacts DEF RepInv
<1>2. Closed' <=> Closed
  BY Zenon, <1>1 DEF Closed
<1>3. CopiesSound' /\ PlanSound' /\ SealedFull' /\ PrimarySound'
  BY Zenon, <1>1, <1>2 DEF RepInv, CopiesSound, PlanSound, SealedFull, PrimarySound
<1>4. ClosingSound'
  <2> SUFFICES ASSUME NEW m \in Nodes PROVE ClosingOk(m, closing[m])'
    BY Zenon DEF ClosingSound
  <2>1. ClosingOk(m, closing[m])
    BY Zenon DEF RepInv, ClosingSound
  <2>2. m = n => n \in cut' \/ closing[m] = NoClosing \/ file'[m] = file[m]
    BY Zenon DEF CutOne, Counts
  <2>3. m # n => file'[m] = file[m]
    BY Zenon DEF CutOne
  <2>4. cut \subseteq cut' /\ closing'[m] = closing[m]
    BY Zenon, <1>1 DEF CutOne
  <2> QED
    BY Zenon, <1>1, <1>2, <2>1, <2>2, <2>3, <2>4 DEF ClosingOk
<1>5. AckedSound'
  <2> SUFFICES ASSUME NEW m \in acked PROVE AckedOk(m)'
    BY Zenon, <1>1 DEF AckedSound
  <2>1. AckedOk(m) /\ m[1] \in Nodes
    BY Zenon DEF RepInv, AckedSound, RepType, Message
  <2>2. m[1] = n /\ n \notin failed /\ m \in Range(file[n]) =>
            n \in cut' \/ file'[n] = file[n]
    BY Zenon DEF CutOne, Counts
  <2>3. m[1] # n => file'[m[1]] = file[m[1]]
    BY Zenon, <2>1 DEF CutOne
  <2>4. cut \subseteq cut'
    BY Zenon DEF CutOne
  <2> QED
    BY Zenon, <1>1, <1>2, <2>1, <2>2, <2>3, <2>4 DEF AckedOk
<1>6. DoneExact'
  <2> SUFFICES ASSUME NEW m \in Nodes, IsDone(m)', m \notin cut'
               PROVE  file'[m] = sealed'
    BY Zenon DEF DoneExact
  <2>1. IsDone(m)
    BY Zenon, <1>1 DEF IsDone
  <2>2. m \notin cut /\ file'[m] = file[m]
    BY Zenon, <2>1 DEF CutOne, Counts
  <2> QED
    BY Zenon, <1>1, <2>1, <2>2 DEF RepInv, DoneExact
<1>7. ChosenSound'
  <2> SUFFICES ASSUME NEW m \in Nodes, m \in chosen PROVE PublisherOk(m)'
    BY Zenon, <1>1 DEF ChosenSound
  <2>1. PublisherOk(m)
    BY Zenon DEF RepInv, ChosenSound
  <2>2. Closed /\ m \notin failed => m \in cut' \/ file'[m] = file[m]
    BY Zenon DEF CutOne, Counts
  <2>3. cut \subseteq cut'
    BY Zenon DEF CutOne
  <2> QED
    BY Zenon, <1>1, <1>2, <2>1, <2>2, <2>3 DEF PublisherOk
<1> QED
  BY Zenon, <1>1, <1>3, <1>4, <1>5, <1>6, <1>7

\* The replications, when a file that may have been cut is invalidated.
LEMMA CutTasks ==
  ASSUME RepInv, NEW n \in Nodes, NEW kind \in Kinds, Rest, CutOne(n), RepType',
         \A m \in Nodes : \A k \in Kinds : <<m, k>> # <<n, kind>> =>
             task'[m][k] = Invalidated(n)[m][k],
         TaskOk(n, kind, task[n][kind])'
  PROVE  TasksSound'
<1> SUFFICES ASSUME NEW m \in Nodes, NEW k \in Kinds, <<m, k>> # <<n, kind>>
             PROVE  TaskOk(m, k, task[m][k])'
  BY Zenon DEF TasksSound
<1> DEFINE t == task[m][k]
           u == task'[m][k]
<1>1. UNCHANGED <<MaxSize, local>>
  BY Zenon, RestFacts
<1>2. /\ t = NoTask => u = NoTask
      /\ t # NoTask => u # NoTask /\ Stays(u, t) /\ (u.valid => t.src # n)
  BY InvalidatedFacts DEF RepInv
<1>3. TaskOk(m, k, t) /\ t \in TaskRec \cup {NoTask}
  BY Zenon DEF RepInv, TasksSound, RepType
<1>4. CASE t = NoTask
  BY Zenon, <1>2, <1>4 DEF TaskOk
<1>5. CASE t # NoTask
  <2>1. t.src \in Nodes
    BY Zenon, <1>3, <1>5 DEF TaskRec
  <2>2. /\ u.pc = t.pc /\ u.src = t.src /\ u.end = t.end /\ u.held = t.held
        /\ u.valid => t.valid /\ t.src # n
    BY Zenon, <1>2, <1>5 DEF Stays
  <2>3. /\ file[m] # NoFile => file'[m] # NoFile
        /\ file[t.src] # NoFile => file'[t.src] # NoFile
        /\ t.src # n => file'[t.src] = file[t.src]
    BY Zenon, <2>1 DEF CutOne
  <2>4. t.pc = "close" => m \in cut' \/ file'[m] = file[m]
    BY Zenon DEF CutOne, Counts, At
  <2>5. cut \subseteq cut'
    BY Zenon DEF CutOne
  <2>6. TaskOk(m, k, task[m][k])' <=> (u # NoTask =>
        /\ u.src # m
        /\ u.pc # "start" => file'[m] # NoFile
        /\ u.pc \in {"copy", "write"} => file'[u.src] # NoFile
        /\ k = "closed" /\ u.pc \in {"copy", "write"} /\ u.valid =>
               u.end <= Len(file'[u.src])
        /\ u.pc = "close" /\ Len(u.held) >= MaxSize' => m \in cut' \/ file'[m] = u.held
        /\ u.pc = "close" \/ k = "closed" => IsClosed(local'[m]))
    BY Zenon DEF TaskOk
  <2> HIDE DEF t, u
  <2> QED
    BY Zenon, <1>1, <1>3, <1>5, <2>2, <2>3, <2>4, <2>5, <2>6 DEF TaskOk
<1> QED
  BY Zenon, <1>4, <1>5

\* The file is truncated.
LEMMA TruncatesStep ==
  ASSUME RepInv, NEW n \in Nodes, NEW kind \in Kinds, TaskTruncates(n, kind)
  PROVE  RepInv'
<1> DEFINE t == task[n][kind]
           end == IF kind = "open" THEN MaxSize ELSE Len(OpenFile(t.src))
           u == [t EXCEPT !.pc = "copy", !.valid = TRUE, !.end = end]
           short == SubSeq(file[n], 1, t.size)
           Copies == /\ file[t.src] # NoFile
                     /\ task' = [Invalidated(n) EXCEPT ![n][kind] = u]
                     /\ handled' = handled
           Ends == /\ task' = [Invalidated(n) EXCEPT ![n][kind] = NoTask]
                   /\ handled' = [handled EXCEPT ![n] = FALSE]
<1>1. RepType /\ TaskOk(n, kind, t) /\ Driven
  BY Zenon DEF RepInv, TasksSound
<1>2. /\ At(n, kind, "truncate") /\ Rest
      /\ \/ Failed(n, kind) /\ file' = file /\ cut' = cut
         \/ /\ ~(t.size > Len(file[n]))
            /\ file' = [file EXCEPT ![n] = short]
            /\ cut' = cut \cup {m \in {n} : t.size < Len(file[n]) /\ Counts(n)}
            /\ Copies \/ Ends
  BY Zenon DEF TaskTruncates, Rest
<1> HIDE DEF Copies, Ends
<1>3. t \in TaskRec /\ t # NoTask /\ t.pc = "truncate" /\ t.src \in Nodes /\ t.size \in Nat
  BY Zenon, <1>1, <1>2, TaskFacts
<1>4. /\ file \in [Nodes -> Seq(Message) \cup {NoFile}] /\ NoFile \notin Seq(Message)
      /\ Len(OpenFile(t.src)) \in Nat
      /\ file[t.src] # NoFile => OpenFile(t.src) = file[t.src]
  BY Zenon, <1>1, <1>3, FileFacts
<1>5. file[n] # NoFile /\ file[n] \in Seq(Message) /\ t.src # n
  BY Zenon, <1>1, <1>3, <1>4 DEF TaskOk
<1>6. CASE Failed(n, kind) /\ file' = file /\ cut' = cut
  BY Zenon, <1>1, <1>2, <1>4, <1>6, FilesSame, FailedStep
<1>7. CASE /\ ~(t.size > Len(file[n]))
           /\ file' = [file EXCEPT ![n] = short]
           /\ cut' = cut \cup {m \in {n} : t.size < Len(file[n]) /\ Counts(n)}
           /\ Copies \/ Ends
  <2>1. short \in Seq(Message) /\ (t.size = Len(file[n]) => short = file[n])
    <3> HIDE DEF t
    <3> QED
      BY <1>3, <1>5, <1>7
  <2> HIDE DEF short
  <2>2. /\ file'[n] = short /\ file' \in [Nodes -> Seq(Message) \cup {NoFile}]
        /\ \A m \in Nodes : m # n => file'[m] = file[m]
    BY Zenon, <1>4, <1>7, <2>1
  <2>3. CutOne(n)
    <3>1. t.size < Len(file[n]) \/ t.size = Len(file[n])
      <4> HIDE DEF t
      <4> QED
        BY <1>3, <1>5, <1>7
    <3>2. n \in cut' \/ ~Counts(n) \/ file'[n] = file[n]
      BY Zenon, <1>7, <2>1, <2>2, <3>1
    <3> QED
      BY Zenon, <1>4, <1>7, <2>1, <2>2, <3>2 DEF CutOne
  <2>4. /\ UNCHANGED <<MaxSize, state, sealed, plan, local, behind, closing, chosen, published,
                       acked, up, failed>>
    BY Zenon, <1>2, RestFacts
  <2> DEFINE v == task'[n][kind]
  <2>5. /\ Invalidated(n) \in [Nodes -> [Kinds -> TaskRec \cup {NoTask}]]
        /\ \A m \in Nodes : task[m]["closed"] # NoTask => Invalidated(n)[m]["closed"] # NoTask
    BY Zenon, <1>1, InvalidatedFacts DEF Kinds
  <2>6. ASSUME NEW w \in TaskRec \cup {NoTask},
               task' = [Invalidated(n) EXCEPT ![n][kind] = w]
        PROVE  /\ task' \in [Nodes -> [Kinds -> TaskRec \cup {NoTask}]] /\ task'[n][kind] = w
               /\ \A m \in Nodes : \A k \in Kinds : <<m, k>> # <<n, kind>> =>
                      task'[m][k] = Invalidated(n)[m][k]
    BY Zenon, <2>5, <2>6
  <2>7. CASE Copies
    <3>1. end \in Nat /\ (kind = "closed" => end = Len(file[t.src]))
      BY Zenon, <1>1, <1>4, <2>7 DEF RepType, Copies
    <3>2. u \in TaskRec /\ u.pc = "copy" /\ u.src = t.src /\ u.end = end
      <4> HIDE DEF t, end
      <4> QED
        BY Zenon, <1>3, <3>1 DEF TaskRec
    <3> HIDE DEF u, end
    <3>3. /\ task' \in [Nodes -> [Kinds -> TaskRec \cup {NoTask}]] /\ task'[n][kind] = u
          /\ \A m \in Nodes : \A k \in Kinds : <<m, k>> # <<n, kind>> =>
                 task'[m][k] = Invalidated(n)[m][k]
      BY Zenon, <2>6, <2>7, <3>2 DEF Copies
    <3>4. RepType'
      BY Zenon, <1>1, <2>2, <2>4, <2>7, <3>3 DEF RepType, Copies
    <3>5. TaskOk(n, kind, task[n][kind])'
      <4>1. file'[t.src] = file[t.src] /\ file'[n] # NoFile /\ file[t.src] # NoFile
        BY Zenon, <1>3, <1>4, <1>5, <2>1, <2>2, <2>7 DEF Copies
      <4>2. Len(file[t.src]) \in Nat
        BY Zenon, <1>4, <4>1
      <4>3. kind = "closed" => IsClosed(local[n])
        BY Zenon, <1>1, <1>3 DEF TaskOk
      <4> QED
        BY <1>5, <2>4, <3>1, <3>2, <3>3, <4>1, <4>2, <4>3 DEF TaskOk
    <3>6. TasksSound'
      BY Zenon, <1>2, <2>3, <3>3, <3>4, <3>5, CutTasks
    <3>7. Driven'
      <4>1. u # NoTask
        BY <3>2 DEF NoTask
      <4>2. \A m \in Nodes : task[m]["closed"] # NoTask => task'[m]["closed"] # NoTask
        BY Zenon, <2>5, <3>3, <4>1 DEF Kinds
      <4> QED
        BY Zenon, <1>1, <2>4, <2>7, <4>2 DEF Driven, Closed, IsReplica, Copies
    <3> QED
      BY Zenon, <1>2, <2>3, <3>4, <3>6, <3>7, CutKeeps DEF RepInv
  <2>8. CASE Ends
    <3>3. /\ task' \in [Nodes -> [Kinds -> TaskRec \cup {NoTask}]] /\ task'[n][kind] = NoTask
          /\ \A m \in Nodes : \A k \in Kinds : <<m, k>> # <<n, kind>> =>
                 task'[m][k] = Invalidated(n)[m][k]
      BY Zenon, <2>6, <2>8 DEF Ends
    <3>2. /\ handled' \in [Nodes -> BOOLEAN] /\ ~handled'[n]
          /\ \A m \in Nodes : m # n => handled'[m] = handled[m]
      BY Zenon, <1>1, <2>8 DEF RepType, Ends
    <3>4. RepType'
      BY Zenon, <1>1, <2>2, <2>4, <3>2, <3>3 DEF RepType
    <3>5. TaskOk(n, kind, task[n][kind])'
      BY Zenon, <3>3 DEF TaskOk
    <3>6. TasksSound'
      BY Zenon, <1>2, <2>3, <3>3, <3>4, <3>5, CutTasks
    <3>7. Driven'
      <4>1. \A m \in Nodes : m # n /\ task[m]["closed"] # NoTask => task'[m]["closed"] # NoTask
        BY Zenon, <2>5, <3>3 DEF Kinds
      <4> QED
        BY Zenon, <1>1, <2>4, <3>2, <4>1 DEF Driven, Closed, IsReplica
    <3> QED
      BY Zenon, <1>2, <2>3, <3>4, <3>6, <3>7, CutKeeps DEF RepInv
  <2> QED
    BY Zenon, <1>7, <2>7, <2>8
<1> QED
  BY Zenon, <1>2, <1>6, <1>7
-----------------------------------------------------------------------------
(* The Loop of a node, and its failures. *)

\* The task manager starts what is to run and is not in the map, and cancels the
\* rest.
LEMMA ReconciledFacts ==
  ASSUME NEW t \in TaskRec \cup {NoTask}, NEW wanted \in BOOLEAN, NEW src, wanted => src \in Nodes
  PROVE  LET u == Reconciled(t, wanted, src)
         IN  /\ u \in TaskRec \cup {NoTask}
             /\ t # NoTask => u # NoTask /\ Stays(u, t)
             /\ t = NoTask /\ ~wanted => u = NoTask
             /\ t = NoTask /\ wanted => u # NoTask /\ u.pc = "start" /\ u.src = src
<1>1. NoTask.pc = "none"
  BY Zenon DEF NoTask
<1>2. CASE t # NoTask
  <2> DEFINE v == [t EXCEPT !.cancelled = TRUE]
  <2>1. t \in TaskRec
    BY Zenon, <1>2
  <2>2. v \in TaskRec /\ v.pc # "none" /\ Stays(v, t)
    BY Zenon, <2>1 DEF TaskRec, Stays
  <2> HIDE DEF v
  <2>3. v # NoTask
    BY Zenon, <1>1, <2>2
  <2>4. Stays(t, t)
    BY Zenon DEF Stays
  <2>5. Reconciled(t, wanted, src) = IF wanted THEN t ELSE v
    BY Zenon, <1>2 DEF Reconciled, v
  <2> QED
    BY Zenon, <1>2, <2>1, <2>2, <2>3, <2>4, <2>5
<1>3. CASE t = NoTask /\ wanted
  <2>1. <<>> \in Seq(Message)
    OBVIOUS
  <2>2. Started(src) \in TaskRec /\ Started(src).pc = "start" /\ Started(src).src = src
    BY Zenon, <1>3, <2>1 DEF Started, TaskRec
  <2>3. Started(src) # NoTask
    BY Zenon, <1>1, <2>2
  <2>4. Reconciled(t, wanted, src) = Started(src)
    BY Zenon, <1>3 DEF Reconciled
  <2> QED
    BY Zenon, <1>3, <2>2, <2>3, <2>4
<1>4. CASE t = NoTask /\ ~wanted
  BY Zenon, <1>4 DEF Reconciled
<1> QED
  BY Zenon, <1>2, <1>3, <1>4

\* The node tick.
LEMMA TickStep ==
  ASSUME RepInv, NEW n \in Nodes, Tick(n)
  PROVE  RepInv'
<1> DEFINE closed == IsClosed(local[n])
           replica == n \in Range(local[n].replicating)
           Wanted(kind) == replica /\ closed = (kind = "closed")
<1>1. /\ Rest /\ file' = file /\ cut' = cut /\ handled' = [handled EXCEPT ![n] = TRUE]
      /\ \E src \in IF closed THEN Range(local[n].done) ELSE {local[n].primary} :
            task' = [task EXCEPT ![n] = [kind \in Kinds |->
                        Reconciled(task[n][kind], Wanted(kind), src)]]
  BY Zenon DEF Tick, Rest
<1>2. PICK src \in IF closed THEN Range(local[n].done) ELSE {local[n].primary} :
            task' = [task EXCEPT ![n] = [kind \in Kinds |->
                        Reconciled(task[n][kind], Wanted(kind), src)]]
  BY Zenon, <1>1
<1>3. RepType /\ CopiesSound /\ TasksSound /\ FailedKnown /\ Driven
  BY Zenon DEF RepInv
<1>4. /\ UNCHANGED <<MaxSize, state, sealed, plan, local, behind, closing, chosen, published,
                     acked, up, failed>>
      /\ Quiet /\ FilesGrow /\ FailedKnown'
  BY Zenon, <1>1, <1>3, RestFacts, FilesSame
<1>5. src \in Nodes
  <2>1. local[n] \in SegmentRec
    BY Zenon, <1>3 DEF RepType
  <2>2. local[n].primary \in Nodes \cup {NoNode} /\ local[n].done \in Seq(Nodes)
    BY Zenon, <2>1 DEF SegmentRec
  <2>3. Range(local[n].done) \subseteq Nodes
    BY <2>2 DEF Range
  <2> QED
    BY Zenon, <1>2, <2>2, <2>3 DEF IsClosed
<1>6. replica => src # n
  BY Zenon, <1>2, <1>3 DEF CopiesSound, Apart
<1>7. /\ \A kind \in Kinds : Wanted(kind) \in BOOLEAN
      /\ Wanted("closed") <=> replica /\ closed
  BY Zenon DEF IsClosed
<1> HIDE DEF Wanted, replica, closed
<1>8. /\ \A kind \in Kinds : task'[n][kind] = Reconciled(task[n][kind], Wanted(kind), src)
      /\ \A m \in Nodes : m # n => task'[m] = task[m]
      /\ DOMAIN task' = Nodes /\ DOMAIN task'[n] = Kinds
      /\ task' = [m \in Nodes |-> task'[m]] /\ task'[n] = [kind \in Kinds |-> task'[n][kind]]
  BY Zenon, <1>2, <1>3 DEF RepType
<1>9. ASSUME NEW kind \in Kinds
      PROVE  /\ task'[n][kind] \in TaskRec \cup {NoTask}
             /\ task[n][kind] # NoTask =>
                    task'[n][kind] # NoTask /\ Stays(task'[n][kind], task[n][kind])
             /\ task[n][kind] = NoTask /\ ~Wanted(kind) => task'[n][kind] = NoTask
             /\ task[n][kind] = NoTask /\ Wanted(kind) =>
                    /\ task'[n][kind] # NoTask
                    /\ task'[n][kind].pc = "start" /\ task'[n][kind].src = src
  <2>1. task[n][kind] \in TaskRec \cup {NoTask} /\ Wanted(kind) \in BOOLEAN
    BY <1>3, <1>7 DEF RepType
  <2>2. task'[n][kind] = Reconciled(task[n][kind], Wanted(kind), src)
    BY Zenon, <1>8
  <2> QED
    BY <1>5, <2>1, <2>2, ReconciledFacts
<1>10. task' \in [Nodes -> [Kinds -> TaskRec \cup {NoTask}]]
  <2>1. task'[n] \in [Kinds -> TaskRec \cup {NoTask}]
    BY Zenon, <1>8, <1>9
  <2>2. \A m \in Nodes : task'[m] \in [Kinds -> TaskRec \cup {NoTask}]
    BY Zenon, <1>3, <1>8, <2>1 DEF RepType
  <2> QED
    BY Zenon, <1>8, <2>2
<1>11. /\ handled' \in [Nodes -> BOOLEAN]
       /\ \A m \in Nodes : m # n => handled'[m] = handled[m]
  BY Zenon, <1>1, <1>3 DEF RepType
<1>12. RepType'
  BY Zenon, <1>1, <1>3, <1>4, <1>10, <1>11 DEF RepType
<1>13. TasksSound'
  <2>1. ASSUME NEW kind \in Kinds, task[n][kind] = NoTask, Wanted(kind)
        PROVE  TaskOk(n, kind, task[n][kind])'
    <3>1. kind = "closed" => IsClosed(local[n])
      BY Zenon, <2>1 DEF Wanted, closed
    <3>2. src # n
      BY Zenon, <1>6, <2>1 DEF Wanted
    <3> QED
      BY Zenon, <1>4, <1>9, <2>1, <3>1, <3>2 DEF TaskOk
  <2>2. \A m \in Nodes : \A kind \in Kinds : TaskFollows(m, kind)
    BY <1>8, <1>9, <2>1 DEF TaskFollows
  <2> QED
    BY Zenon, <1>3, <1>4, <1>12, <1>1, <2>2, TasksStep
<1>14. Driven'
  <2>1. "closed" \in Kinds
    BY Zenon DEF Kinds
  <2>2. \A m \in Nodes : m # n => task'[m]["closed"] = task[m]["closed"]
    BY Zenon, <1>8
  <2>3. Closed /\ IsReplica(n) /\ n \notin behind => Wanted("closed")
    BY Zenon, <1>3, <1>7 DEF CopiesSound, Closed, IsReplica, replica, closed
  <2>4. Wanted("closed") => task'[n]["closed"] # NoTask
    BY Zenon, <1>9, <2>1
  <2> QED
    BY Zenon, <1>3, <1>4, <1>11, <2>2, <2>3, <2>4 DEF Driven, Closed, IsReplica
<1> QED
  BY Zenon, <1>4, <1>12, <1>13, <1>14, QuietInv

\* Where a Publish may choose the segment the node is the primary, or has closed
\* the segment.
LEMMA ChoosesSound ==
  ASSUME RepInv, NEW n \in Nodes, Chooses(n)
  PROVE  PublisherOk(n)
<1>1. RepType /\ PrimarySound /\ ChosenSound /\ DoneExact
  BY Zenon DEF RepInv
<1>2. CASE n \in chosen
  BY Zenon, <1>1, <1>2 DEF ChosenSound
<1>3. CASE local[n].primary = n
  <2> SUFFICES ASSUME n \notin failed, Closed PROVE n \in cut \/ file[n] = sealed
    BY Zenon, <1>1, <1>3 DEF PublisherOk, PrimarySound
  <2>1. View(state).done # <<>> /\ View(state).done[1] = n
    BY Zenon, <1>1, <1>3 DEF PrimarySound
  <2>2. View(state) \in SegmentRec
    BY Zenon, <1>1, StateViewed DEF RepType
  <2>3. View(state).done \in Seq(Nodes)
    BY Zenon, <2>2 DEF SegmentRec
  <2>4. IsDone(n)
    BY <2>1, <2>3 DEF IsDone, Range
  <2> QED
    BY Zenon, <1>1, <2>4 DEF DoneExact
<1> QED
  BY Zenon, <1>2, <1>3 DEF Chooses

\* The copy of the state catches up.
LEMMA LearnStep ==
  ASSUME RepInv, NEW n \in Nodes, Learn(n)
  PROVE  RepInv'
<1>1. /\ UNCHANGED <<MaxSize, state, sealed, plan, file, task, closing, published, acked,
                     up, failed, cut>>
      /\ behind' = behind \ {n}
      /\ local' = [local EXCEPT ![n] = View(state)]
      /\ chosen' \subseteq chosen \/ (Chooses(n) /\ chosen' = chosen \cup {n})
      /\ handled' = [handled EXCEPT ![n] = FALSE]
  BY Zenon DEF Learn, leader
<1>2. RepType /\ CopiesSound /\ TasksSound /\ PlanSound /\ PrimarySound /\ FailedKnown /\ Driven
      /\ ClosingSound /\ AckedSound
  BY Zenon DEF RepInv
<1>3. View(state) \in SegmentRec
  BY Zenon, <1>2, StateViewed DEF RepType
<1>4. /\ local' \in [Nodes -> SegmentRec] /\ local'[n] = View(state)
      /\ \A m \in Nodes : m # n => local'[m] = local[m]
      /\ handled' \in [Nodes -> BOOLEAN] /\ ~handled'[n]
      /\ \A m \in Nodes : m # n => handled'[m] = handled[m]
  BY Zenon, <1>1, <1>2, <1>3 DEF RepType
<1>5. RepType'
  BY Zenon, <1>1, <1>2, <1>4 DEF RepType
<1>6. FilesGrow
  BY Zenon, <1>1, <1>2, FilesSame
<1>7. Quiet /\ (Closed' <=> Closed)
  BY Zenon, <1>1, <1>6 DEF Quiet, Closed
<1>8. SealedFull' /\ DoneExact'
  BY Zenon, <1>7, QuietStep
<1>9. CopiesSound'
  BY Zenon, <1>1, <1>2, <1>4, <1>7 DEF CopiesSound, Closed
<1>10. TasksSound'
  <2>1. \A m \in Nodes : IsClosed(local[m]) => IsClosed(local'[m])
    BY Zenon, <1>2, <1>4 DEF CopiesSound, Closed
  <2>2. \A m \in Nodes : \A kind \in Kinds : TaskFollows(m, kind)
    BY Zenon, <1>1 DEF TaskFollows
  <2> QED
    BY Zenon, <1>1, <1>2, <1>5, <1>6, <2>1, <2>2, TasksStep
<1>11. PrimarySound'
  <2>1. n # NoNode
    BY Zenon, ReplicationAssumption
  <2> QED
    BY Zenon, <1>1, <1>2, <1>4, <1>7, <2>1 DEF PrimarySound, Closed, IsClosed
<1>12. Driven'
  BY Zenon, <1>1, <1>2, <1>4, <1>7 DEF Driven, IsReplica
<1>13. PlanSound' /\ FailedKnown'
  BY Zenon, <1>1, <1>2 DEF PlanSound, FailedKnown
<1>14. ClosingSound' /\ AckedSound'
  BY Zenon, <1>1, <1>2, <1>7 DEF ClosingSound, ClosingOk, AckedSound, AckedOk
<1>15. ChosenSound'
  <2>1. \A m \in Nodes : PublisherOk(m) => PublisherOk(m)'
    BY Zenon, <1>7, QuietStep
  <2>2. Chooses(n) => PublisherOk(n)
    BY Zenon, ChoosesSound
  <2> QED
    BY Zenon, <1>1, <2>1, <2>2 DEF RepInv, ChosenSound
<1> QED
  BY Zenon, <1>5, <1>8, <1>9, <1>10, <1>11, <1>12, <1>13, <1>14, <1>15 DEF RepInv
-----------------------------------------------------------------------------
(* Failures, and the leader's decisions. *)

\* What a quiet step keeps in which no copy changes and no sum is taken.
LEMMA CalmStep ==
  ASSUME RepInv, Quiet, local' = local, acked' = acked, chosen' \subseteq chosen,
         \A n \in Nodes : n \in behind => n \in behind',
         \A n \in Nodes : closing'[n] = closing[n] \/ closing'[n] = NoClosing
  PROVE  /\ (Closed' <=> Closed)
         /\ CopiesSound' /\ ClosingSound' /\ SealedFull' /\ PrimarySound'
         /\ ChosenSound' /\ AckedSound' /\ DoneExact'
<1>1. /\ (Closed' <=> Closed) /\ SealedFull' /\ DoneExact' /\ PrimarySound'
      /\ ChosenSound'
      /\ \A n \in Nodes, c \in ClosingRec : ClosingOk(n, c) => ClosingOk(n, c)'
      /\ \A m \in Message : AckedOk(m) => AckedOk(m)'
  BY Zenon, QuietStep
<1>2. /\ \A n \in Nodes : closing[n] \in ClosingRec
      /\ \A m \in acked : m \in Message
  BY Zenon DEF RepInv, RepType
<1>3. ClosingSound'
  <2> SUFFICES ASSUME NEW n \in Nodes PROVE ClosingOk(n, closing[n])'
    BY Zenon DEF ClosingSound
  <2> DEFINE c == closing[n]
  <2>1. ClosingOk(n, c) /\ c \in ClosingRec
    BY Zenon, <1>2 DEF RepInv, ClosingSound
  <2>2. closing'[n] = c \/ closing'[n] = NoClosing
    OBVIOUS
  <2> QED
    BY <1>1, <2>1, <2>2 DEF ClosingOk
<1>4. AckedSound'
  BY Zenon, <1>1, <1>2 DEF RepInv, AckedSound
<1>5. View(state') = View(state)
  BY Zenon DEF Quiet
<1>6. CopiesSound'
  BY Zenon, <1>1, <1>5 DEF RepInv, CopiesSound
<1> QED
  BY Zenon, <1>1, <1>3, <1>4, <1>6

\* A process ends.
LEMMA CrashStep ==
  ASSUME RepInv, NEW n \in Nodes, Crash(n)
  PROVE  RepInv'
<1>1. /\ UNCHANGED <<MaxSize, state, sealed, plan, local, behind, file, published, acked, cut>>
      /\ up' = up \ {n} /\ failed' = failed \cup {n} /\ chosen' \subseteq chosen
      /\ task' = [Invalidated(n) EXCEPT ![n] = [kind \in Kinds |-> NoTask]]
      /\ closing' = [closing EXCEPT ![n] = NoClosing]
      /\ handled' = [handled EXCEPT ![n] = FALSE]
  BY Zenon DEF Crash, leader, copies
<1>2. RepType /\ TasksSound /\ PlanSound /\ FailedKnown /\ Driven
  BY Zenon DEF RepInv
<1>3. Quiet /\ FilesGrow
  BY Zenon, <1>1, <1>2, FilesSame DEF Quiet
<1>4. NoClosing \in ClosingRec
  <2>1. <<>> \in Seq(Message) /\ {} \in SUBSET Message
    OBVIOUS
  <2> QED
    BY Zenon, <2>1 DEF NoClosing, ClosingRec
<1>5. /\ closing' \in [Nodes -> ClosingRec]
      /\ \A m \in Nodes : closing'[m] = closing[m] \/ closing'[m] = NoClosing
      /\ handled' \in [Nodes -> BOOLEAN] /\ ~handled'[n]
      /\ \A m \in Nodes : m # n => handled'[m] = handled[m]
  BY Zenon, <1>1, <1>2, <1>4 DEF RepType
<1>6. /\ Invalidated(n) \in [Nodes -> [Kinds -> TaskRec \cup {NoTask}]]
      /\ \A m \in Nodes : \A k \in Kinds :
           /\ task[m][k] = NoTask => Invalidated(n)[m][k] = NoTask
           /\ task[m][k] # NoTask =>
                Invalidated(n)[m][k] # NoTask /\ Stays(Invalidated(n)[m][k], task[m][k])
  BY Zenon, <1>2, InvalidatedFacts
<1>7. /\ task' \in [Nodes -> [Kinds -> TaskRec \cup {NoTask}]]
      /\ \A k \in Kinds : task'[n][k] = NoTask
      /\ \A m \in Nodes : m # n => task'[m] = Invalidated(n)[m]
  BY Zenon, <1>1, <1>6
<1>8. RepType'
  BY Zenon, <1>1, <1>2, <1>5, <1>7 DEF RepType
<1>9. TasksSound'
  <2>1. \A m \in Nodes : \A k \in Kinds : TaskFollows(m, k)
    BY Zenon, <1>6, <1>7 DEF TaskFollows
  <2> QED
    BY Zenon, <1>1, <1>2, <1>3, <1>8, <2>1, TasksStep
<1>10. /\ (Closed' <=> Closed)
       /\ CopiesSound' /\ ClosingSound' /\ SealedFull' /\ PrimarySound'
       /\ ChosenSound' /\ AckedSound' /\ DoneExact'
  BY Zenon, <1>1, <1>3, <1>5, CalmStep
<1>11. Driven'
  <2>1. "closed" \in Kinds
    BY Zenon DEF Kinds
  <2> QED
    BY <1>1, <1>2, <1>5, <1>6, <1>7, <1>10, <2>1 DEF Driven, IsReplica
<1>12. PlanSound' /\ FailedKnown'
  BY Zenon, <1>1, <1>2 DEF PlanSound, FailedKnown
<1> QED
  BY Zenon, <1>8, <1>9, <1>10, <1>11, <1>12 DEF RepInv

\* A process comes back.
LEMMA RestartStep ==
  ASSUME RepInv, NEW n \in Nodes, Restart(n)
  PROVE  RepInv'
<1>1. /\ UNCHANGED <<MaxSize, state, sealed, plan, local, behind, handled, file, task, closing,
                     chosen, published, acked, failed, cut>>
      /\ up' = up \cup {n}
  BY Zenon DEF Restart, leader, copies
<1>2. RepType /\ TasksSound /\ FailedKnown /\ Driven
  BY Zenon DEF RepInv
<1>3. Quiet
  BY Zenon, <1>1, <1>2, FilesSame DEF Quiet
<1>4. RepType'
  BY Zenon, <1>1, <1>2 DEF RepType
<1>5. TasksSound' /\ Driven'
  BY <1>1, <1>2 DEF TasksSound, TaskOk, Driven, Closed, IsReplica
<1>6. FailedKnown'
  BY Zenon, <1>1, <1>2 DEF FailedKnown
<1> QED
  BY Zenon, <1>1, <1>3, <1>4, <1>5, <1>6, QuietInv

\* A decision, or the close of a publisher, is lost with the leader.
LEMMA LeaderLostStep ==
  ASSUME RepInv, LeaderLost
  PROVE  RepInv'
<1>1. /\ UNCHANGED <<MaxSize, state, sealed, local, behind, handled, file, task,
                     chosen, published, acked, up, failed, cut>>
      /\ plan' = <<>>
      /\ \E lost \in SUBSET Nodes :
            closing' = [n \in Nodes |-> IF n \in lost THEN NoClosing ELSE closing[n]]
  BY Zenon DEF LeaderLost, copies
<1>2. RepType /\ CopiesSound /\ TasksSound /\ FailedKnown /\ Driven
  BY Zenon DEF RepInv
<1>3. Quiet
  BY Zenon, <1>1, <1>2, FilesSame DEF Quiet
<1>4. NoClosing \in ClosingRec
  <2>1. <<>> \in Seq(Message) /\ {} \in SUBSET Message
    OBVIOUS
  <2> QED
    BY Zenon, <2>1 DEF NoClosing, ClosingRec
<1>5. /\ closing' \in [Nodes -> ClosingRec]
      /\ \A m \in Nodes : closing'[m] = closing[m] \/ closing'[m] = NoClosing
  BY Zenon, <1>1, <1>2, <1>4 DEF RepType
<1>6. RepType'
  BY Zenon, <1>1, <1>2, <1>5 DEF RepType
<1>7. TasksSound' /\ Driven' /\ FailedKnown' /\ PlanSound'
  BY <1>1, <1>2
     DEF TasksSound, TaskOk, Driven, Closed, IsReplica, FailedKnown, PlanSound, PlanFor
<1>8. /\ CopiesSound' /\ ClosingSound' /\ SealedFull' /\ PrimarySound'
      /\ ChosenSound' /\ AckedSound' /\ DoneExact'
  BY Zenon, <1>1, <1>3, <1>5, CalmStep
<1> QED
  BY Zenon, <1>6, <1>7, <1>8 DEF RepInv

\* The state of a node changes: a member event, or a suspicion.
LEMMA StatusStep ==
  ASSUME RepInv, NEW n \in Nodes, MemberEvent(n) \/ Suspect(n)
  PROVE  RepInv'
<1> DEFINE status == IF MemberEvent(n) /\ n \in up THEN "alive" ELSE "dead"
<1>1. /\ UNCHANGED <<MaxSize, sealed, plan, local, handled, file, task, closing,
                     chosen, published, acked, up, cut>>
      /\ plan = <<>> /\ behind' = Nodes
      /\ state' = Do(state, UpdateNode(n, status))
      /\ failed \subseteq failed'
      /\ status = "dead" => n \notin up \/ n \in failed'
  <2>1. CASE MemberEvent(n)
    BY Zenon, <2>1 DEF MemberEvent, Apply
  <2>2. CASE Suspect(n) /\ ~MemberEvent(n)
    BY Zenon, <2>2 DEF Suspect, Apply
  <2> QED
    BY Zenon, <2>1, <2>2
<1>2. status \in {"alive", "dead"}
  OBVIOUS
<1> HIDE DEF status
<1>3. RepType /\ CopiesSound /\ TasksSound /\ FailedKnown
  BY Zenon DEF RepInv
<1>4. /\ StateSound(state') /\ state'.nodes = [state.nodes EXCEPT ![n] = status]
      /\ View(state') = View(state)
  BY Zenon, <1>1, <1>2, <1>3, NodeUpdated DEF RepType
<1>5. Quiet
  BY Zenon, <1>1, <1>3, <1>4, FilesSame DEF Quiet
<1>6. RepType'
  BY Zenon, <1>1, <1>3, <1>4 DEF RepType
<1>7. TasksSound' /\ PlanSound'
  BY <1>1, <1>3 DEF TasksSound, TaskOk, PlanSound, PlanFor
<1>8. /\ (Closed' <=> Closed)
      /\ CopiesSound' /\ ClosingSound' /\ SealedFull' /\ PrimarySound'
      /\ ChosenSound' /\ AckedSound' /\ DoneExact'
  BY Zenon, <1>1, <1>5, CalmStep
<1>9. Driven'
  BY Zenon, <1>1 DEF Driven
<1>10. FailedKnown'
  <2>1. state.nodes \in [Nodes -> {"alive", "dead"}]
    BY Zenon, <1>3 DEF RepType, StateSound
  <2> SUFFICES ASSUME NEW m \in Nodes, ~Alive(state', m) \/ m \notin up
               PROVE  m \in failed'
    BY Zenon, <1>1 DEF FailedKnown
  <2>2. m # n => (Alive(state', m) <=> Alive(state, m))
    BY Zenon, <1>4, <2>1 DEF Alive
  <2>3. m = n /\ ~Alive(state', m) => status = "dead"
    BY Zenon, <1>2, <1>4, <2>1 DEF Alive
  <2> QED
    BY Zenon, <1>1, <1>3, <2>2, <2>3 DEF FailedKnown
<1> QED
  BY Zenon, <1>6, <1>7, <1>8, <1>9, <1>10 DEF RepInv
-----------------------------------------------------------------------------
(* Publish. *)

\* The file after a message was written, or found full.
LEMMA ContentFacts ==
  ASSUME RepType, NEW n \in Nodes, NEW message \in Message
  PROVE  LET full == Len(OpenFile(n)) >= MaxSize
             content == IF full THEN OpenFile(n) ELSE Append(OpenFile(n), message)
         IN  /\ content \in Seq(Message) /\ content # NoFile
             /\ full => file[n] = content
             /\ ~full => message \in Range(content)
             /\ file[n] # NoFile => /\ Len(file[n]) <= Len(content)
                                    /\ Range(file[n]) \subseteq Range(content)
                                    /\ Len(file[n]) >= MaxSize => content = file[n]
<1> DEFINE old == OpenFile(n)
           full == Len(old) >= MaxSize
           content == IF full THEN old ELSE Append(old, message)
<1>1. file[n] \in Seq(Message) \cup {NoFile} /\ MaxSize \in Nat \ {0}
  BY Zenon DEF RepType
<1>2. /\ <<>> \in Seq(Message) /\ Len(<<>>) = 0
      /\ NoFile \notin Seq(Message)
  BY ReplicationAssumption DEF Message
<1>3. /\ old \in Seq(Message) /\ Len(old) \in Nat
      /\ file[n] # NoFile => old = file[n]
      /\ file[n] = NoFile => Len(old) = 0
  BY <1>1, <1>2 DEF OpenFile
<1> HIDE DEF old
<1>4. /\ Append(old, message) \in Seq(Message)
      /\ Len(Append(old, message)) = Len(old) + 1
      /\ \A i \in 1..Len(old) : Append(old, message)[i] = old[i]
      /\ Append(old, message)[Len(old) + 1] = message
  BY <1>3
<1>5. /\ Range(old) \subseteq Range(Append(old, message))
      /\ message \in Range(Append(old, message))
  BY <1>3, <1>4 DEF Range
<1>6. content \in Seq(Message) /\ content # NoFile
  BY Zenon, <1>2, <1>3, <1>4
<1>7. full => file[n] = content
  BY <1>1, <1>3
<1>8. ~full => message \in Range(content)
  BY Zenon, <1>5
<1>9. Len(old) <= Len(content) /\ Range(old) \subseteq Range(content)
  BY <1>3, <1>4, <1>5
<1>10. file[n] # NoFile => /\ Len(file[n]) <= Len(content)
                           /\ Range(file[n]) \subseteq Range(content)
                           /\ Len(file[n]) >= MaxSize => content = file[n]
  BY Zenon, <1>3, <1>9
<1> QED
  BY Zenon, <1>6, <1>7, <1>8, <1>10 DEF old

\* A node that takes itself for the primary writes a message: if it has not failed,
\* it is the primary, or the segment it closed is full.
LEMMA PublishStep ==
  ASSUME RepInv, NEW n \in Nodes, Publish(n)
  PROVE  RepInv'
<1> DEFINE message == <<n, published + 1>>
           full == Len(OpenFile(n)) >= MaxSize
           content == IF full THEN OpenFile(n) ELSE Append(OpenFile(n), message)
           sum == [sum |-> content, msgs |-> Written(message, full)]
<1>1. /\ UNCHANGED <<MaxSize, state, sealed, plan, local, behind, handled, task, chosen, up,
                     failed, cut>>
      /\ published' = published + 1 /\ Chooses(n)
      /\ file' = [file EXCEPT ![n] = content]
      /\ IF Len(content) >= MaxSize
         THEN closing' = [closing EXCEPT ![n] = sum] /\ acked' = acked
         ELSE acked' = acked \cup {message} /\ closing' = closing
  BY Zenon DEF Publish, leader, copies
<1>2. RepType /\ CopiesSound /\ TasksSound /\ PlanSound /\ FailedKnown /\ Driven
      /\ PrimarySound /\ DoneExact /\ SealedFull /\ ClosingSound /\ AckedSound
  BY Zenon DEF RepInv
<1>3. message \in Message /\ message[1] = n /\ published' \in Nat
  BY <1>1, <1>2 DEF RepType, Message
<1> HIDE DEF message
<1>4. /\ content \in Seq(Message) /\ content # NoFile
      /\ full => file[n] = content
      /\ ~full => message \in Range(content)
      /\ file[n] # NoFile => /\ Len(file[n]) <= Len(content)
                             /\ Range(file[n]) \subseteq Range(content)
                             /\ Len(file[n]) >= MaxSize => content = file[n]
  BY Zenon, <1>2, <1>3, ContentFacts
<1>5. sum.sum = content /\ sum.msgs = (IF full THEN {} ELSE {message})
  BY Zenon DEF Written
<1>6. sum \in ClosingRec
  <2>1. Written(message, full) \in SUBSET Message
    BY Zenon, <1>3 DEF Written
  <2> QED
    BY Zenon, <1>4, <2>1 DEF ClosingRec
<1>7. full => Len(content) >= MaxSize
  OBVIOUS
<1> HIDE DEF content, full, sum
<1>8. /\ file' \in [Nodes -> Seq(Message) \cup {NoFile}] /\ file'[n] = content
      /\ \A m \in Nodes : m # n => file'[m] = file[m]
  BY Zenon, <1>1, <1>2, <1>4 DEF RepType
<1>9. FilesGrow
  <2> SUFFICES ASSUME NEW m \in Nodes, file[m] # NoFile
               PROVE  /\ file'[m] # NoFile /\ Len(file[m]) <= Len(file'[m])
                      /\ Range(file[m]) \subseteq Range(file'[m])
                      /\ Len(file[m]) >= MaxSize => file'[m] = file[m]
    BY Zenon DEF FilesGrow
  <2>1. CASE m = n
    BY Zenon, <1>4, <1>8, <2>1
  <2>2. CASE m # n
    <3>1. Len(file[m]) \in Nat
      BY <1>2 DEF RepType
    <3> QED
      BY <1>8, <2>2, <3>1
  <2> QED
    BY Zenon, <2>1, <2>2
<1>10. Quiet
  BY Zenon, <1>1, <1>9 DEF Quiet
<1>11. /\ closing' \in [Nodes -> ClosingRec] /\ acked' \subseteq Message
       /\ Len(content) >= MaxSize => closing'[n] = sum
       /\ Len(content) < MaxSize => closing'[n] = closing[n]
       /\ \A m \in Nodes : m # n => closing'[m] = closing[m]
  <2>1. Len(content) \in Nat /\ MaxSize \in Nat
    BY <1>2, <1>4 DEF RepType
  <2> QED
    BY <1>1, <1>2, <1>3, <1>6, <2>1 DEF RepType
<1>12. RepType'
  BY Zenon, <1>1, <1>2, <1>3, <1>8, <1>11 DEF RepType
<1>13. TasksSound'
  <2>1. \A m \in Nodes : \A k \in Kinds : TaskFollows(m, k)
    BY Zenon, <1>1 DEF TaskFollows
  <2> QED
    BY Zenon, <1>1, <1>2, <1>9, <1>12, <2>1, TasksStep
<1>14. /\ (Closed' <=> Closed) /\ SealedFull' /\ DoneExact' /\ PrimarySound'
       /\ ChosenSound'
       /\ \A m \in Nodes, c \in ClosingRec : ClosingOk(m, c) => ClosingOk(m, c)'
       /\ \A m \in Message : AckedOk(m) => AckedOk(m)'
  BY Zenon, <1>1, <1>10, QuietStep
<1>15. n \notin failed /\ ~Closed => View(state).primary = n
  BY Zenon, <1>1, ChoosesSound DEF PublisherOk
\* A segment that is closed already is full.
<1>16. n \notin failed /\ Closed => n \in cut \/ (full /\ content = sealed)
  <2> SUFFICES ASSUME n \notin failed, Closed, n \notin cut
               PROVE  full /\ content = sealed
    OBVIOUS
  <2>1. file[n] = sealed
    BY Zenon, <1>1, ChoosesSound DEF PublisherOk
  <2>2. Len(sealed) >= MaxSize /\ sealed \in Seq(Message)
    BY Zenon, <1>2 DEF SealedFull, RepType
  <2>3. file[n] # NoFile
    BY Zenon, <2>1, <2>2, ReplicationAssumption DEF Message
  <2>4. full
    BY Zenon, <2>1, <2>2, <2>3 DEF full, OpenFile
  <2> QED
    BY Zenon, <1>4, <2>1, <2>4
<1>17. ClosingSound'
  <2> SUFFICES ASSUME NEW m \in Nodes PROVE ClosingOk(m, closing[m])'
    BY Zenon DEF ClosingSound
  <2>1. CASE m = n /\ Len(content) >= MaxSize
    <3>1. closing'[m] = sum
      BY Zenon, <1>11, <2>1
    <3>2. closing'[n].sum = content /\ (\A x \in closing'[n].msgs : x = message /\ ~full)
      BY Zenon, <1>5, <2>1, <3>1
    <3>3. \A x \in closing'[n].msgs : x[1] = n /\ x \in Range(closing'[n].sum)
      BY Zenon, <1>3, <1>4, <3>2
    <3>4. UNCHANGED <<MaxSize, state, sealed, failed, cut>>
      BY Zenon, <1>1
    <3>5. Closed' <=> Closed
      BY Zenon, <1>14
    <3> QED
      BY Zenon, <1>8, <1>15, <1>16, <2>1, <3>2, <3>3, <3>4, <3>5 DEF ClosingOk
  <2>2. CASE ~(m = n /\ Len(content) >= MaxSize)
    <3>1. closing'[m] = closing[m]
      BY <1>4, <1>2, <1>11, <2>2 DEF RepType
    <3> DEFINE c == closing[m]
    <3>2. ClosingOk(m, c) /\ c \in ClosingRec
      BY Zenon, <1>2 DEF ClosingSound, RepType
    <3> QED
      BY <1>14, <3>1, <3>2 DEF ClosingOk
  <2> QED
    BY Zenon, <2>1, <2>2
<1>18. AckedSound'
  <2>1. ASSUME NEW m \in Message, m = message, Len(content) < MaxSize PROVE AckedOk(m)'
    <3>1. UNCHANGED <<state, sealed, failed, cut>> /\ (Closed' <=> Closed)
      BY Zenon, <1>1, <1>14
    <3>2. m[1] = n /\ file'[n] # NoFile /\ ~full /\ m \in Range(file'[n])
      BY <1>2, <1>3, <1>4, <1>7, <1>8, <2>1 DEF RepType
    <3> QED
      BY Zenon, <1>15, <1>16, <3>1, <3>2 DEF AckedOk
  <2>2. \A m \in acked : AckedOk(m)'
    BY Zenon, <1>2, <1>14 DEF AckedSound, RepType
  <2>3. ~(Len(content) >= MaxSize) => Len(content) < MaxSize
    BY <1>2, <1>4 DEF RepType
  <2>4. ASSUME NEW m \in acked' PROVE AckedOk(m)'
    BY Zenon, <1>1, <1>3, <2>1, <2>2, <2>3, <2>4
  <2> QED
    BY Zenon, <2>4 DEF AckedSound
<1>19. CopiesSound' /\ PlanSound' /\ FailedKnown' /\ Driven'
  BY Zenon, <1>1, <1>2, <1>14 DEF CopiesSound, PlanSound, FailedKnown, Driven, IsReplica
<1> QED
  BY Zenon, <1>12, <1>13, <1>14, <1>17, <1>18, <1>19 DEF RepInv
-----------------------------------------------------------------------------
(* The commands that change the segment. *)

\* Every copy is behind after a command.
LEMMA AppliedStep ==
  ASSUME RepInv, UNCHANGED <<local, up, failed>>, behind' = Nodes, plan' = <<>>,
         state'.nodes = state.nodes, Apart(View(state')), Closed => Closed'
  PROVE  CopiesSound' /\ FailedKnown' /\ PlanSound' /\ Driven'
<1>1. CopiesSound /\ FailedKnown
  BY Zenon DEF RepInv
<1>2. CopiesSound'
  BY Zenon, <1>1 DEF CopiesSound
<1>3. \A n \in Nodes : Alive(state', n) <=> Alive(state, n)
  BY Zenon DEF Alive
<1>4. FailedKnown'
  BY Zenon, <1>1, <1>3 DEF FailedKnown
<1> QED
  BY Zenon, <1>2, <1>4 DEF PlanSound, PlanFor, Driven

\* The leader moves the open segment, or its replicas.
LEMMA OpenApplies ==
  ASSUME RepInv, LeaderApplies, ~Closed
  PROVE  RepInv'
<1>1. /\ UNCHANGED <<MaxSize, sealed, local, handled, file, task, closing,
                     chosen, published, acked, up, failed, cut>>
      /\ state' = Do(state, Head(plan)) /\ behind' = Nodes /\ plan # <<>>
      /\ plan' = Tail(plan)
  BY Zenon DEF LeaderApplies, Apply
<1>2. RepType /\ TasksSound /\ PlanSound /\ FailedKnown /\ PrimarySound
      /\ ChosenSound /\ ClosingSound /\ AckedSound
  BY Zenon DEF RepInv
<1>3. PICK p \in Nodes, r \in Seq(Nodes) :
            /\ plan = <<UpdateOpenNodes(Segment, p, r)>>
            /\ p \notin Range(r)
            /\ p = View(state).primary \/ ~Alive(state, View(state).primary)
  BY Zenon, <1>1, <1>2 DEF PlanSound, PlanFor, Closed
<1>4. Head(plan) = UpdateOpenNodes(Segment, p, r) /\ plan' = <<>>
  BY <1>1, <1>3
<1>5. /\ StateSound(state') /\ state'.nodes = state.nodes
      /\ ~IsClosed(View(state')) /\ View(state').primary = p /\ View(state').replicating = r
  BY <1>1, <1>2, <1>4, OpenNodesUpdated DEF RepType, Closed
<1>6. ~Closed' /\ View(state').done = <<>> /\ Range(<<>>) = {}
  BY <1>5, StateViewed DEF Closed, Range
<1>7. Apart(View(state'))
  BY Zenon, <1>3, <1>5, <1>6 DEF Apart
\* A primary that has not failed keeps its place.
<1>8. \A n \in Nodes : View(state).primary = n /\ n \notin failed => View(state').primary = n
  BY Zenon, <1>2, <1>3, <1>5 DEF FailedKnown
<1>9. RepType'
  BY Zenon, <1>1, <1>2, <1>5 DEF RepType
<1>10. CopiesSound' /\ FailedKnown' /\ PlanSound' /\ Driven'
  BY Zenon, <1>1, <1>4, <1>5, <1>7, AppliedStep
<1>11. TasksSound'
  BY <1>1, <1>2 DEF TasksSound, TaskOk
<1>12. ClosingSound'
  BY Zenon, <1>1, <1>2, <1>6, <1>8 DEF ClosingSound, ClosingOk
<1>13. PrimarySound' /\ SealedFull' /\ ChosenSound'
  BY Zenon, <1>1, <1>2, <1>6, <1>8
     DEF PrimarySound, SealedFull, ChosenSound, PublisherOk
<1>14. AckedSound'
  <2>1. \A m \in acked : m[1] \in Nodes
    BY Zenon, <1>2 DEF RepType, Message
  <2> QED
    BY Zenon, <1>1, <1>2, <1>6, <1>8, <2>1 DEF AckedSound, AckedOk
<1>15. DoneExact'
  BY Zenon, <1>6 DEF DoneExact, IsDone
<1> QED
  BY Zenon, <1>9, <1>10, <1>11, <1>12, <1>13, <1>14, <1>15 DEF RepInv

\* The leader moves the replicas of the closed segment.
LEMMA ClosedApplies ==
  ASSUME RepInv, LeaderApplies, Closed
  PROVE  RepInv'
<1>1. /\ UNCHANGED <<MaxSize, sealed, local, handled, file, task, closing,
                     chosen, published, acked, up, failed, cut>>
      /\ state' = Do(state, Head(plan)) /\ behind' = Nodes /\ plan # <<>>
      /\ plan' = Tail(plan)
  BY Zenon DEF LeaderApplies, Apply
<1>2. RepType /\ TasksSound /\ PlanSound /\ FailedKnown /\ PrimarySound
      /\ ChosenSound /\ ClosingSound /\ AckedSound /\ DoneExact /\ SealedFull
  BY Zenon DEF RepInv
<1>3. PICK d \in Seq(Nodes), r \in Seq(Nodes) :
            /\ plan = <<UpdateClosedNodes(Segment, d, r)>>
            /\ Range(d) \cap Range(r) = {}
            /\ Range(d) \subseteq Range(View(state).done)
            /\ View(state).done # <<>> /\ Alive(state, View(state).done[1]) =>
                   d # <<>> /\ d[1] = View(state).done[1]
  BY Zenon, <1>1, <1>2 DEF PlanSound, PlanFor, Closed
<1>4. Head(plan) = UpdateClosedNodes(Segment, d, r) /\ plan' = <<>>
  BY <1>1, <1>3
<1>5. /\ StateSound(state') /\ state'.nodes = state.nodes
      /\ IsClosed(View(state')) /\ View(state').done = d /\ View(state').replicating = r
  BY <1>1, <1>2, <1>4, ClosedNodesUpdated DEF RepType, Closed
<1>6. Closed'
  BY Zenon, <1>5 DEF Closed
<1>7. Apart(View(state'))
  <2>1. Range(r) \subseteq Nodes /\ NoNode \notin Nodes
    BY Zenon, RangeFacts, ReplicationAssumption
  <2> QED
    BY Zenon, <1>3, <1>5, <2>1 DEF Apart, IsClosed
<1>8. RepType'
  BY Zenon, <1>1, <1>2, <1>5 DEF RepType
<1>9. CopiesSound' /\ FailedKnown' /\ PlanSound' /\ Driven'
  BY Zenon, <1>1, <1>4, <1>5, <1>6, <1>7, AppliedStep
<1>10. TasksSound' /\ SealedFull'
  BY <1>1, <1>2 DEF TasksSound, TaskOk, SealedFull
<1>11. ClosingSound' /\ AckedSound' /\ ChosenSound'
  BY Zenon, <1>1, <1>2, <1>6
     DEF ClosingSound, ClosingOk, AckedSound, AckedOk, ChosenSound, PublisherOk
<1>12. PrimarySound'
  BY Zenon, <1>1, <1>2, <1>3, <1>5, <1>6 DEF PrimarySound, FailedKnown
<1>13. DoneExact'
  BY Zenon, <1>1, <1>2, <1>3, <1>5 DEF DoneExact, IsDone
<1> QED
  BY Zenon, <1>8, <1>9, <1>10, <1>11, <1>12, <1>13 DEF RepInv

\* The primary closes the segment.
LEMMA SegmentClosedStep ==
  ASSUME RepInv, NEW n \in Nodes, PublishCloses(n), ~Closed, Closable(state, n, Segment)
  PROVE  RepInv'
<1> DEFINE size == Len(closing[n].sum)
           cmds == CloseSegment(state, n, Segment, size)
<1>1. RepType /\ CopiesSound /\ TasksSound /\ PrimarySound /\ ClosingSound /\ AckedSound
      /\ ChosenSound
  BY Zenon DEF RepInv
<1>2. closing[n] \in ClosingRec /\ closing[n] # NoClosing
  BY Zenon, <1>1 DEF RepType, PublishCloses
<1>3. closing[n].sum \in Seq(Message) /\ closing[n].msgs \subseteq Message /\ size \in Nat
  BY <1>2 DEF ClosingRec
<1>4. /\ cmds # <<>>
      /\ StateSound(Do(state, cmds[1])) /\ Do(state, cmds[1]).nodes = state.nodes
      /\ IsClosed(View(Do(state, cmds[1]))) /\ View(Do(state, cmds[1])).done = <<n>>
      /\ View(Do(state, cmds[1])).replicating = View(state).replicating
  BY Zenon, <1>1, <1>3, SegmentIsClosed DEF RepType, Closed
<1>5. /\ UNCHANGED <<MaxSize, plan, local, handled, file, task, chosen, published, up, failed, cut>>
      /\ closing' = [closing EXCEPT ![n] = NoClosing] /\ plan = <<>>
      /\ state' = Do(state, cmds[1]) /\ behind' = Nodes
      /\ sealed' = closing[n].sum /\ acked' = acked \cup closing[n].msgs
  BY Zenon, <1>4 DEF PublishCloses, Apply
<1> HIDE DEF cmds, size
<1>6. /\ StateSound(state') /\ state'.nodes = state.nodes
      /\ IsClosed(View(state')) /\ View(state').done = <<n>> /\ Closed'
      /\ View(state').replicating = View(state).replicating
  BY Zenon, <1>4, <1>5 DEF Closed
<1>7. View(state).primary = n
  <2>1. DOMAIN state.closed = {} /\ View(state) = state.open[Segment]
    BY Zenon, <1>1, StateViewed DEF RepType, Closed
  <2> QED
    BY Zenon, <2>1 DEF Closable
<1>8. Range(<<n>>) = {n} /\ <<n>> # <<>> /\ <<n>>[1] = n
  BY DEF Range
<1>9. Apart(View(state'))
  <2>1. View(state) \in SegmentRec
    BY Zenon, <1>1, StateViewed DEF RepType
  <2>2. View(state).replicating \in Seq(Nodes)
    BY Zenon, <2>1 DEF SegmentRec
  <2>3. Range(View(state).replicating) \subseteq Nodes /\ NoNode \notin Nodes
    BY Zenon, <2>2, RangeFacts, ReplicationAssumption
  <2> QED
    BY Zenon, <1>1, <1>6, <1>7, <1>8, <2>3 DEF CopiesSound, Apart, IsClosed
<1>10. NoClosing \in ClosingRec
  <2>1. <<>> \in Seq(Message) /\ {} \in SUBSET Message
    OBVIOUS
  <2> QED
    BY Zenon, <2>1 DEF NoClosing, ClosingRec
<1>11. /\ closing' \in [Nodes -> ClosingRec] /\ closing'[n] = NoClosing
       /\ \A m \in Nodes : m # n => closing'[m] = closing[m]
  BY Zenon, <1>1, <1>5, <1>10 DEF RepType
<1>12. RepType'
  BY Zenon, <1>1, <1>3, <1>5, <1>6, <1>11 DEF RepType
<1>13. CopiesSound' /\ FailedKnown' /\ PlanSound' /\ Driven'
  BY Zenon, <1>5, <1>6, <1>9, AppliedStep
<1>14. TasksSound'
  BY <1>1, <1>5 DEF TasksSound, TaskOk
<1>15. /\ size >= MaxSize /\ (n \in cut \/ file[n] = closing[n].sum)
       /\ \A m \in closing[n].msgs : m[1] = n /\ m \in Range(closing[n].sum)
  BY Zenon, <1>1, <1>2 DEF ClosingSound, ClosingOk, size
<1>16. SealedFull' /\ DoneExact'
  BY Zenon, <1>5, <1>6, <1>8, <1>15 DEF SealedFull, DoneExact, IsDone, size
\* Every other node that is about to close the segment has failed.
<1>17. ClosingSound'
  <2> SUFFICES ASSUME NEW m \in Nodes PROVE ClosingOk(m, closing[m])'
    BY Zenon DEF ClosingSound
  <2>1. CASE m = n
    BY Zenon, <1>11, <2>1 DEF ClosingOk
  <2>2. CASE m # n
    <3>1. ClosingOk(m, closing[m])
      BY Zenon, <1>1 DEF ClosingSound
    <3>2. closing'[m] = closing[m]
      BY Zenon, <1>11, <2>2
    <3>3. closing[m] # NoClosing => m \in failed
      BY Zenon, <1>7, <2>2, <3>1 DEF ClosingOk
    <3>4. UNCHANGED <<MaxSize, file, failed, cut>>
      BY Zenon, <1>5
    <3> QED
      BY Zenon, <3>1, <3>2, <3>3, <3>4 DEF ClosingOk
  <2> QED
    BY Zenon, <2>1, <2>2
<1>18. PrimarySound' /\ ChosenSound'
  BY Zenon, <1>1, <1>5, <1>6, <1>7, <1>8, <1>15
     DEF PrimarySound, ChosenSound, PublisherOk
<1>19. AckedSound'
  <2> SUFFICES ASSUME NEW m \in acked', m[1] \notin failed \cup cut
               PROVE  m \in Range(closing[n].sum)
    BY Zenon, <1>5, <1>6 DEF AckedSound, AckedOk
  <2>1. CASE m \in acked
    <3>1. View(state).primary = m[1] /\ m \in Range(file[m[1]])
      BY Zenon, <1>1, <2>1 DEF AckedSound, AckedOk
    <3> QED
      BY Zenon, <1>7, <1>15, <3>1
  <2> QED
    BY Zenon, <1>5, <1>15, <2>1
<1> QED
  BY Zenon, <1>12, <1>13, <1>14, <1>16, <1>17, <1>18, <1>19 DEF RepInv

\* The segment is closed already, or the node is not its primary.
LEMMA NotClosedStep ==
  ASSUME RepInv, NEW n \in Nodes, PublishCloses(n),
         Closed \/ ~Closable(state, n, Segment)
  PROVE  RepInv'
<1>1. RepType /\ CopiesSound /\ TasksSound /\ PlanSound /\ FailedKnown /\ Driven
      /\ ClosingSound /\ AckedSound
  BY Zenon DEF RepInv
<1>2. closing[n] \in ClosingRec /\ closing[n] # NoClosing
  BY Zenon, <1>1 DEF RepType, PublishCloses
<1>3. closing[n].msgs \subseteq Message
  BY Zenon, <1>2 DEF ClosingRec
<1>4. Closed => Segment \notin DOMAIN state.open
  BY Zenon, <1>1, StateViewed DEF RepType, Closed
<1>5. /\ UNCHANGED <<MaxSize, state, sealed, plan, local, behind, handled, file, task,
                     chosen, published, up, failed, cut>>
      /\ closing' = [closing EXCEPT ![n] = NoClosing]
      /\ acked' = acked \/ (Closed /\ acked' = acked \cup closing[n].msgs)
  BY Zenon, <1>4 DEF PublishCloses, CloseSegment
<1>6. NoClosing \in ClosingRec
  <2>1. <<>> \in Seq(Message) /\ {} \in SUBSET Message
    OBVIOUS
  <2> QED
    BY Zenon, <2>1 DEF NoClosing, ClosingRec
<1>7. /\ closing' \in [Nodes -> ClosingRec]
      /\ \A m \in Nodes : closing'[m] = closing[m] \/ closing'[m] = NoClosing
  BY Zenon, <1>1, <1>5, <1>6 DEF RepType
<1>8. RepType'
  BY Zenon, <1>1, <1>3, <1>5, <1>7 DEF RepType
<1>9. Quiet
  BY Zenon, <1>1, <1>5, FilesSame DEF Quiet
<1>10. /\ (Closed' <=> Closed) /\ SealedFull' /\ DoneExact' /\ PrimarySound'
       /\ ChosenSound'
       /\ \A m \in Message : AckedOk(m) => AckedOk(m)'
  BY Zenon, <1>5, <1>9, QuietStep
<1>11. ClosingSound'
  <2> SUFFICES ASSUME NEW m \in Nodes PROVE ClosingOk(m, closing[m])'
    BY Zenon DEF ClosingSound
  <2>1. ClosingOk(m, closing[m]) /\ (closing'[m] = closing[m] \/ closing'[m] = NoClosing)
    BY Zenon, <1>1, <1>7 DEF ClosingSound
  <2>2. UNCHANGED <<MaxSize, state, sealed, file, failed, cut>>
    BY Zenon, <1>5
  <2> QED
    BY Zenon, <1>10, <2>1, <2>2 DEF ClosingOk
<1>12. AckedSound'
  <2>1. ASSUME Closed, NEW m \in closing[n].msgs PROVE AckedOk(m)'
    <3>1. /\ m[1] = n /\ m \in Range(closing[n].sum)
          /\ n \notin failed => n \in cut \/ closing[n].sum = sealed
      BY Zenon, <1>1, <1>2, <2>1 DEF ClosingSound, ClosingOk
    <3> QED
      BY Zenon, <1>5, <1>10, <2>1, <3>1 DEF AckedOk
  <2>2. \A m \in acked : AckedOk(m)'
    BY Zenon, <1>1, <1>10 DEF AckedSound, RepType
  <2>3. ASSUME NEW m \in acked' PROVE AckedOk(m)'
    BY Zenon, <1>5, <2>1, <2>2, <2>3
  <2> QED
    BY Zenon, <2>3 DEF AckedSound
<1>13. CopiesSound' /\ PlanSound' /\ FailedKnown' /\ Driven'
  BY Zenon, <1>1, <1>5, <1>10 DEF CopiesSound, PlanSound, FailedKnown, Driven, IsReplica
<1>14. TasksSound'
  BY <1>1, <1>5 DEF TasksSound, TaskOk
<1> QED
  BY Zenon, <1>8, <1>10, <1>11, <1>12, <1>13, <1>14 DEF RepInv
=============================================================================
