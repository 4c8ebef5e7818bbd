-------------------------- MODULE ConsumerGroupProofs --------------------------
(***************************************************************************)
(* Proofs about ConsumerGroup, for every capacity, every number of         *)
(* subscriptions, segments and ackers, and every bound.                    *)
(***************************************************************************)
EXTENDS ConsumerGroup, TLAPS

\* What the buffer and the commits on their way keep true between them: none of
\* the four parts is preserved without the others.
Safe == SlotsConsistent /\ BufferOrdered /\ NothingLost /\ CommitSafe

\* A consume task inside Offer has a message to offer.
OfferHasMessage ==
    \A g \in Segments :
        offerPc[g] \in {"locking", "waiting"} => cursor[g] < MaxOffset

Inv == TypeOK /\ OfferHasMessage /\ Safe

\* The capacity is positive: NewGroup refuses n < 1.
LEMMA NType == N \in Nat /\ N > 0
  BY GroupAssumption

-----------------------------------------------------------------------------
(* The ring.                                                               *)

\* Distance numbers the slots from 0 to N, each with a number of its own, and
\* Nth is its inverse.
LEMMA DistanceFacts ==
    ASSUME read \in Index
    PROVE  /\ \A i \in Index : Distance(i) \in 0..N
           /\ \A i, j \in Index : Distance(i) = Distance(j) => i = j
           /\ \A k \in 0..N : Nth(k) \in Index /\ Distance(Nth(k)) = k
  <1>1. \A i \in Index : Distance(i) \in 0..N
    BY NType DEF Index, Distance
  <1>2. \A i, j \in Index : Distance(i) = Distance(j) => i = j
    BY NType DEF Index, Distance
  <1>3. \A k \in 0..N : Nth(k) \in Index /\ Distance(Nth(k)) = k
    BY NType DEF Index, Distance, Nth
  <1> QED BY Zenon, <1>1, <1>2, <1>3

\* Succ moves write one slot on: a ring that is not full holds one slot more.
LEMMA PutFacts ==
    ASSUME read \in Index, write \in Index, ~Full,
           write' = Succ(write), read' = read
    PROVE  /\ write' \in Index
           /\ \A i \in Index : Distance(i)' = Distance(i)
           /\ \A i \in Index : Held(i)' <=> Held(i) \/ i = write
  <1>1. write' \in Index
    BY NType DEF Index, Succ
  <1>2. \A i \in Index : Distance(i)' = Distance(i)
    BY Zenon DEF Distance
  <1>3. Distance(write)' = Distance(write) + 1
    BY NType DEF Index, Succ, Distance, Full
  <1>4. ASSUME NEW i \in Index
        PROVE  Held(i)' <=> Held(i) \/ i = write
    <2>1. Distance(i) \in 0..N /\ Distance(write) \in 0..N
      BY Zenon, DistanceFacts
    <2>2. Distance(i) = Distance(write) => i = write
      BY Zenon, DistanceFacts
    <2>3. Held(i)' <=> Distance(i) < Distance(write) + 1
      BY Zenon, <1>2, <1>3 DEF Held
    <2> QED BY <2>1, <2>2, <2>3, NType DEF Held
  <1> QED BY Zenon, <1>1, <1>2, <1>4

\* When read moves on to r, the slots before r are no longer held and the
\* others get closer by the same number.
LEMMA PopFacts ==
    ASSUME read \in Index, write \in Index,
           NEW r \in Index, Distance(r) <= Distance(write),
           read' = r, write' = write
    PROVE  /\ \A i \in Index : Distance(i) >= Distance(r) =>
                  Distance(i)' = Distance(i) - Distance(r)
           /\ \A i \in Index : Held(i)' <=> Held(i) /\ Distance(i) >= Distance(r)
  <1>1. \A i \in Index : Distance(i) >= Distance(r) =>
            Distance(i)' = Distance(i) - Distance(r)
    BY NType DEF Index, Distance
  <1>2. \A i \in Index : Distance(i) < Distance(r) =>
            Distance(i)' = Distance(i) + N + 1 - Distance(r)
    BY NType DEF Index, Distance
  <1>3. Distance(write)' = Distance(write) - Distance(r)
    BY NType DEF Index, Distance
  <1>4. ASSUME NEW i \in Index
        PROVE  Held(i)' <=> Held(i) /\ Distance(i) >= Distance(r)
    <2>1. /\ Distance(i) \in 0..N
          /\ Distance(write) \in 0..N
          /\ Distance(r) \in 0..N
      BY Zenon, DistanceFacts
    <2>2. Held(i)' <=> Distance(i)' < Distance(write) - Distance(r)
      BY Zenon, <1>3 DEF Held
    <2>3. CASE Distance(i) >= Distance(r)
      BY <1>1, <2>1, <2>2, <2>3, NType DEF Held
    <2>4. CASE Distance(i) < Distance(r)
      BY <1>2, <2>1, <2>2, <2>4, NType DEF Held
    <2> QED BY <2>1, <2>3, <2>4, NType
  <1> QED BY Zenon, <1>1, <1>4

-----------------------------------------------------------------------------
(* Safe is preserved.                                                      *)

\* By steps that lease or release slots, or leave the buffer alone.
LEMMA RelabelSafe ==
    ASSUME Safe,
           \A i \in Index : messages'[i].msg = messages[i].msg,
           \A i \in Index : messages'[i].sub = Acked => messages[i].sub = Acked,
           \A i \in Index : ~Held(i) => messages'[i] = messages[i],
           UNCHANGED <<read, write, taskVars, commitVars>>
    PROVE  Safe'
  <1>1. /\ read' = read /\ write' = write
        /\ cursor' = cursor /\ taken' = taken
        /\ sending' = sending /\ commits' = commits /\ acked' = acked
    BY Zenon DEF taskVars, commitVars
  <1>2. /\ \A i \in Index : Distance(i)' = Distance(i)
        /\ \A i \in Index : Held(i)' <=> Held(i)
    BY Zenon, <1>1 DEF Distance, Held
  <1>3. SlotsConsistent'
    BY Zenon, <1>1, <1>2 DEF Safe, SlotsConsistent, EmptySlot
  <1>4. BufferOrdered'
    BY <1>1, <1>2 DEF Safe, BufferOrdered
  <1>5. NothingLost'
    <2>1. \A m : InBuffer(m) => InBuffer(m)'
      BY Zenon, <1>2 DEF InBuffer
    <2> QED BY Zenon, <1>1, <2>1 DEF Safe, NothingLost
  <1>6. CommitSafe'
    BY Zenon, <1>1 DEF Safe, CommitSafe, AckedBelow
  <1> QED BY Zenon, <1>3, <1>4, <1>5, <1>6 DEF Safe

\* By Offer: what is before the new slot in its segment is acked or in the ring,
\* because nothing is lost.
LEMMA OfferPutSafe ==
    ASSUME Inv, NEW g \in Segments, OfferPut(g)
    PROVE  Safe'
  <1> DEFINE new == [segment |-> g, offset |-> cursor[g] + 1]
  <1>1. /\ read \in Index /\ write \in Index /\ ~Full
        /\ write' = Succ(write) /\ read' = read
        /\ messages \in [Index -> Slot]
        /\ messages' = [messages EXCEPT ![write] =
               [msg |-> new, sub |-> Ready, seqNo |-> 0]]
        /\ cursor \in [Segments -> 0..MaxOffset]
        /\ cursor' = [cursor EXCEPT ![g] = @ + 1]
        /\ taken' = taken
        /\ sending' = sending /\ commits' = commits /\ acked' = acked
    BY Zenon DEF Inv, TypeOK, OfferPut, commitVars
  <1>2. /\ \A i \in Index : Distance(i)' = Distance(i)
        /\ \A i \in Index : Held(i)' <=> Held(i) \/ i = write
    BY Zenon, <1>1, PutFacts
  <1>3. ~Held(write)
    BY <1>1, DistanceFacts DEF Held
  <1>4. cursor[g] \in 0..MaxOffset /\ cursor[g] < MaxOffset /\ MaxOffset \in Nat
    BY Zenon, <1>1, GroupAssumption DEF Inv, OfferHasMessage, OfferPut
  <1>5. new \in Message
    BY <1>4 DEF Message
  <1>6. /\ messages'[write] = [msg |-> new, sub |-> Ready, seqNo |-> 0]
        /\ \A i \in Index : i # write => messages'[i] = messages[i]
    BY Zenon, <1>1
  <1>7. SlotsConsistent'
    <2> SUFFICES ASSUME NEW i \in Index
                 PROVE  IF Held(i)'
                        THEN /\ messages'[i].msg \in Message
                             /\ messages'[i].sub = Acked => messages'[i].msg \in acked
                        ELSE messages'[i] = EmptySlot
      BY Zenon, <1>1 DEF SlotsConsistent, EmptySlot, Message
    <2>1. CASE i = write
      BY <2>1, <1>2, <1>5, <1>6, GroupAssumption
    <2>2. CASE i # write
      BY Zenon, <2>2, <1>2, <1>6 DEF Inv, Safe, SlotsConsistent
    <2> QED BY Zenon, <2>1, <2>2
  <1>8. BufferOrdered'
    <2> SUFFICES ASSUME NEW k \in Index, Held(k)',
                        NEW o \in 1..(messages'[k].msg.offset - 1),
                        [segment |-> messages'[k].msg.segment, offset |-> o] \notin acked
                 PROVE  \E i \in Index :
                            /\ Distance(i)' < Distance(k)'
                            /\ messages'[i].msg =
                                   [segment |-> messages'[k].msg.segment, offset |-> o]
      BY <1>1 DEF BufferOrdered
    <2>1. CASE k = write
      <3>1. messages'[k].msg = new
        BY <2>1, <1>6
      <3>2. o \in 1..cursor[g]
        BY <3>1, <1>4
      <3>3. PICK i \in Index : Held(i) /\ messages[i].msg = [segment |-> g, offset |-> o]
        BY <3>1, <3>2 DEF Inv, Safe, NothingLost, InBuffer
      <3>4. i # write /\ Distance(i) < Distance(write)
        BY Zenon, <3>3, <1>3 DEF Held
      <3> QED BY <2>1, <3>1, <3>3, <3>4, <1>2, <1>6
    <2>2. CASE k # write
      <3>1. Held(k) /\ messages'[k] = messages[k]
        BY Zenon, <2>2, <1>2, <1>6
      <3>2. PICK i \in Index :
                /\ Distance(i) < Distance(k)
                /\ messages[i].msg = [segment |-> messages[k].msg.segment, offset |-> o]
        BY Zenon, <3>1 DEF Inv, Safe, BufferOrdered
      <3>3. Distance(i) \in 0..N /\ Distance(k) \in 0..N /\ Distance(write) \in 0..N
        BY Zenon, <1>1, DistanceFacts
      <3>4. i # write
        BY <3>1, <3>2, <3>3, NType DEF Held
      <3> QED BY Zenon, <3>1, <3>2, <3>4, <1>2, <1>6
    <2> QED BY Zenon, <2>1, <2>2
  <1>9. NothingLost'
    <2> SUFFICES ASSUME NEW h \in Segments, NEW o \in 1..cursor'[h],
                        [segment |-> h, offset |-> o] \notin acked
                 PROVE  \E i \in Index :
                            /\ Held(i)'
                            /\ messages'[i].msg = [segment |-> h, offset |-> o]
      BY Zenon, <1>1 DEF NothingLost, InBuffer
    <2>1. CASE h = g /\ o = cursor[g] + 1
      BY Zenon, <2>1, <1>1, <1>2, <1>6
    <2>2. CASE ~(h = g /\ o = cursor[g] + 1)
      <3>1. o \in 1..cursor[h]
        BY <2>2, <1>1, <1>4
      <3>2. PICK i \in Index : Held(i) /\ messages[i].msg = [segment |-> h, offset |-> o]
        BY Zenon, <3>1 DEF Inv, Safe, NothingLost, InBuffer
      <3> QED BY Zenon, <3>2, <1>2, <1>3, <1>6
    <2> QED BY Zenon, <2>1, <2>2
  <1>10. CommitSafe'
    BY Zenon, <1>1 DEF Inv, Safe, CommitSafe, AckedBelow
  <1> QED BY Zenon, <1>7, <1>8, <1>9, <1>10 DEF Safe

\* Steps that leave the ring alone keep what is said of it alone.
LEMMA RingFrame ==
    ASSUME SlotsConsistent, BufferOrdered,
           UNCHANGED <<messages, read, write, acked>>
    PROVE  /\ SlotsConsistent' /\ BufferOrdered'
           /\ \A m : InBuffer(m)' <=> InBuffer(m)
  <1>1. /\ \A i \in Index : Distance(i)' = Distance(i)
        /\ \A i \in Index : Held(i)' <=> Held(i)
    BY Zenon DEF Distance, Held
  <1>2. SlotsConsistent'
    BY Zenon, <1>1 DEF SlotsConsistent, EmptySlot
  <1>3. BufferOrdered'
    BY <1>1 DEF BufferOrdered
  <1>4. \A m : InBuffer(m)' <=> InBuffer(m)
    BY Zenon, <1>1 DEF InBuffer
  <1> QED BY Zenon, <1>2, <1>3, <1>4

\* By the restart of a consume task: what it skips is committed, hence acked.
LEMMA RestartSafe ==
    ASSUME Inv, NEW g \in Segments, RestartConsumeTask(g)
    PROVE  Safe'
  <1>1. /\ messages' = messages /\ read' = read /\ write' = write
        /\ cursor \in [Segments -> 0..MaxOffset]
        /\ cursor' = [cursor EXCEPT ![g] = taken[g]] /\ taken' = taken
        /\ sending' = sending /\ commits' = commits /\ acked' = acked
    BY Zenon DEF Inv, TypeOK, RestartConsumeTask, groupVars, commitVars
  <1>2. /\ SlotsConsistent' /\ BufferOrdered'
        /\ \A m : InBuffer(m)' <=> InBuffer(m)
    BY Zenon, <1>1, RingFrame DEF Inv, Safe
  <1>3. NothingLost'
    <2>1. AckedBelow(g, taken[g])
      BY Zenon DEF Inv, Safe, CommitSafe
    <2> QED BY Zenon, <1>1, <1>2, <2>1 DEF Inv, Safe, NothingLost, AckedBelow
  <1>4. CommitSafe'
    BY Zenon, <1>1 DEF Inv, Safe, CommitSafe, AckedBelow
  <1> QED BY Zenon, <1>2, <1>3, <1>4 DEF Safe

\* By Ack: the slots it pops are acked, and so is what comes before them.
LEMMA AckSafe ==
    ASSUME Inv, NEW a \in Ackers, NEW s \in Subscriptions, NEW n \in 1..MaxSeq,
           Ack(a, s, n)
    PROVE  Safe'
  <1>1. PICK i \in Index, r \in Index :
            /\ LeasedAs(i, s, n)
            /\ AckedUpTo([messages EXCEPT ![i] = [@ EXCEPT !.sub = Acked, !.seqNo = 0]], r)
            /\ messages' =
                   Popped([messages EXCEPT ![i] = [@ EXCEPT !.sub = Acked, !.seqNo = 0]], r)
            /\ read' = r
            /\ sending' = [sending EXCEPT ![a] =
                   IF closed THEN <<>> ELSE CommitsBefore(r)]
            /\ acked' = acked \cup {messages[i].msg}
    BY Zenon DEF Ack
  <1> DEFINE ring == [messages EXCEPT ![i] = [@ EXCEPT !.sub = Acked, !.seqNo = 0]]
  <1>2. /\ read \in Index /\ write \in Index /\ write' = write
        /\ messages \in [Index -> Slot]
        /\ cursor' = cursor /\ taken' = taken /\ commits' = commits
        /\ sending \in [Ackers -> Seq(Message)]
    BY Zenon DEF Inv, TypeOK, Ack, taskVars
  <1>3. /\ \A j \in Index : Distance(j) \in 0..N
        /\ Distance(r) <= Distance(write)
    BY Zenon, <1>1, <1>2, DistanceFacts DEF AckedUpTo
  <1>4. /\ \A j \in Index : Distance(j) >= Distance(r) =>
               Distance(j)' = Distance(j) - Distance(r)
        /\ \A j \in Index : Held(j)' <=> Held(j) /\ Distance(j) >= Distance(r)
    BY Zenon, <1>1, <1>2, <1>3, PopFacts
  <1>5. /\ \A j \in Index : ring[j].msg = messages[j].msg
        /\ \A j \in Index : j # i => ring[j] = messages[j]
        /\ \A j \in Index : Distance(j) < Distance(r) => messages'[j] = EmptySlot
        /\ \A j \in Index : Distance(j) >= Distance(r) => messages'[j] = ring[j]
    BY <1>1, <1>2, <1>3 DEF Popped, Slot
  <1>6. \A j \in Index : Held(j) /\ ring[j].sub = Acked => messages[j].msg \in acked'
    BY Zenon, <1>1, <1>5 DEF Inv, Safe, SlotsConsistent
  <1>7. \A j \in Index : Distance(j) < Distance(r) => messages[j].msg \in acked'
    <2>1. \A j \in Index : Distance(j) < Distance(r) => Held(j) /\ ring[j].sub = Acked
      BY <1>1, <1>2, <1>3 DEF AckedUpTo, Held
    <2> QED BY Zenon, <2>1, <1>6
  <1>8. acked \subseteq acked'
    BY Zenon, <1>1
  <1>9. SlotsConsistent'
    <2> SUFFICES ASSUME NEW j \in Index
                 PROVE  IF Held(j)'
                        THEN /\ messages'[j].msg \in Message
                             /\ messages'[j].sub = Acked => messages'[j].msg \in acked'
                        ELSE messages'[j] = EmptySlot
      BY Zenon DEF SlotsConsistent, EmptySlot, Message
    <2>1. CASE Distance(j) < Distance(r)
      BY <2>1, <1>3, <1>4, <1>5
    <2>2. CASE Distance(j) >= Distance(r) /\ Held(j)
      BY Zenon, <2>2, <1>4, <1>5, <1>6 DEF Inv, Safe, SlotsConsistent
    <2>3. CASE Distance(j) >= Distance(r) /\ ~Held(j)
      <3>1. j # i
        BY Zenon, <2>3, <1>1 DEF LeasedAs
      <3> QED BY Zenon, <3>1, <2>3, <1>4, <1>5 DEF Inv, Safe, SlotsConsistent
    <2> QED BY <2>1, <2>2, <2>3, <1>3
  <1>10. BufferOrdered'
    <2> SUFFICES ASSUME NEW k \in Index, Held(k)',
                        NEW o \in 1..(messages'[k].msg.offset - 1),
                        [segment |-> messages'[k].msg.segment, offset |-> o] \notin acked'
                 PROVE  \E j \in Index :
                            /\ Distance(j)' < Distance(k)'
                            /\ messages'[j].msg =
                                   [segment |-> messages'[k].msg.segment, offset |-> o]
      BY Zenon DEF BufferOrdered
    <2>1. /\ Held(k) /\ Distance(k) >= Distance(r)
          /\ messages'[k].msg = messages[k].msg
      BY Zenon, <1>4, <1>5
    <2>2. PICK j \in Index :
              /\ Distance(j) < Distance(k)
              /\ messages[j].msg = [segment |-> messages[k].msg.segment, offset |-> o]
      BY Zenon, <2>1, <1>8 DEF Inv, Safe, BufferOrdered
    <2>3. ~(Distance(j) < Distance(r))
      BY Zenon, <2>1, <2>2, <1>7
    <2>4. Distance(j)' < Distance(k)'
      BY <2>1, <2>2, <2>3, <1>3, <1>4
    <2>5. messages'[j].msg = messages[j].msg
      <3>1. Distance(j) >= Distance(r)
        BY <2>3, <1>3, NType
      <3> QED BY Zenon, <3>1, <1>5
    <2> QED BY Zenon, <2>1, <2>2, <2>4, <2>5
  <1>11. NothingLost'
    <2> SUFFICES ASSUME NEW h \in Segments, NEW o \in 1..cursor[h],
                        [segment |-> h, offset |-> o] \notin acked'
                 PROVE  \E j \in Index :
                            /\ Held(j)'
                            /\ messages'[j].msg = [segment |-> h, offset |-> o]
      BY Zenon, <1>2 DEF NothingLost, InBuffer
    <2>1. PICK j \in Index : Held(j) /\ messages[j].msg = [segment |-> h, offset |-> o]
      BY Zenon, <1>8 DEF Inv, Safe, NothingLost, InBuffer
    <2>2. ~(Distance(j) < Distance(r))
      BY Zenon, <2>1, <1>7
    <2>3. Distance(j) >= Distance(r)
      BY <2>2, <1>3, NType
    <2> QED BY Zenon, <2>1, <2>3, <1>4, <1>5
  <1>12. CommitSafe'
    <2> DEFINE Covered(c) ==
                   \A o \in 1..c.offset : [segment |-> c.segment, offset |-> o] \in acked'
    <2>1. \A c : AckedBelow(c.segment, c.offset) => Covered(c)
      BY Zenon, <1>8 DEF AckedBelow
    <2>2. ASSUME NEW k \in 1..Distance(r)
          PROVE  Covered(CommitsBefore(r)[k])
      <3> DEFINE p == Nth(k - 1)
      <3>1. k - 1 \in 0..N
        BY <1>3, NType
      <3>2. p \in Index /\ Distance(p) = k - 1
        BY Zenon, <3>1, <1>2, DistanceFacts
      <3>3. CommitsBefore(r)[k] = messages[p].msg
        BY Zenon DEF CommitsBefore
      <3>4. Distance(p) < Distance(r) /\ Held(p)
        BY <3>2, <1>2, <1>3 DEF Held
      <3>5. messages[p].msg \in Message /\ messages[p].msg \in acked'
        BY Zenon, <3>2, <3>4, <1>7 DEF Inv, Safe, SlotsConsistent
      <3> SUFFICES ASSUME NEW o \in 1..messages[p].msg.offset
                   PROVE  [segment |-> messages[p].msg.segment, offset |-> o] \in acked'
        BY Zenon, <3>3
      <3>6. CASE o = messages[p].msg.offset
        BY Zenon, <3>5, <3>6 DEF Message
      <3>7. CASE o # messages[p].msg.offset
        <4>1. o \in 1..(messages[p].msg.offset - 1)
          BY <3>5, <3>7 DEF Message
        <4>2. \/ [segment |-> messages[p].msg.segment, offset |-> o] \in acked
              \/ \E j \in Index :
                     /\ Distance(j) < Distance(p)
                     /\ messages[j].msg = [segment |-> messages[p].msg.segment, offset |-> o]
          BY Zenon, <4>1, <3>2, <3>4 DEF Inv, Safe, BufferOrdered
        <4>3. \A j \in Index : Distance(j) < Distance(p) => Distance(j) < Distance(r)
          BY <3>2, <3>4, <1>3
        <4> QED BY Zenon, <4>2, <4>3, <1>7, <1>8
      <3> QED BY Zenon, <3>6, <3>7
    <2>3. ASSUME NEW b \in Ackers, NEW k \in DOMAIN sending'[b]
          PROVE  Covered(sending'[b][k])
      <3>1. CASE b = a /\ closed
        BY <3>1, <1>1, <1>2
      <3>2. CASE b = a /\ ~closed
        <4>1. sending'[b] = CommitsBefore(r) /\ k \in 1..Distance(r)
          BY Zenon, <3>2, <1>1, <1>2 DEF CommitsBefore
        <4> QED BY Zenon, <4>1, <2>2
      <3>3. CASE b # a
        <4>1. sending'[b] = sending[b]
          BY Zenon, <3>3, <1>1, <1>2
        <4>2. AckedBelow(sending[b][k].segment, sending[b][k].offset)
          BY Zenon, <4>1 DEF Inv, Safe, CommitSafe
        <4> QED BY Zenon, <4>1, <4>2, <2>1
      <3> QED BY Zenon, <3>1, <3>2, <3>3
    <2>4. \A k \in DOMAIN commits : Covered(commits[k])
      BY Zenon, <2>1 DEF Inv, Safe, CommitSafe
    <2>5. \A g \in Segments : \A o \in 1..taken[g] :
              [segment |-> g, offset |-> o] \in acked'
      BY Zenon, <1>8 DEF Inv, Safe, CommitSafe, AckedBelow
    <2> QED BY Zenon, <2>3, <2>4, <2>5, <1>2 DEF CommitSafe, AckedBelow
  <1> QED BY Zenon, <1>9, <1>10, <1>11, <1>12 DEF Safe

\* By the send of a commit: it only moves, from Ack to the channel.
LEMMA SendCommitSafe ==
    ASSUME Inv, NEW a \in Ackers, SendCommit(a)
    PROVE  Safe'
  <1>1. /\ messages' = messages /\ read' = read /\ write' = write
        /\ cursor' = cursor /\ taken' = taken /\ acked' = acked
        /\ commits' = Append(commits, Head(sending[a]))
        /\ sending' = [sending EXCEPT ![a] = Tail(@)]
        /\ sending[a] # <<>>
        /\ sending \in [Ackers -> Seq(Message)]
        /\ commits \in Seq(Message)
    BY Zenon DEF Inv, TypeOK, SendCommit, groupVars, taskVars
  <1>2. /\ SlotsConsistent' /\ BufferOrdered'
        /\ \A m : InBuffer(m)' <=> InBuffer(m)
    BY Zenon, <1>1, RingFrame DEF Inv, Safe
  <1>3. NothingLost'
    BY Zenon, <1>1, <1>2 DEF Inv, Safe, NothingLost
  <1>4. CommitSafe'
    <2>1. \A g, o : AckedBelow(g, o)' <=> AckedBelow(g, o)
      BY Zenon, <1>1 DEF AckedBelow
    <2>2. sending[a] \in Seq(Message) /\ 1 \in DOMAIN sending[a]
      BY <1>1
    <2>3. AckedBelow(Head(sending[a]).segment, Head(sending[a]).offset)
      BY <2>2 DEF Inv, Safe, CommitSafe
    <2>4. ASSUME NEW k \in DOMAIN commits'
          PROVE  AckedBelow(commits'[k].segment, commits'[k].offset)
      <3>1. CASE k = Len(commits) + 1
        BY <3>1, <2>3, <1>1
      <3>2. CASE k # Len(commits) + 1
        <4>1. k \in DOMAIN commits /\ commits'[k] = commits[k]
          BY <3>2, <1>1
        <4> QED BY Zenon, <4>1 DEF Inv, Safe, CommitSafe
      <3> QED BY Zenon, <3>1, <3>2
    <2>5. ASSUME NEW b \in Ackers, NEW k \in DOMAIN sending'[b]
          PROVE  AckedBelow(sending'[b][k].segment, sending'[b][k].offset)
      <3>1. CASE b = a
        <4>1. k + 1 \in DOMAIN sending[a] /\ sending'[b][k] = sending[a][k + 1]
          BY <3>1, <2>2, <1>1
        <4> QED BY Zenon, <4>1 DEF Inv, Safe, CommitSafe
      <3>2. CASE b # a
        BY Zenon, <3>2, <1>1 DEF Inv, Safe, CommitSafe
      <3> QED BY Zenon, <3>1, <3>2
    <2> QED BY Zenon, <2>4, <2>5, <1>1 DEF Inv, Safe, CommitSafe, AckedBelow
  <1> QED BY Zenon, <1>2, <1>3, <1>4 DEF Safe

\* By the group task reading a commit: it keeps the larger offset.
LEMMA TakeCommitSafe ==
    ASSUME Inv, TakeCommit
    PROVE  Safe'
  <1>1. /\ messages' = messages /\ read' = read /\ write' = write
        /\ cursor' = cursor /\ acked' = acked /\ sending' = sending
        /\ commits' = Tail(commits)
        /\ taken \in [Segments -> 0..MaxOffset]
        /\ taken' = [taken EXCEPT ![Head(commits).segment] =
               IF Head(commits).offset > @ THEN Head(commits).offset ELSE @]
        /\ commits \in Seq(Message) /\ commits # <<>>
    BY Zenon DEF Inv, TypeOK, TakeCommit, CommitPending, groupVars
  <1>2. /\ SlotsConsistent' /\ BufferOrdered'
        /\ \A m : InBuffer(m)' <=> InBuffer(m)
    BY Zenon, <1>1, RingFrame DEF Inv, Safe
  <1>3. NothingLost'
    BY Zenon, <1>1, <1>2 DEF Inv, Safe, NothingLost
  <1>4. CommitSafe'
    <2>1. 1 \in DOMAIN commits /\ Head(commits) = commits[1]
      BY <1>1
    <2>2. AckedBelow(Head(commits).segment, Head(commits).offset)
      BY Zenon, <2>1 DEF Inv, Safe, CommitSafe
    <2>3. ASSUME NEW g \in Segments
          PROVE  AckedBelow(g, taken'[g])
      <3>1. taken'[g] = taken[g] \/ (g = Head(commits).segment
                                     /\ taken'[g] = Head(commits).offset)
        BY Zenon, <1>1
      <3>2. AckedBelow(g, taken[g])
        BY Zenon DEF Inv, Safe, CommitSafe
      <3> QED BY Zenon, <3>1, <3>2, <2>2
    <2>4. ASSUME NEW k \in DOMAIN commits'
          PROVE  AckedBelow(commits'[k].segment, commits'[k].offset)
      <3>1. k + 1 \in DOMAIN commits /\ commits'[k] = commits[k + 1]
        BY <1>1
      <3> QED BY Zenon, <3>1 DEF Inv, Safe, CommitSafe
    <2> QED BY Zenon, <2>3, <2>4, <1>1 DEF Inv, Safe, CommitSafe, AckedBelow
  <1> QED BY Zenon, <1>2, <1>3, <1>4 DEF Safe

-----------------------------------------------------------------------------
(* Types.                                                                  *)

\* A broadcast leaves every goroutine at one of its places.
LEMMA WakeType ==
    ASSUME NEW S, NEW V, NEW pc \in [S -> V], "locking" \in V
    PROVE  Wake(pc) \in [S -> V]
  BY Zenon DEF Wake

\* So does the broadcast every state change of the group ends with.
LEMMA BroadcastType ==
    ASSUME TypeOK, Broadcast
    PROVE  /\ nextPc' \in [Subscriptions ->
                  {"none", "idle", "locking", "waiting", "done", "gone"} \cup Copying]
           /\ offerPc' \in [Segments -> {"idle", "locking", "waiting", "stopped"}]
  BY Zenon, WakeType DEF TypeOK, Broadcast

\* A slot after Message.Reset is a slot.
LEMMA EmptySlotType == EmptySlot \in Slot
  BY Zenon DEF EmptySlot, Slot

\* The record updates of the actions stay in their types.
LEMMA SubscriptionUpdates ==
    ASSUME NEW c \in SubscriptionType
    PROVE  /\ \A size, limit \in Nat, blocking \in BOOLEAN :
                  [c EXCEPT !.size = size, !.maxMessages = limit,
                            !.blocking = blocking] \in SubscriptionType
           /\ \A q \in Nat, f \in Int :
                  [c EXCEPT !.seq = q, !.inflight = f] \in SubscriptionType
           /\ [c EXCEPT !.inflight = c.inflight - 1] \in SubscriptionType
           /\ [c EXCEPT !.closed = TRUE] \in SubscriptionType
           /\ \A size \in Nat : [c EXCEPT !.size = size] \in SubscriptionType
  <1>1. \A size, limit \in Nat, blocking \in BOOLEAN :
            [c EXCEPT !.size = size, !.maxMessages = limit,
                      !.blocking = blocking] \in SubscriptionType
    BY Zenon DEF SubscriptionType
  <1>2. \A q \in Nat, f \in Int :
            [c EXCEPT !.seq = q, !.inflight = f] \in SubscriptionType
    BY Zenon DEF SubscriptionType
  <1>3. [c EXCEPT !.inflight = c.inflight - 1] \in SubscriptionType
    <2>1. c.inflight - 1 \in Int
      BY DEF SubscriptionType
    <2>2. \A f \in Int : [c EXCEPT !.inflight = f] \in SubscriptionType
      BY Zenon DEF SubscriptionType
    <2> QED BY Zenon, <2>1, <2>2
  <1>4. [c EXCEPT !.closed = TRUE] \in SubscriptionType
    BY Zenon DEF SubscriptionType
  <1>5. \A size \in Nat : [c EXCEPT !.size = size] \in SubscriptionType
    BY Zenon DEF SubscriptionType
  <1> QED BY Zenon, <1>1, <1>2, <1>3, <1>4, <1>5

\* A leased, released or acked slot is a slot.
LEMMA SlotUpdates ==
    ASSUME NEW x \in Slot
    PROVE  /\ \A sub \in Subscriptions \cup {Ready, Acked}, n \in Nat :
                  [x EXCEPT !.sub = sub, !.seqNo = n] \in Slot
           /\ \A y \in Slot :
                  /\ [x EXCEPT !.msg = y.msg] \in Slot
                  /\ [x EXCEPT !.sub = y.sub, !.seqNo = y.seqNo] \in Slot
  BY Zenon DEF Slot

\* The steps of Offer keep the types.
LEMMA OfferType ==
    ASSUME Inv, NEW g \in Segments, OfferStep(g)
    PROVE  TypeOK'
  <1>1. CASE OfferEnter(g)
    BY Zenon, <1>1 DEF Inv, TypeOK, OfferEnter, groupVars, subscriptionVars, taskVars, commitVars
  <1>2. CASE OfferWait(g)
    BY Zenon, <1>2 DEF Inv, TypeOK, OfferWait, groupVars, subscriptionVars, taskVars, commitVars
  <1>3. CASE OfferPut(g)
    <2>1. cursor[g] + 1 \in 1..MaxOffset
      BY <1>3, GroupAssumption DEF Inv, TypeOK, OfferHasMessage, OfferPut
    <2>2. [msg |-> [segment |-> g, offset |-> cursor[g] + 1],
           sub |-> Ready, seqNo |-> 0] \in Slot
      BY Zenon, <2>1 DEF Slot, Message
    <2>3. messages' \in [Index -> Slot]
      BY Zenon, <1>3, <2>2 DEF Inv, TypeOK, OfferPut
    <2>4. write' \in Index
      BY Zenon, <1>3, PutFacts DEF Inv, TypeOK, OfferPut
    <2>5. cursor' \in [Segments -> 0..MaxOffset]
      BY <1>3, <2>1 DEF Inv, TypeOK, OfferPut
    <2>6. /\ Wake(nextPc) \in [Subscriptions ->
                 {"none", "idle", "locking", "waiting", "done", "gone"} \cup Copying]
          /\ Wake(offerPc) \in [Segments -> {"idle", "locking", "waiting", "stopped"}]
      BY Zenon, WakeType DEF Inv, TypeOK
    <2> QED BY Zenon, <1>3, <2>3, <2>4, <2>5, <2>6
            DEF Inv, TypeOK, OfferPut, subscriptionVars, commitVars
  <1> QED BY Zenon, <1>1, <1>2, <1>3 DEF OfferStep

\* The steps of Next keep the types.
LEMMA NextStepType ==
    ASSUME Inv, NEW s \in Subscriptions, NextStep(s)
    PROVE  TypeOK'
  <1> USE DEF Inv, TypeOK, Copying, groupVars, subscriptionVars, taskVars, commitVars
  <1>1. CASE NextEnter(s)
    BY Zenon, <1>1 DEF NextEnter
  <1>2. CASE NextLease(s)
    <2>1. /\ subscription[s] \in SubscriptionType
          /\ subscription[s].seq + 1 \in Nat
          /\ subscription[s].inflight + 1 \in Int
      BY DEF SubscriptionType
    <2>2. [subscription[s] EXCEPT !.seq = subscription[s].seq + 1,
                                  !.inflight = subscription[s].inflight + 1]
              \in SubscriptionType
      BY Zenon, <2>1, SubscriptionUpdates
    <2>3. subscription' \in [Subscriptions -> SubscriptionType]
      BY Zenon, <1>2, <2>2 DEF NextLease
    <2>4. \A i \in Index :
              [messages[i] EXCEPT !.sub = s, !.seqNo = subscription[s].seq + 1] \in Slot
      BY Zenon, <2>1, SlotUpdates
    <2>5. messages' \in [Index -> Slot] /\ slot' \in [Subscriptions -> Index]
      <3>1. PICK i \in Index :
                /\ messages' = [messages EXCEPT ![i] =
                       [messages[i] EXCEPT !.sub = s, !.seqNo = subscription[s].seq + 1]]
                /\ slot' = [slot EXCEPT ![s] = i]
        BY Zenon, <1>2 DEF NextLease
      <3> QED BY Zenon, <2>4, <3>1
    <2> QED BY Zenon, <1>2, <2>3, <2>5 DEF NextLease
  <1>3. CASE NextReturnError(s)
    BY Zenon, <1>3 DEF NextReturnError
  <1>4. CASE NextWait(s)
    BY Zenon, <1>4 DEF NextWait
  <1>5. CASE NextCopyBody(s)
    BY Zenon, <1>5, SlotUpdates DEF NextCopyBody
  <1>6. CASE NextCopyLease(s)
    BY Zenon, <1>6, SlotUpdates DEF NextCopyLease
  <1>7. CASE NextReturn(s)
    BY Zenon, <1>7, EmptySlotType DEF NextReturn
  <1> QED BY Zenon, <1>1, <1>2, <1>3, <1>4, <1>5, <1>6, <1>7 DEF NextStep

\* Subscribing, resizing, closing and Nack keep the types.
LEMMA SubscriptionStepType ==
    ASSUME Inv, NEW s \in Subscriptions
    PROVE  /\ (\E size \in Sizes, limit \in Limits, blocking \in Blockings :
                   Subscribe(s, size, limit, blocking)) => TypeOK'
           /\ (\E size \in Resizes : SetSize(s, size)) => TypeOK'
           /\ CloseOnContextDone(s) => TypeOK'
           /\ CloseOnReturn(s) => TypeOK'
           /\ \A n \in 1..MaxSeq : Nack(s, n) => TypeOK'
  <1> USE DEF Inv, TypeOK, groupVars, subscriptionVars, taskVars, commitVars
  <1> DEFINE NextPcType == [Subscriptions ->
                 {"none", "idle", "locking", "waiting", "done", "gone"} \cup Copying]
             OfferPcType == [Segments -> {"idle", "locking", "waiting", "stopped"}]
  <1>1. Wake(nextPc) \in NextPcType /\ Wake(offerPc) \in OfferPcType
    BY Zenon, WakeType
  <1>2. subscription[s] \in SubscriptionType
    OBVIOUS
  <1>3. \A x \in Slot : [x EXCEPT !.sub = Ready, !.seqNo = 0] \in Slot
    BY Zenon, SlotUpdates
  <1>4. ASSUME NEW size \in Sizes, NEW limit \in Limits, NEW blocking \in Blockings,
               Subscribe(s, size, limit, blocking)
        PROVE  TypeOK'
    <2>1. [subscription[s] EXCEPT !.size = size, !.maxMessages = limit,
                                  !.blocking = blocking] \in SubscriptionType
      BY Zenon, <1>2, SubscriptionUpdates, GroupAssumption
    <2>2. subscription' \in [Subscriptions -> SubscriptionType]
      BY Zenon, <1>4, <2>1 DEF Subscribe
    <2>3. nextPc' \in NextPcType /\ offerPc' \in OfferPcType
      BY Zenon, <1>1, <1>4 DEF Subscribe
    <2> QED BY Zenon, <1>4, <2>2, <2>3 DEF Subscribe
  <1>5. ASSUME NEW size \in Resizes, SetSize(s, size)
        PROVE  TypeOK'
    <2>1. [subscription[s] EXCEPT !.size = size] \in SubscriptionType
      BY Zenon, <1>2, SubscriptionUpdates, GroupAssumption
    <2>2. subscription' \in [Subscriptions -> SubscriptionType]
      BY Zenon, <1>5, <2>1 DEF SetSize
    <2> QED BY Zenon, <1>1, <1>5, <2>2 DEF SetSize, Broadcast
  <1>6. Close(s) => /\ messages' \in [Index -> Slot]
                    /\ subscription' \in [Subscriptions -> SubscriptionType]
    <2>1. [subscription[s] EXCEPT !.closed = TRUE] \in SubscriptionType
      BY Zenon, <1>2, SubscriptionUpdates
    <2>2. ASSUME Close(s)
          PROVE  messages' \in [Index -> Slot]
      <3>1. \A i \in Index : messages[i] \in Slot
                /\ [messages[i] EXCEPT !.sub = Ready, !.seqNo = 0] \in Slot
        BY Zenon, <1>3
      <3>2. messages' = [i \in Index |->
                IF Held(i) /\ messages[i].sub = s
                THEN [messages[i] EXCEPT !.sub = Ready, !.seqNo = 0]
                ELSE messages[i]]
        BY Zenon, <2>2 DEF Close
      <3> HIDE DEF Inv, TypeOK
      <3> QED BY Zenon, <3>1, <3>2
    <2>3. Close(s) => subscription' = [subscription EXCEPT ![s] =
                          [subscription[s] EXCEPT !.closed = TRUE]]
      BY Zenon DEF Close
    <2>4. Close(s) => subscription' \in [Subscriptions -> SubscriptionType]
      BY Zenon, <2>1, <2>3
    <2> QED BY Zenon, <2>2, <2>4
  <1>7. CloseOnContextDone(s) => TypeOK'
    BY Zenon, <1>1, <1>6 DEF CloseOnContextDone, Broadcast
  <1>8. CloseOnReturn(s) => TypeOK'
    BY Zenon, <1>1, <1>6 DEF CloseOnReturn
  <1>9. ASSUME NEW n \in 1..MaxSeq, Nack(s, n)
        PROVE  TypeOK'
    <2>1. PICK i \in Index :
              messages' = [messages EXCEPT ![i] =
                  [messages[i] EXCEPT !.sub = Ready, !.seqNo = 0]]
      BY Zenon, <1>9 DEF Nack
    <2>2. messages' \in [Index -> Slot]
      BY Zenon, <2>1, <1>3
    <2>3. [subscription[s] EXCEPT !.inflight = subscription[s].inflight - 1]
              \in SubscriptionType
      BY Zenon, <1>2, SubscriptionUpdates
    <2>4. subscription' \in [Subscriptions -> SubscriptionType]
      BY Zenon, <1>9, <2>3 DEF Nack
    <2> QED BY Zenon, <1>1, <1>9, <2>2, <2>4 DEF Nack, Broadcast
  <1> QED BY Zenon, <1>4, <1>5, <1>7, <1>8, <1>9

\* An Ack puts only messages of held slots into its commits.
LEMMA AckType ==
    ASSUME Inv, NEW a \in Ackers, NEW s \in Subscriptions, NEW n \in 1..MaxSeq,
           Ack(a, s, n)
    PROVE  TypeOK'
  <1>1. PICK i \in Index, r \in Index :
            /\ LeasedAs(i, s, n)
            /\ AckedUpTo([messages EXCEPT ![i] = [@ EXCEPT !.sub = Acked, !.seqNo = 0]], r)
            /\ messages' =
                   Popped([messages EXCEPT ![i] = [@ EXCEPT !.sub = Acked, !.seqNo = 0]], r)
            /\ read' = r
            /\ sending' = [sending EXCEPT ![a] =
                   IF closed THEN <<>> ELSE CommitsBefore(r)]
            /\ acked' = acked \cup {messages[i].msg}
    BY Zenon DEF Ack
  <1>2. /\ read \in Index /\ write \in Index
        /\ messages \in [Index -> Slot]
        /\ sending \in [Ackers -> Seq(Message)]
        /\ acked \subseteq Message
        /\ subscription[s] \in SubscriptionType
        /\ subscription \in [Subscriptions -> SubscriptionType]
    BY Zenon DEF Inv, TypeOK
  <1>3. messages' \in [Index -> Slot]
    <2>1. [messages[i] EXCEPT !.sub = Acked, !.seqNo = 0] \in Slot
      BY Zenon, <1>2, SlotUpdates
    <2> QED BY Zenon, <1>1, <1>2, <2>1, EmptySlotType DEF Popped
  <1>4. acked' \subseteq Message
    BY Zenon, <1>1, <1>2 DEF Inv, Safe, SlotsConsistent, LeasedAs
  <1>5. CommitsBefore(r) \in Seq(Message)
    <2>1. Distance(r) \in 0..N /\ Distance(write) \in 0..N /\ Distance(r) <= Distance(write)
      BY Zenon, <1>1, <1>2, DistanceFacts DEF AckedUpTo
    <2>2. ASSUME NEW k \in 1..Distance(r)
          PROVE  messages[Nth(k - 1)].msg \in Message
      <3>1. k - 1 \in 0..N /\ k - 1 < Distance(write)
        BY <2>1, NType
      <3>2. Nth(k - 1) \in Index /\ Held(Nth(k - 1))
        BY Zenon, <3>1, <1>2, DistanceFacts DEF Held
      <3> QED BY Zenon, <3>2 DEF Inv, Safe, SlotsConsistent
    <2>3. CommitsBefore(r) \in [1..Distance(r) -> Message]
      BY Zenon, <2>2 DEF CommitsBefore
    <2> QED BY <2>1, <2>3, NType
  <1>6. sending' \in [Ackers -> Seq(Message)]
    BY <1>1, <1>2, <1>5
  <1>7. [subscription[s] EXCEPT !.inflight = subscription[s].inflight - 1]
            \in SubscriptionType
    BY Zenon, <1>2, SubscriptionUpdates
  <1>8. subscription' \in [Subscriptions -> SubscriptionType]
    BY Zenon, <1>2, <1>7 DEF Ack
  <1> QED BY Zenon, <1>1, <1>3, <1>4, <1>6, <1>8, BroadcastType DEF Inv, TypeOK, Ack, taskVars

\* The sends and receives of commits, a restart and Group.Close keep the types.
LEMMA CommitStepType ==
    ASSUME Inv
    PROVE  /\ \A a \in Ackers : SendCommit(a) => TypeOK'
           /\ TakeCommit => TypeOK'
           /\ \A g \in Segments : RestartConsumeTask(g) => TypeOK'
           /\ CloseGroup => TypeOK'
  <1> USE DEF Inv, TypeOK, groupVars, subscriptionVars, taskVars, commitVars
  <1>1. ASSUME NEW a \in Ackers, SendCommit(a)
        PROVE  TypeOK'
    <2>1. sending[a] \in Seq(Message) /\ sending[a] # <<>>
      BY Zenon, <1>1 DEF SendCommit
    <2>2. commits' \in Seq(Message) /\ sending' \in [Ackers -> Seq(Message)]
      BY <1>1, <2>1 DEF SendCommit
    <2> QED BY Zenon, <1>1, <2>2 DEF SendCommit
  <1>2. ASSUME TakeCommit
        PROVE  TypeOK'
    <2>1. commits' \in Seq(Message) /\ Head(commits) \in Message
      BY <1>2 DEF TakeCommit, CommitPending
    <2>2. taken' \in [Segments -> 0..MaxOffset]
      BY <1>2, <2>1, GroupAssumption DEF TakeCommit, Message
    <2> QED BY Zenon, <1>2, <2>1, <2>2 DEF TakeCommit
  <1>3. ASSUME NEW g \in Segments, RestartConsumeTask(g)
        PROVE  TypeOK'
    BY Zenon, <1>3 DEF RestartConsumeTask
  <1>4. CloseGroup => TypeOK'
    BY Zenon, BroadcastType DEF CloseGroup
  <1> QED BY Zenon, <1>1, <1>2, <1>3, <1>4

\* Every step keeps the types.
LEMMA TypeStep ==
    ASSUME Inv, [Next]_vars
    PROVE  TypeOK'
  <1>1. CASE UNCHANGED vars
    BY Zenon, <1>1 DEF Inv, TypeOK, vars, groupVars, subscriptionVars, taskVars, commitVars
  <1>2. CASE \E g \in Segments : OfferStep(g) \/ RestartConsumeTask(g)
    BY Zenon, <1>2, OfferType, CommitStepType
  <1>3. ASSUME NEW s \in Subscriptions,
               \/ \E size \in Sizes, limit \in Limits, blocking \in Blockings :
                      Subscribe(s, size, limit, blocking)
               \/ \E size \in Resizes : SetSize(s, size)
               \/ NextStep(s)
               \/ CloseOnContextDone(s) \/ CloseOnReturn(s)
               \/ \E n \in 1..MaxSeq : Nack(s, n) \/ \E a \in Ackers : Ack(a, s, n)
        PROVE  TypeOK'
    BY Zenon, <1>3, SubscriptionStepType, NextStepType, AckType
  <1>4. CASE \E a \in Ackers : SendCommit(a)
    BY Zenon, <1>4, CommitStepType
  <1>5. CASE TakeCommit \/ CloseGroup
    BY Zenon, <1>5, CommitStepType
  <1> QED BY Zenon, <1>1, <1>2, <1>3, <1>4, <1>5 DEF Next

-----------------------------------------------------------------------------
(* The invariant is inductive.                                             *)

\* Every step keeps the consume task's message: nothing moves cursor in Offer.
LEMMA OfferHasMessageStep ==
    ASSUME Inv, [Next]_vars
    PROVE  OfferHasMessage'
  <1> USE DEF OfferHasMessage, groupVars, subscriptionVars, taskVars, commitVars
  <1>1. OfferHasMessage /\ offerPc \in [Segments -> {"idle", "locking", "waiting", "stopped"}]
        /\ cursor \in [Segments -> 0..MaxOffset]
    BY Zenon DEF Inv, TypeOK
  <1>2. ASSUME cursor' = cursor, offerPc' = offerPc \/ offerPc' = Wake(offerPc)
        PROVE  OfferHasMessage'
    BY Zenon, <1>1, <1>2 DEF Wake
  <1>3. ASSUME NEW g \in Segments, OfferStep(g)
        PROVE  OfferHasMessage'
    <2>1. CASE OfferEnter(g)
      BY Zenon, <1>1, <2>1 DEF OfferEnter
    <2>2. CASE OfferWait(g)
      BY Zenon, <1>1, <2>2 DEF OfferWait
    <2>3. CASE OfferPut(g)
      BY Zenon, <1>1, <2>3 DEF OfferPut, Wake
    <2> QED BY Zenon, <1>3, <2>1, <2>2, <2>3 DEF OfferStep
  <1>4. ASSUME NEW g \in Segments, RestartConsumeTask(g)
        PROVE  OfferHasMessage'
    BY Zenon, <1>1, <1>4 DEF RestartConsumeTask
  <1>5. ASSUME NEW s \in Subscriptions,
               \/ \E size \in Sizes, limit \in Limits, blocking \in Blockings :
                      Subscribe(s, size, limit, blocking)
               \/ \E size \in Resizes : SetSize(s, size)
               \/ NextStep(s)
               \/ CloseOnContextDone(s) \/ CloseOnReturn(s)
               \/ \E n \in 1..MaxSeq : Nack(s, n) \/ \E a \in Ackers : Ack(a, s, n)
        PROVE  cursor' = cursor /\ (offerPc' = offerPc \/ offerPc' = Wake(offerPc))
    BY Zenon, <1>5 DEF Subscribe, SetSize, NextStep, NextEnter, NextLease, NextReturnError,
                NextWait, NextCopyBody, NextCopyLease, NextReturn, CloseOnContextDone,
                CloseOnReturn, Nack, Ack, Broadcast
  <1>6. (\E a \in Ackers : SendCommit(a)) \/ TakeCommit \/ CloseGroup \/ UNCHANGED vars
        => cursor' = cursor /\ (offerPc' = offerPc \/ offerPc' = Wake(offerPc))
    BY Zenon DEF SendCommit, TakeCommit, CloseGroup, Broadcast, vars
  <1> QED BY Zenon, <1>2, <1>3, <1>4, <1>5, <1>6 DEF Next

\* A subscription's step leases or releases slots, acks, or does neither.
LEMMA SubscriptionStepSafe ==
    ASSUME Inv, NEW s \in Subscriptions,
           \/ \E size \in Sizes, limit \in Limits, blocking \in Blockings :
                  Subscribe(s, size, limit, blocking)
           \/ \E size \in Resizes : SetSize(s, size)
           \/ NextStep(s)
           \/ CloseOnContextDone(s) \/ CloseOnReturn(s)
           \/ \E n \in 1..MaxSeq : Nack(s, n)
    PROVE  Safe'
  <1> DEFINE Relabelled ==
                 /\ \A i \in Index : messages'[i].msg = messages[i].msg
                 /\ \A i \in Index : messages'[i].sub = Acked => messages[i].sub = Acked
                 /\ \A i \in Index : ~Held(i) => messages'[i] = messages[i]
  <1>1. messages \in [Index -> Slot] /\ Safe
    BY Zenon DEF Inv, TypeOK
  <1>2. /\ Acked # Ready /\ Acked # s
        /\ \A i \in Index, sub \in Subscriptions \cup {Ready}, n \in Nat :
               /\ [messages[i] EXCEPT !.sub = sub, !.seqNo = n].msg = messages[i].msg
               /\ [messages[i] EXCEPT !.sub = sub, !.seqNo = n].sub = sub
    BY Zenon, <1>1, GroupAssumption DEF Slot
  <1>3. messages' = messages => Relabelled
    OBVIOUS
  <1>4. NextLease(s) => Relabelled
    <2> SUFFICES ASSUME NextLease(s) PROVE Relabelled
      OBVIOUS
    <2>1. PICK i \in Index :
              /\ Held(i)
              /\ messages' = [messages EXCEPT ![i] =
                     [messages[i] EXCEPT !.sub = s, !.seqNo = subscription[s].seq + 1]]
      BY Zenon DEF NextLease, FirstReady
    <2>2. subscription[s].seq + 1 \in Nat
      BY SMTT(30) DEF Inv, TypeOK, SubscriptionType
    <2> QED BY <1>1, <1>2, <2>1, <2>2
  <1>5. Close(s) => Relabelled
    <2> SUFFICES ASSUME Close(s) PROVE Relabelled
      OBVIOUS
    <2>1. \A i \in Index : messages'[i] =
              IF Held(i) /\ messages[i].sub = s
              THEN [messages[i] EXCEPT !.sub = Ready, !.seqNo = 0]
              ELSE messages[i]
      BY Zenon DEF Close
    <2>2. \A i \in Index :
              /\ [messages[i] EXCEPT !.sub = Ready, !.seqNo = 0].msg = messages[i].msg
              /\ [messages[i] EXCEPT !.sub = Ready, !.seqNo = 0].sub = Ready
      BY <1>2
    <2> QED BY ZenonT(30), <1>2, <2>1, <2>2
  <1>6. (\E n \in 1..MaxSeq : Nack(s, n)) => Relabelled
    <2> SUFFICES ASSUME NEW n \in 1..MaxSeq, Nack(s, n) PROVE Relabelled
      OBVIOUS
    <2>1. PICK i \in Index :
              /\ Held(i)
              /\ messages' = [messages EXCEPT ![i] =
                     [messages[i] EXCEPT !.sub = Ready, !.seqNo = 0]]
      BY Zenon DEF Nack, LeasedAs
    <2> QED BY <1>1, <1>2, <2>1
  <1>7. Relabelled /\ UNCHANGED <<read, write, taskVars, commitVars>>
    BY Zenon, <1>3, <1>4, <1>5, <1>6
       DEF Subscribe, SetSize, NextStep, NextEnter, NextLease, NextReturnError,
           NextWait, NextCopyBody, NextCopyLease, NextReturn, CloseOnContextDone,
           CloseOnReturn, Nack, groupVars
  <1> QED BY Zenon, <1>1, <1>7, RelabelSafe

\* Every step keeps the four parts of Safe.
LEMMA SafeStep ==
    ASSUME Inv, [Next]_vars
    PROVE  Safe'
  <1>1. ASSUME UNCHANGED <<messages, read, write, taskVars, commitVars>>
        PROVE  Safe'
    BY Zenon, <1>1, RelabelSafe DEF Inv
  <1>2. CASE UNCHANGED vars
    BY Zenon, <1>1, <1>2 DEF vars, groupVars
  <1>3. ASSUME NEW g \in Segments, OfferStep(g) \/ RestartConsumeTask(g)
        PROVE  Safe'
    <2>1. CASE OfferEnter(g) \/ OfferWait(g)
      BY Zenon, <1>1, <2>1 DEF OfferEnter, OfferWait, groupVars
    <2> QED BY Zenon, <1>3, <2>1, OfferPutSafe, RestartSafe DEF OfferStep
  <1>4. ASSUME NEW s \in Subscriptions,
               \/ \E size \in Sizes, limit \in Limits, blocking \in Blockings :
                      Subscribe(s, size, limit, blocking)
               \/ \E size \in Resizes : SetSize(s, size)
               \/ NextStep(s)
               \/ CloseOnContextDone(s) \/ CloseOnReturn(s)
               \/ \E n \in 1..MaxSeq : Nack(s, n) \/ \E a \in Ackers : Ack(a, s, n)
        PROVE  Safe'
    BY Zenon, <1>4, SubscriptionStepSafe, AckSafe
  <1>5. CASE \E a \in Ackers : SendCommit(a)
    BY Zenon, <1>5, SendCommitSafe
  <1>6. CASE TakeCommit
    BY Zenon, <1>6, TakeCommitSafe
  <1>7. CASE CloseGroup
    BY Zenon, <1>1, <1>7 DEF CloseGroup
  <1> QED BY Zenon, <1>2, <1>3, <1>4, <1>5, <1>6, <1>7 DEF Next

\* The invariant holds of a new group.
LEMMA InitInv == Init => Inv
  <1> SUFFICES ASSUME Init PROVE Inv
    OBVIOUS
  <1> USE DEF Init
  <1>1. /\ 0 \in Index /\ read = 0 /\ write = 0
        /\ messages = [i \in Index |-> EmptySlot]
    BY NType DEF Index
  <1>2. TypeOK
    <2>1. [size |-> 0, inflight |-> 0, maxMessages |-> 0, blocking |-> TRUE,
           closed |-> FALSE, seq |-> 0] \in SubscriptionType
      BY DEF SubscriptionType
    <2>2. messages \in [Index -> Slot] /\ delivery \in [Subscriptions -> Slot]
      BY Zenon, <1>1, EmptySlotType
    <2>3. subscription \in [Subscriptions -> SubscriptionType]
      BY Zenon, <2>1
    <2>4. /\ read \in Index /\ write \in Index /\ closed \in BOOLEAN
          /\ slot \in [Subscriptions -> Index]
      BY Zenon, <1>1
    <2>5. /\ cursor \in [Segments -> 0..MaxOffset]
          /\ taken \in [Segments -> 0..MaxOffset]
      BY GroupAssumption
    <2>6. /\ sending \in [Ackers -> Seq(Message)] /\ commits \in Seq(Message)
          /\ acked \subseteq Message
      OBVIOUS
    <2> QED BY Zenon, <2>2, <2>3, <2>4, <2>5, <2>6 DEF TypeOK
  <1>3. \A i \in Index : ~Held(i)
    BY <1>1, NType DEF Held, Distance, Index
  <1>4. SlotsConsistent /\ BufferOrdered
    BY Zenon, <1>1, <1>3 DEF SlotsConsistent, BufferOrdered
  <1>5. NothingLost /\ CommitSafe
    <2>1. /\ \A g \in Segments : cursor[g] = 0 /\ taken[g] = 0
          /\ \A a \in Ackers : sending[a] = <<>>
          /\ commits = <<>>
      OBVIOUS
    <2>2. 1..0 = {} /\ DOMAIN <<>> = {}
      OBVIOUS
    <2>3. NothingLost
      BY ONLY Zenon, <2>1, <2>2 DEF NothingLost
    <2>4. CommitSafe
      BY ONLY Zenon, <2>1, <2>2 DEF CommitSafe, AckedBelow
    <2> QED BY ONLY Zenon, <2>3, <2>4
  <1>6. OfferHasMessage
    BY Zenon DEF OfferHasMessage
  <1> QED BY Zenon, <1>2, <1>4, <1>5, <1>6 DEF Inv, Safe

-----------------------------------------------------------------------------
\* Inv holds in every state of the group.
THEOREM Invariance == Spec => []Inv
  <1>1. Inv /\ [Next]_vars => Inv'
    BY Zenon, TypeStep, OfferHasMessageStep, SafeStep DEF Inv
  <1> QED BY InitInv, <1>1, PTL DEF Spec

\* The state of the group keeps its types, for every capacity and any number of
\* goroutines.
THEOREM TypeCorrect == Spec => []TypeOK
  <1>1. Inv => TypeOK
    BY Zenon DEF Inv
  <1> QED BY <1>1, Invariance, PTL

\* A commit never covers a message nobody acked, wherever it is between Ack and
\* the group task.
THEOREM CommitsAreSafe == Spec => []CommitSafe
  <1>1. Inv => CommitSafe
    BY Zenon DEF Inv, Safe
  <1> QED BY <1>1, Invariance, PTL

\* Every message offered is acked or still in the ring.
THEOREM NoMessageIsLost == Spec => []NothingLost
  <1>1. Inv => NothingLost
    BY Zenon DEF Inv, Safe
  <1> QED BY <1>1, Invariance, PTL

\* The ring is consistent and ordered: the acked prefix may be committed.
THEOREM RingIsConsistent == Spec => []RingInvariant
  <1>1. Inv => RingInvariant
    BY Zenon DEF Inv, Safe, RingInvariant
  <1> QED BY <1>1, Invariance, PTL
=============================================================================
