----------------------- MODULE ConsumerGroupLeaseProofs -----------------------
(***************************************************************************)
(* Proofs about the leases of ConsumerGroup and about its condition        *)
(* variable, and the proof that the group implements the work queue, again *)
(* for every capacity and any number of goroutines.  They rest on the      *)
(* invariant of ConsumerGroupProofs.                                       *)
(***************************************************************************)
EXTENDS ConsumerGroupRefinement, ConsumerGroupProofs, FiniteSetTheorems

\* What LeaseAccounting says of one subscription.
Accounted(s) ==
    /\ Cardinality(LeasedTo(s)) <= subscription[s].inflight
    /\ subscription[s].closed
       \/ Cardinality(LeasedTo(s)) = subscription[s].inflight
    /\ \A i, j \in LeasedTo(s) :
        /\ messages[i].seqNo \in 1..subscription[s].seq
        /\ messages[i].seqNo = messages[j].seqNo => i = j

\* From the lease on, until the handler has sent the message or its subscription
\* is closed, the slot stays leased under the last sequence number, and what was
\* copied of the slot so far is still there.
CopySound(s) ==
    nextPc[s] \in Copying /\ ~subscription[s].closed =>
        /\ slot[s] \in LeasedTo(s)
        /\ messages[slot[s]].seqNo = subscription[s].seq
        /\ nextPc[s] \in {"copyingLease", "returning"} =>
               delivery[s].msg = messages[slot[s]].msg
        /\ nextPc[s] \in {"copyingBody", "returning"} =>
               /\ delivery[s].sub = messages[slot[s]].sub
               /\ delivery[s].seqNo = messages[slot[s]].seqNo

GoneIsReleased(s) == nextPc[s] = "gone" => LeasedTo(s) = {}

LeaseInv ==
    \A s \in Subscriptions : Accounted(s) /\ CopySound(s) /\ GoneIsReleased(s)

-----------------------------------------------------------------------------
(* What a step does to the leases.                                         *)

\* The leases of t are the same after a step.
LeasesKept(t) ==
    /\ LeasedTo(t)' = LeasedTo(t)
    /\ \A i \in LeasedTo(t) : messages'[i] = messages[i]

\* The leases of a subscription are at most as many as the ring has slots.
LEMMA LeasesFinite ==
    \A s \in Subscriptions : IsFiniteSet(LeasedTo(s)) /\ Cardinality(LeasedTo(s)) \in Nat
  <1>1. IsFiniteSet(Index)
    BY FS_Interval, NType DEF Index
  <1>2. \A s \in Subscriptions : LeasedTo(s) \subseteq Index
    BY Zenon DEF LeasedTo
  <1> QED BY Zenon, <1>1, <1>2, FS_Subset, FS_CardinalityType

\* A step that leaves the ring alone leaves the leases alone.
LEMMA RingKept ==
    ASSUME UNCHANGED <<messages, read, write>>
    PROVE  \A t \in Subscriptions : LeasesKept(t)
  BY Zenon DEF LeasesKept, LeasedTo, Held, Distance

\* Offer fills a slot that was not held.
LEMMA OfferPutLeases ==
    ASSUME Inv, NEW g \in Segments, OfferPut(g)
    PROVE  \A t \in Subscriptions : LeasesKept(t)
  <1>1. /\ read \in Index /\ write \in Index /\ ~Full
        /\ write' = Succ(write) /\ read' = read
        /\ messages \in [Index -> Slot]
        /\ messages'[write].sub = Ready
        /\ \A i \in Index : i # write => messages'[i] = messages[i]
    BY Zenon DEF Inv, TypeOK, OfferPut
  <1>2. \A i \in Index : Held(i)' <=> Held(i) \/ i = write
    BY Zenon, <1>1, PutFacts
  <1>3. ~Held(write)
    BY <1>1, DistanceFacts DEF Held
  <1>4. ASSUME NEW t \in Subscriptions PROVE LeasesKept(t)
    <2>1. Ready # t
      BY Zenon, GroupAssumption
    <2>2. \A i \in Index : i \in LeasedTo(t)' <=> i \in LeasedTo(t)
      BY Zenon, <1>1, <1>2, <1>3, <2>1 DEF LeasedTo
    <2> QED BY Zenon, <1>1, <1>3, <2>2 DEF LeasesKept, LeasedTo
  <1> QED BY Zenon, <1>4

\* Next leases a slot that was nobody's.
LEMMA NextLeaseLeases ==
    ASSUME Inv, NEW s \in Subscriptions, NextLease(s)
    PROVE  /\ \A t \in Subscriptions \ {s} : LeasesKept(t)
           /\ \E i \in Index :
                /\ i \notin LeasedTo(s)
                /\ LeasedTo(s)' = LeasedTo(s) \cup {i}
                /\ messages'[i].seqNo = subscription[s].seq + 1
                /\ \A j \in LeasedTo(s) : messages'[j] = messages[j]
                /\ slot' = [slot EXCEPT ![s] = i]
  <1>1. PICK i \in Index :
            /\ Held(i) /\ messages[i].sub = Ready
            /\ messages' = [messages EXCEPT ![i] =
                   [messages[i] EXCEPT !.sub = s, !.seqNo = subscription[s].seq + 1]]
            /\ slot' = [slot EXCEPT ![s] = i]
    BY Zenon DEF NextLease, FirstReady
  <1>2. messages \in [Index -> Slot] /\ read' = read /\ write' = write
    BY Zenon DEF Inv, TypeOK, NextLease
  <1>3. /\ messages'[i].sub = s
        /\ messages'[i].seqNo = subscription[s].seq + 1
        /\ \A j \in Index : j # i => messages'[j] = messages[j]
    BY Zenon, <1>1, <1>2 DEF Slot
  <1>4. \A j \in Index : Held(j)' <=> Held(j)
    BY Zenon, <1>2 DEF Held, Distance
  <1>5. \A t \in Subscriptions : i \notin LeasedTo(t)
    BY Zenon, <1>1, GroupAssumption DEF LeasedTo
  <1>6. LeasedTo(s)' = LeasedTo(s) \cup {i}
    BY Zenon, <1>1, <1>3, <1>4 DEF LeasedTo
  <1>7. \A t \in Subscriptions \ {s} : LeasesKept(t)
    BY Zenon, <1>3, <1>4, <1>5 DEF LeasesKept, LeasedTo
  <1>8. \A j \in LeasedTo(s) : messages'[j] = messages[j]
    BY Zenon, <1>3, <1>5 DEF LeasedTo
  <1> QED BY Zenon, <1>1, <1>3, <1>5, <1>6, <1>7, <1>8

\* Nack ends one lease and Ack does, even if it pops slots: those are acked.
LEMMA SettleLeases ==
    ASSUME Inv, NEW s \in Subscriptions, NEW n \in 1..MaxSeq,
           Nack(s, n) \/ \E a \in Ackers : Ack(a, s, n)
    PROVE  /\ \A t \in Subscriptions \ {s} : LeasesKept(t)
           /\ \E i \in LeasedTo(s) :
                /\ messages[i].seqNo = n
                /\ LeasedTo(s)' = LeasedTo(s) \ {i}
                /\ \A j \in LeasedTo(s) \ {i} : messages'[j] = messages[j]
  <1>1. /\ messages \in [Index -> Slot] /\ read \in Index /\ write \in Index /\ write' = write
        /\ \A t \in Subscriptions : t # Ready /\ t # Acked
    BY Zenon, GroupAssumption DEF Inv, TypeOK, Nack, Ack
  <1>2. PICK i \in Index :
            /\ LeasedAs(i, s, n)
            /\ \A t \in Subscriptions : \A j \in Index :
                   j \in LeasedTo(t)' <=> j \in LeasedTo(t) /\ j # i
            /\ \A t \in Subscriptions : \A j \in LeasedTo(t) : j # i => messages'[j] = messages[j]
    <2>1. CASE Nack(s, n)
      <3>1. PICK i \in Index :
                /\ LeasedAs(i, s, n)
                /\ messages' = [messages EXCEPT ![i] =
                       [messages[i] EXCEPT !.sub = Ready, !.seqNo = 0]]
                /\ read' = read
        BY Zenon, <2>1 DEF Nack
      <3>2. messages'[i].sub = Ready /\ \A j \in Index : j # i => messages'[j] = messages[j]
        BY Zenon, <1>1, <3>1 DEF Slot
      <3>3. \A j \in Index : Held(j)' <=> Held(j)
        BY Zenon, <1>1, <3>1 DEF Held, Distance
      <3>4. \A t \in Subscriptions : \A j \in Index :
                j \in LeasedTo(t)' <=> j \in LeasedTo(t) /\ j # i
        BY Zenon, <1>1, <3>2, <3>3 DEF LeasedTo
      <3> QED BY <3>1, <3>2, <3>4 DEF LeasedTo
    <2>2. ASSUME NEW a \in Ackers, Ack(a, s, n)
          PROVE  \E i \in Index :
            /\ LeasedAs(i, s, n)
            /\ \A t \in Subscriptions : \A j \in Index :
                   j \in LeasedTo(t)' <=> j \in LeasedTo(t) /\ j # i
            /\ \A t \in Subscriptions : \A j \in LeasedTo(t) : j # i => messages'[j] = messages[j]
      <3>1. PICK i \in Index, r \in Index :
                /\ LeasedAs(i, s, n)
                /\ AckedUpTo([messages EXCEPT ![i] = [@ EXCEPT !.sub = Acked, !.seqNo = 0]], r)
                /\ messages' =
                       Popped([messages EXCEPT ![i] = [@ EXCEPT !.sub = Acked, !.seqNo = 0]], r)
                /\ read' = r
        BY Zenon, <2>2 DEF Ack
      <3> DEFINE ring == [messages EXCEPT ![i] = [@ EXCEPT !.sub = Acked, !.seqNo = 0]]
      <3>2. /\ \A j \in Index : Distance(j) \in 0..N
            /\ Distance(r) <= Distance(write)
        BY Zenon, <1>1, <3>1, DistanceFacts DEF AckedUpTo
      <3>3. \A j \in Index : Held(j)' <=> Held(j) /\ Distance(j) >= Distance(r)
        BY Zenon, <1>1, <3>1, <3>2, PopFacts
      <3>4. ring[i].sub = Acked /\ \A j \in Index : j # i => ring[j] = messages[j]
        BY Zenon, <1>1 DEF Slot
      <3>5. \A j \in Index : Distance(j) >= Distance(r) => messages'[j] = ring[j]
        BY <3>1, <3>2 DEF Popped
      <3>6. \A j \in Index : Distance(j) < Distance(r) => ring[j].sub = Acked
        BY Zenon, <3>1 DEF AckedUpTo
      <3> HIDE DEF ring
      <3>7. ASSUME NEW t \in Subscriptions, NEW j \in Index
            PROVE  /\ j \in LeasedTo(t)' <=> j \in LeasedTo(t) /\ j # i
                   /\ j \in LeasedTo(t) /\ j # i => messages'[j] = messages[j]
        <4>1. CASE Distance(j) < Distance(r)
          <5>1. ~Held(j)'
            BY <3>2, <3>3, <4>1
          <5>2. j \notin LeasedTo(t) \/ j = i
            BY Zenon, <1>1, <3>4, <3>6, <4>1 DEF LeasedTo
          <5> QED BY Zenon, <5>1, <5>2 DEF LeasedTo
        <4>2. CASE Distance(j) >= Distance(r)
          <5>1. messages'[j] = ring[j] /\ (Held(j)' <=> Held(j))
            BY Zenon, <3>3, <3>5, <4>2
          <5>2. CASE j = i
            <6>1. messages'[j].sub # t
              BY Zenon, <1>1, <3>4, <5>1, <5>2
            <6> QED BY Zenon, <5>2, <6>1 DEF LeasedTo
          <5>3. CASE j # i
            BY Zenon, <3>4, <5>1, <5>3 DEF LeasedTo
          <5> QED BY Zenon, <5>2, <5>3
        <4> QED BY <3>2, <4>1, <4>2
      <3>8. \A t \in Subscriptions : \A j \in LeasedTo(t) : j \in Index
        BY Zenon DEF LeasedTo
      <3> QED BY Zenon, <3>1, <3>7, <3>8
    <2> QED BY Zenon, <2>1, <2>2
  <1>3. i \in LeasedTo(s) /\ messages[i].seqNo = n /\ \A t \in Subscriptions \ {s} : i \notin LeasedTo(t)
    BY Zenon, <1>2 DEF LeasedTo, LeasedAs
  <1>4. \A t \in Subscriptions : LeasedTo(t) \subseteq Index /\ LeasedTo(t)' \subseteq Index
    BY Zenon DEF LeasedTo
  <1>5. LeasedTo(s)' = LeasedTo(s) \ {i}
    BY Zenon, <1>2, <1>4
  <1>6. \A t \in Subscriptions \ {s} : LeasesKept(t)
    BY Zenon, <1>2, <1>3, <1>4 DEF LeasesKept
  <1> QED BY Zenon, <1>2, <1>3, <1>5, <1>6

\* Subscription.Close ends all leases of a subscription and no others.
LEMMA CloseLeases ==
    ASSUME Inv, NEW s \in Subscriptions, Close(s), UNCHANGED <<read, write>>
    PROVE  /\ \A t \in Subscriptions \ {s} : LeasesKept(t)
           /\ LeasedTo(s)' = {}
  <1>1. /\ messages \in [Index -> Slot]
        /\ \A t \in Subscriptions : t # Ready
    BY Zenon, GroupAssumption DEF Inv, TypeOK
  <1>2. \A i \in Index : Held(i)' <=> Held(i)
    BY Zenon DEF Held, Distance
  <1>3. \A i \in Index :
            /\ Held(i) /\ messages[i].sub = s => messages'[i].sub = Ready
            /\ ~(Held(i) /\ messages[i].sub = s) => messages'[i] = messages[i]
    BY Zenon, <1>1 DEF Close, Slot
  <1>4. LeasedTo(s)' = {}
    BY Zenon, <1>1, <1>2, <1>3 DEF LeasedTo
  <1>5. \A t \in Subscriptions \ {s} : LeasesKept(t)
    BY Zenon, <1>1, <1>2, <1>3 DEF LeasedTo, LeasesKept
  <1> QED BY Zenon, <1>4, <1>5

-----------------------------------------------------------------------------
(* The lease invariant.                                                    *)

\* A step leaves t alone, except that its handler may be woken, call Next, find
\* nothing to lease, or give up.
Untouched(t) ==
    /\ subscription'[t].inflight = subscription[t].inflight
    /\ subscription'[t].seq = subscription[t].seq
    /\ subscription'[t].closed = subscription[t].closed
    /\ slot'[t] = slot[t] /\ delivery'[t] = delivery[t]
    /\ \/ nextPc'[t] = nextPc[t]
       \/ nextPc'[t] \notin Copying \cup {"gone"}
    /\ LeasesKept(t)

\* What holds of a subscription holds after a step that does not touch it.
LEMMA UntouchedSound ==
    ASSUME LeaseInv, NEW t \in Subscriptions, Untouched(t)
    PROVE  Accounted(t)' /\ CopySound(t)' /\ GoneIsReleased(t)'
  <1>1. Accounted(t) /\ CopySound(t) /\ GoneIsReleased(t)
    BY Zenon DEF LeaseInv
  <1>2. /\ LeasedTo(t)' = LeasedTo(t)
        /\ \A i \in LeasedTo(t) : messages'[i] = messages[i]
    BY Zenon DEF Untouched, LeasesKept
  <1>3. Accounted(t)'
    BY <1>1, <1>2 DEF Accounted, Untouched
  <1>4. CopySound(t)'
    BY Zenon, <1>1, <1>2 DEF CopySound, Untouched
  <1>5. GoneIsReleased(t)'
    BY Zenon, <1>1, <1>2 DEF GoneIsReleased, Untouched
  <1> QED BY Zenon, <1>3, <1>4, <1>5

\* Waking moves nobody in or out of the part of Next that copies.
LEMMA WakePlaces ==
    ASSUME TypeOK
    PROVE  \A t \in Subscriptions :
               Wake(nextPc)[t] = nextPc[t] \/ Wake(nextPc)[t] = "locking"
  BY Zenon DEF TypeOK, Wake

\* Steps of others.
LEMMA OthersUntouched ==
    ASSUME Inv, NEW s \in Subscriptions, NEW t \in Subscriptions, t # s,
           \/ \E size \in Sizes, limit \in Limits, blocking \in Blockings :
                  Subscribe(s, size, limit, blocking)
           \/ \E size \in Resizes : SetSize(s, size)
           \/ NextStep(s)
           \/ CloseOnContextDone(s) \/ CloseOnReturn(s)
           \/ \E n \in 1..MaxSeq : Nack(s, n) \/ \E a \in Ackers : Ack(a, s, n)
    PROVE  Untouched(t)
  <1> USE DEF groupVars, subscriptionVars
  <1>1. /\ subscription \in [Subscriptions -> SubscriptionType]
        /\ slot \in [Subscriptions -> Index]
        /\ delivery \in [Subscriptions -> Slot]
        /\ DOMAIN nextPc = Subscriptions
    BY Zenon DEF Inv, TypeOK
  <1>2. Wake(nextPc)[t] = nextPc[t] \/ Wake(nextPc)[t] = "locking"
    BY Zenon, WakePlaces DEF Inv
  <1>3. "locking" \notin Copying \cup {"gone"}
    BY Zenon DEF Copying
  <1>4. subscription'[t] = subscription[t]
    BY Zenon, <1>1 DEF Subscribe, SetSize, NextStep, NextEnter, NextLease, NextReturnError, NextWait,
                NextCopyBody, NextCopyLease, NextReturn, CloseOnContextDone, CloseOnReturn,
                Close, Nack, Ack
  <1>5. slot'[t] = slot[t] /\ delivery'[t] = delivery[t]
    BY Zenon, <1>1 DEF Subscribe, SetSize, NextStep, NextEnter, NextLease, NextReturnError, NextWait,
                NextCopyBody, NextCopyLease, NextReturn, CloseOnContextDone, CloseOnReturn,
                Nack, Ack
  <1>6. nextPc'[t] = nextPc[t] \/ nextPc'[t] = "locking"
    BY Zenon, <1>1, <1>2
       DEF Subscribe, SetSize, NextStep, NextEnter, NextLease, NextReturnError, NextWait,
           NextCopyBody, NextCopyLease, NextReturn, CloseOnContextDone, CloseOnReturn,
           Nack, Ack, Broadcast, Wake
  <1>7. LeasesKept(t)
    <2>1. \/ UNCHANGED <<messages, read, write>>
          \/ NextLease(s)
          \/ Close(s) /\ UNCHANGED <<read, write>>
          \/ \E n \in 1..MaxSeq : Nack(s, n) \/ \E a \in Ackers : Ack(a, s, n)
      BY Zenon DEF Subscribe, SetSize, NextStep, NextEnter, NextReturnError, NextWait,
             NextCopyBody, NextCopyLease, NextReturn, CloseOnContextDone, CloseOnReturn
    <2> QED BY Zenon, <2>1, RingKept, NextLeaseLeases, CloseLeases, SettleLeases
  <1> QED BY Zenon, <1>3, <1>4, <1>5, <1>6, <1>7 DEF Untouched

\* A lease gets a number of its own.
LEMMA NextLeaseSound ==
    ASSUME Inv, LeaseInv, NEW s \in Subscriptions, NextLease(s)
    PROVE  Accounted(s)' /\ CopySound(s)' /\ GoneIsReleased(s)'
  <1>1. PICK i \in Index :
            /\ i \notin LeasedTo(s)
            /\ LeasedTo(s)' = LeasedTo(s) \cup {i}
            /\ messages'[i].seqNo = subscription[s].seq + 1
            /\ \A j \in LeasedTo(s) : messages'[j] = messages[j]
            /\ slot' = [slot EXCEPT ![s] = i]
    BY Zenon, NextLeaseLeases
  <1>2. /\ subscription[s].seq \in Nat /\ subscription[s].inflight \in Int
        /\ subscription'[s].seq = subscription[s].seq + 1
        /\ subscription'[s].inflight = subscription[s].inflight + 1
        /\ subscription'[s].closed = subscription[s].closed
    BY DEF Inv, TypeOK, SubscriptionType, NextLease
  <1>3. nextPc'[s] = "copying" /\ slot'[s] = i
    BY Zenon, <1>1 DEF Inv, TypeOK, NextLease
  <1>4. /\ Cardinality(LeasedTo(s)') = Cardinality(LeasedTo(s)) + 1
        /\ Cardinality(LeasedTo(s)) \in Nat
    BY Zenon, <1>1, LeasesFinite, FS_AddElement
  <1>5. Accounted(s)
    BY Zenon DEF LeaseInv
  <1>6. Accounted(s)'
    <2>1. /\ Cardinality(LeasedTo(s)') <= subscription'[s].inflight
          /\ subscription'[s].closed
             \/ Cardinality(LeasedTo(s)') = subscription'[s].inflight
      BY <1>2, <1>4, <1>5 DEF Accounted
    <2>2. \A j \in LeasedTo(s) : messages'[j].seqNo = messages[j].seqNo
              /\ messages[j].seqNo \in 1..subscription[s].seq
      BY Zenon, <1>1, <1>5 DEF Accounted
    <2>3. \A j \in LeasedTo(s)' : messages'[j].seqNo \in 1..subscription'[s].seq
      BY <1>1, <1>2, <2>2
    <2>4. \A j, k \in LeasedTo(s)' : messages'[j].seqNo = messages'[k].seqNo => j = k
      <3> SUFFICES ASSUME NEW j \in LeasedTo(s)', NEW k \in LeasedTo(s)',
                          messages'[j].seqNo = messages'[k].seqNo
                   PROVE  j = k
        OBVIOUS
      <3>1. CASE j = i \/ k = i
        BY <1>1, <1>2, <2>2, <3>1
      <3>2. CASE j # i /\ k # i
        BY Zenon, <1>1, <1>5, <2>2, <3>2 DEF Accounted
      <3> QED BY Zenon, <3>1, <3>2
    <2> QED BY Zenon, <2>1, <2>3, <2>4 DEF Accounted
  <1>7. CopySound(s)'
    BY Zenon, <1>1, <1>2, <1>3 DEF CopySound
  <1>8. GoneIsReleased(s)'
    BY Zenon, <1>3 DEF GoneIsReleased
  <1> QED BY Zenon, <1>6, <1>7, <1>8

\* Ack and Nack end one lease and count it; the client does not know the number
\* of the one that Next is still copying.
LEMMA SettleSound ==
    ASSUME Inv, LeaseInv, NEW s \in Subscriptions, NEW n \in 1..MaxSeq,
           Nack(s, n) \/ \E a \in Ackers : Ack(a, s, n)
    PROVE  Accounted(s)' /\ CopySound(s)' /\ GoneIsReleased(s)'
  <1>1. PICK i \in LeasedTo(s) :
            /\ messages[i].seqNo = n
            /\ LeasedTo(s)' = LeasedTo(s) \ {i}
            /\ \A j \in LeasedTo(s) \ {i} : messages'[j] = messages[j]
    BY Zenon, SettleLeases
  <1>2. /\ subscription[s].seq \in Nat /\ subscription[s].inflight \in Int
        /\ subscription'[s].seq = subscription[s].seq
        /\ subscription'[s].inflight = subscription[s].inflight - 1
        /\ subscription'[s].closed = subscription[s].closed
    <2>1. subscription' = [subscription EXCEPT ![s].inflight = @ - 1]
      BY Zenon DEF Nack, Ack
    <2>2. subscription \in [Subscriptions -> SubscriptionType]
      BY Zenon DEF Inv, TypeOK
    <2> QED BY Zenon, <2>1, <2>2 DEF SubscriptionType
  <1>3. /\ slot' = slot /\ delivery' = delivery
        /\ nextPc'[s] = nextPc[s] \/ nextPc'[s] = "locking"
    BY Zenon, WakePlaces DEF Inv, Nack, Ack, Broadcast
  <1>4. /\ Cardinality(LeasedTo(s)') = Cardinality(LeasedTo(s)) - 1
        /\ Cardinality(LeasedTo(s)) \in Nat
    BY Zenon, <1>1, LeasesFinite, FS_RemoveElement
  <1>5. Accounted(s) /\ CopySound(s) /\ GoneIsReleased(s)
    BY Zenon DEF LeaseInv
  <1>6. Accounted(s)'
    BY <1>1, <1>2, <1>4, <1>5 DEF Accounted
  <1>7. nextPc[s] \in Copying => n < subscription[s].seq
    BY Zenon DEF Nack, Ack, KnownToClient
  <1>8. CopySound(s)'
    <2> SUFFICES ASSUME nextPc'[s] \in Copying, ~subscription'[s].closed
                 PROVE  /\ slot[s] \in LeasedTo(s)'
                        /\ messages'[slot[s]].seqNo = subscription[s].seq
                        /\ messages'[slot[s]] = messages[slot[s]]
                        /\ nextPc'[s] = nextPc[s]
      BY Zenon, <1>2, <1>3, <1>5 DEF CopySound
    <2>1. nextPc'[s] = nextPc[s] /\ nextPc[s] \in Copying /\ ~subscription[s].closed
      BY Zenon, <1>2, <1>3 DEF Copying
    <2>2. slot[s] \in LeasedTo(s) /\ messages[slot[s]].seqNo = subscription[s].seq
      BY Zenon, <1>5, <2>1 DEF CopySound
    <2>3. slot[s] # i
      BY <1>1, <1>2, <1>7, <2>1, <2>2
    <2> QED BY Zenon, <1>1, <2>1, <2>2, <2>3
  <1>9. GoneIsReleased(s)'
    BY Zenon, <1>1, <1>3, <1>5 DEF GoneIsReleased
  <1> QED BY Zenon, <1>6, <1>8, <1>9

\* Close releases everything, also what was leased after an earlier Close.
LEMMA CloseSound ==
    ASSUME Inv, LeaseInv, NEW s \in Subscriptions, CloseOnContextDone(s) \/ CloseOnReturn(s)
    PROVE  Accounted(s)' /\ CopySound(s)' /\ GoneIsReleased(s)'
  <1>1. LeasedTo(s)' = {}
    BY Zenon, CloseLeases DEF CloseOnContextDone, CloseOnReturn
  <1>2. /\ subscription[s].inflight \in Int
        /\ subscription'[s].inflight = subscription[s].inflight
        /\ subscription'[s].closed
    <2>1. subscription' = [subscription EXCEPT ![s].closed = TRUE]
      BY Zenon DEF CloseOnContextDone, CloseOnReturn, Close
    <2>2. subscription \in [Subscriptions -> SubscriptionType]
      BY Zenon DEF Inv, TypeOK
    <2> QED BY Zenon, <2>1, <2>2 DEF SubscriptionType
  <1>3. Cardinality(LeasedTo(s)) \in Nat /\ Cardinality(LeasedTo(s)) <= subscription[s].inflight
    BY Zenon, LeasesFinite DEF LeaseInv, Accounted
  <1>4. Accounted(s)'
    BY <1>1, <1>2, <1>3, FS_EmptySet DEF Accounted
  <1> QED BY Zenon, <1>1, <1>2, <1>4 DEF CopySound, GoneIsReleased

\* The copies of Next see the slot it has leased.
LEMMA CopyStepSound ==
    ASSUME Inv, LeaseInv, NEW s \in Subscriptions,
           NextCopyBody(s) \/ NextCopyLease(s) \/ NextReturn(s)
    PROVE  Accounted(s)' /\ CopySound(s)' /\ GoneIsReleased(s)'
  <1>1. /\ UNCHANGED <<messages, read, write, subscription, slot>>
        /\ LeasesKept(s)
    BY Zenon, RingKept DEF NextCopyBody, NextCopyLease, NextReturn, groupVars
  <1>2. Accounted(s) /\ CopySound(s) /\ GoneIsReleased(s)
    BY Zenon DEF LeaseInv
  <1>3. Accounted(s)'
    BY Zenon, <1>1, <1>2 DEF Accounted, LeasesKept
  <1>4. nextPc[s] \in Copying /\ nextPc'[s] # "gone"
    BY Zenon DEF NextCopyBody, NextCopyLease, NextReturn, Copying, Inv, TypeOK
  <1>5. delivery[s] \in Slot /\ messages[slot[s]] \in Slot
    BY Zenon DEF Inv, TypeOK
  <1>6. CopySound(s)'
    <2>1. CASE NextReturn(s)
      BY Zenon, <2>1 DEF NextReturn, CopySound, Copying, Inv, TypeOK
    <2>2. CASE NextCopyBody(s)
      <3>1. /\ delivery'[s].msg = messages[slot[s]].msg
            /\ delivery'[s].sub = delivery[s].sub /\ delivery'[s].seqNo = delivery[s].seqNo
            /\ \/ nextPc[s] = "copying" /\ nextPc'[s] = "copyingLease"
               \/ nextPc[s] = "copyingBody" /\ nextPc'[s] = "returning"
        BY Zenon, <1>5, <2>2 DEF NextCopyBody, Inv, TypeOK, Slot
      <3> QED BY Zenon, <1>1, <1>2, <1>4, <3>1 DEF CopySound, LeasesKept
    <2>3. CASE NextCopyLease(s)
      <3>1. /\ delivery'[s].msg = delivery[s].msg
            /\ delivery'[s].sub = messages[slot[s]].sub
            /\ delivery'[s].seqNo = messages[slot[s]].seqNo
            /\ \/ nextPc[s] = "copying" /\ nextPc'[s] = "copyingBody"
               \/ nextPc[s] = "copyingLease" /\ nextPc'[s] = "returning"
        BY Zenon, <1>5, <2>3 DEF NextCopyLease, Inv, TypeOK, Slot
      <3> QED BY Zenon, <1>1, <1>2, <1>4, <3>1 DEF CopySound, LeasesKept
    <2> QED BY Zenon, <2>1, <2>2, <2>3
  <1> QED BY Zenon, <1>3, <1>4, <1>6 DEF GoneIsReleased

\* Subscribe, SetSize and the steps of Next that lease nothing leave s alone.
LEMMA OtherStepsSound ==
    ASSUME Inv, LeaseInv, NEW s \in Subscriptions,
           \/ \E size \in Sizes, limit \in Limits, blocking \in Blockings :
                  Subscribe(s, size, limit, blocking)
           \/ \E size \in Resizes : SetSize(s, size)
           \/ NextEnter(s) \/ NextReturnError(s) \/ NextWait(s)
    PROVE  Accounted(s)' /\ CopySound(s)' /\ GoneIsReleased(s)'
  <1>1. UNCHANGED <<messages, read, write, slot, delivery>>
    BY Zenon DEF Subscribe, SetSize, NextEnter, NextReturnError, NextWait, groupVars, subscriptionVars
  <1> DEFINE Counted == /\ subscription'[s].inflight = subscription[s].inflight
                        /\ subscription'[s].seq = subscription[s].seq
                        /\ subscription'[s].closed = subscription[s].closed
  <1>2. Counted
    <2>1. subscription \in [Subscriptions -> SubscriptionType]
      BY Zenon DEF Inv, TypeOK
    <2>2. ASSUME NEW size \in Sizes, NEW limit \in Limits, NEW blocking \in Blockings,
                 Subscribe(s, size, limit, blocking)
          PROVE  Counted
      <3>1. subscription' = [subscription EXCEPT ![s] =
                [@ EXCEPT !.size = size, !.maxMessages = limit, !.blocking = blocking]]
        BY Zenon, <2>2 DEF Subscribe
      <3> QED BY Zenon, <2>1, <3>1 DEF SubscriptionType
    <2>3. ASSUME NEW size \in Resizes, SetSize(s, size)
          PROVE  Counted
      <3>1. subscription' = [subscription EXCEPT ![s].size = size]
        BY Zenon, <2>3 DEF SetSize
      <3> QED BY Zenon, <2>1, <3>1 DEF SubscriptionType
    <2>4. CASE NextEnter(s) \/ NextReturnError(s) \/ NextWait(s)
      BY Zenon, <2>4 DEF NextEnter, NextReturnError, NextWait, subscriptionVars
    <2> QED BY Zenon, <2>2, <2>3, <2>4
  <1>3. nextPc'[s] = nextPc[s] \/ nextPc'[s] \notin Copying \cup {"gone"}
    <2>1. DOMAIN nextPc = Subscriptions /\ DOMAIN Wake(nextPc) = Subscriptions
      BY Zenon DEF Inv, TypeOK, Wake
    <2>2. Wake(nextPc)[s] = nextPc[s] \/ Wake(nextPc)[s] = "locking"
      BY Zenon, WakePlaces DEF Inv
    <2> QED BY Zenon, <2>1, <2>2 DEF Subscribe, SetSize, NextEnter, NextReturnError, NextWait,
                              Broadcast, Copying, Inv, TypeOK
  <1> QED BY Zenon, <1>1, <1>2, <1>3, RingKept, UntouchedSound DEF Untouched

\* Steps of the consume tasks and of the group task touch no subscription.
LEMMA GroupStepsUntouched ==
    ASSUME Inv, NEW t \in Subscriptions,
           \/ \E g \in Segments : OfferStep(g) \/ RestartConsumeTask(g)
           \/ \E a \in Ackers : SendCommit(a)
           \/ TakeCommit \/ CloseGroup \/ UNCHANGED vars
    PROVE  Untouched(t)
  <1> USE DEF groupVars, subscriptionVars
  <1>1. UNCHANGED <<subscription, slot, delivery>>
    BY Zenon DEF OfferStep, OfferEnter, OfferWait, OfferPut, RestartConsumeTask, SendCommit,
           TakeCommit, CloseGroup, vars
  <1>2. nextPc' = nextPc \/ nextPc' = Wake(nextPc)
    BY Zenon DEF OfferStep, OfferEnter, OfferWait, OfferPut, RestartConsumeTask, SendCommit,
           TakeCommit, CloseGroup, Broadcast, vars
  <1>3. nextPc'[t] = nextPc[t] \/ nextPc'[t] \notin Copying \cup {"gone"}
    BY Zenon, <1>2, WakePlaces DEF Inv, Copying
  <1>4. (\E g \in Segments : OfferPut(g)) \/ UNCHANGED <<messages, read, write>>
    BY Zenon DEF OfferStep, OfferEnter, OfferWait, RestartConsumeTask, SendCommit,
           TakeCommit, CloseGroup, vars
  <1>5. LeasesKept(t)
    BY Zenon, <1>4, OfferPutLeases, RingKept
  <1> QED BY Zenon, <1>1, <1>3, <1>5 DEF Untouched

\* Every step keeps the invariant: it touches one subscription at most.
LEMMA LeaseStep ==
    ASSUME Inv, LeaseInv, [Next]_vars
    PROVE  LeaseInv'
  <1>1. CASE \/ \E g \in Segments : OfferStep(g) \/ RestartConsumeTask(g)
             \/ \E a \in Ackers : SendCommit(a)
             \/ TakeCommit \/ CloseGroup \/ UNCHANGED vars
    BY Zenon, <1>1, GroupStepsUntouched, UntouchedSound DEF LeaseInv
  <1>2. ASSUME NEW s \in Subscriptions,
               \/ \E size \in Sizes, limit \in Limits, blocking \in Blockings :
                      Subscribe(s, size, limit, blocking)
               \/ \E size \in Resizes : SetSize(s, size)
               \/ NextStep(s)
               \/ CloseOnContextDone(s) \/ CloseOnReturn(s)
               \/ \E n \in 1..MaxSeq : Nack(s, n) \/ \E a \in Ackers : Ack(a, s, n)
        PROVE  LeaseInv'
    <2>1. \A t \in Subscriptions : t # s => Untouched(t)
      BY Zenon, <1>2, OthersUntouched
    <2>2. Accounted(s)' /\ CopySound(s)' /\ GoneIsReleased(s)'
      BY Zenon, <1>2, NextLeaseSound, SettleSound, CloseSound, CopyStepSound, OtherStepsSound
         DEF NextStep
    <2> QED BY Zenon, <2>1, <2>2, UntouchedSound DEF LeaseInv
  <1> QED BY Zenon, <1>1, <1>2 DEF Next

\* There are no leases before there are subscriptions.
LEMMA InitLease == Init => LeaseInv
  <1> SUFFICES ASSUME Init, NEW s \in Subscriptions
               PROVE  Accounted(s) /\ CopySound(s) /\ GoneIsReleased(s)
    BY Zenon DEF LeaseInv
  <1>1. LeasedTo(s) = {}
    BY Zenon, GroupAssumption DEF Init, LeasedTo, EmptySlot
  <1>2. subscription[s].inflight = 0
    BY Zenon DEF Init
  <1>3. Accounted(s)
    BY <1>1, <1>2, FS_EmptySet DEF Accounted
  <1>4. nextPc[s] = "none"
    BY Zenon DEF Init
  <1> QED BY Zenon, <1>1, <1>3, <1>4 DEF CopySound, GoneIsReleased, Copying

\* LeaseInv is an invariant of the consumer group.
THEOREM LeaseInvariance == Spec => []LeaseInv
  <1>1. Inv /\ LeaseInv /\ [Next]_vars => LeaseInv'
    BY Zenon, LeaseStep
  <1> QED BY InitLease, Invariance, <1>1, PTL DEF Spec

\* inflight counts the leases of a subscription that is open, for any number of
\* clients, and no two of its leases have the same sequence number.
THEOREM LeasesAreCounted == Spec => []LeaseAccounting
  <1>1. LeaseInv => LeaseAccounting
    BY Zenon DEF LeaseInv, Accounted, LeaseAccounting
  <1> QED BY <1>1, LeaseInvariance, PTL

\* The copy that Next makes of its slot without the mutex is the leased message.
THEOREM DeliveriesAreFaithful == Spec => []DeliveryFaithful
  <1>1. Inv /\ LeaseInv => DeliveryFaithful
    <2> SUFFICES ASSUME Inv, LeaseInv, NEW s \in Subscriptions,
                        nextPc[s] = "returning", ~subscription[s].closed
                 PROVE  /\ LeasedAs(slot[s], s, subscription[s].seq)
                        /\ delivery[s] = messages[slot[s]]
      BY Zenon DEF DeliveryFaithful
    <2>1. /\ slot[s] \in LeasedTo(s)
          /\ messages[slot[s]].seqNo = subscription[s].seq
          /\ delivery[s].msg = messages[slot[s]].msg
          /\ delivery[s].sub = messages[slot[s]].sub
          /\ delivery[s].seqNo = messages[slot[s]].seqNo
      BY Zenon DEF LeaseInv, CopySound, Copying
    <2>2. delivery[s] \in Slot /\ messages[slot[s]] \in Slot
      BY Zenon DEF Inv, TypeOK
    <2>3. \A x, y \in Slot : x.msg = y.msg /\ x.sub = y.sub /\ x.seqNo = y.seqNo => x = y
      BY DEF Slot
    <2>4. delivery[s] = messages[slot[s]]
      BY Zenon, <2>1, <2>2, <2>3
    <2> QED BY Zenon, <2>1, <2>4 DEF LeasedTo, LeasedAs
  <1> QED BY <1>1, Invariance, LeaseInvariance, PTL

\* A handler that has returned leaves no lease behind.
THEOREM LeasesAreReleased == Spec => []ReleasedWhenGone
  <1>1. LeaseInv => ReleasedWhenGone
    BY Zenon DEF LeaseInv, GoneIsReleased, ReleasedWhenGone
  <1> QED BY <1>1, LeaseInvariance, PTL

-----------------------------------------------------------------------------
(* The size of a subscription.                                             *)

\* What SizeRespected says of a step.
WithinSize ==
    \A s \in Subscriptions :
        Cardinality(LeasedTo(s)') > Cardinality(LeasedTo(s)) =>
            \/ subscription[s].size = 0
            \/ Cardinality(LeasedTo(s)') <= subscription[s].size

\* Only NextLease takes a lease, within the limits it has looked at.
LEMMA LeaseWithinSize ==
    ASSUME Inv, LeaseInv, [Next]_vars
    PROVE  WithinSize
  <1> SUFFICES ASSUME NEW t \in Subscriptions,
                      Cardinality(LeasedTo(t)') > Cardinality(LeasedTo(t))
               PROVE  \/ subscription[t].size = 0
                      \/ Cardinality(LeasedTo(t)') <= subscription[t].size
    BY Zenon DEF WithinSize
  <1>1. /\ IsFiniteSet(LeasedTo(t)) /\ Cardinality(LeasedTo(t)) \in Nat
    BY Zenon, LeasesFinite
  <1>2. /\ ~(LeasedTo(t)' \subseteq LeasedTo(t))
        /\ ~Untouched(t)
    <2>1. ASSUME LeasedTo(t)' \subseteq LeasedTo(t) PROVE FALSE
      <3>1. Cardinality(LeasedTo(t)') <= Cardinality(LeasedTo(t)) /\ IsFiniteSet(LeasedTo(t)')
        BY Zenon, <1>1, <2>1, FS_Subset
      <3>2. Cardinality(LeasedTo(t)') \in Nat
        BY Zenon, <3>1, FS_CardinalityType
      <3> QED BY <1>1, <3>1, <3>2
    <2>2. Untouched(t) => LeasedTo(t)' \subseteq LeasedTo(t)
      BY Zenon DEF Untouched, LeasesKept
    <2> QED BY Zenon, <2>1, <2>2
  <1>3. PICK s \in Subscriptions :
            \/ \E size \in Sizes, limit \in Limits, blocking \in Blockings :
                   Subscribe(s, size, limit, blocking)
            \/ \E size \in Resizes : SetSize(s, size)
            \/ NextStep(s)
            \/ CloseOnContextDone(s) \/ CloseOnReturn(s)
            \/ \E n \in 1..MaxSeq : Nack(s, n) \/ \E a \in Ackers : Ack(a, s, n)
    BY Zenon, <1>2, GroupStepsUntouched DEF Next
  <1>4. s = t
    BY Zenon, <1>2, <1>3, OthersUntouched
  <1>5. ~(\E n \in 1..MaxSeq : Nack(t, n) \/ \E a \in Ackers : Ack(a, t, n))
    <2> SUFFICES ASSUME NEW n \in 1..MaxSeq, Nack(t, n) \/ \E a \in Ackers : Ack(a, t, n)
                 PROVE  FALSE
      OBVIOUS
    <2>1. \E i \in LeasedTo(t) : LeasedTo(t)' = LeasedTo(t) \ {i}
      BY Zenon, SettleLeases
    <2> QED BY Zenon, <1>2, <2>1
  <1>6. ~(CloseOnContextDone(t) \/ CloseOnReturn(t))
    BY Zenon, <1>2, CloseLeases DEF CloseOnContextDone, CloseOnReturn
  <1>7. ~UNCHANGED <<messages, read, write>>
    BY Zenon, <1>2, RingKept DEF LeasesKept
  <1>8. NextLease(t)
    BY Zenon, <1>3, <1>4, <1>5, <1>6, <1>7
       DEF Subscribe, SetSize, NextStep, NextEnter, NextReturnError, NextWait,
           NextCopyBody, NextCopyLease, NextReturn, groupVars
  <1>9. Cardinality(LeasedTo(t)') = Cardinality(LeasedTo(t)) + 1
    <2>1. PICK i \in Index : i \notin LeasedTo(t) /\ LeasedTo(t)' = LeasedTo(t) \cup {i}
      BY Zenon, <1>8, NextLeaseLeases
    <2> QED BY Zenon, <1>1, <2>1, FS_AddElement
  <1>10. subscription[t].size = 0 \/ subscription[t].inflight < subscription[t].size
    BY Zenon, <1>8 DEF NextLease, WithinLimits
  <1>11. /\ Cardinality(LeasedTo(t)) <= subscription[t].inflight
         /\ subscription[t].inflight \in Int /\ subscription[t].size \in Nat
    BY Zenon DEF LeaseInv, Accounted, Inv, TypeOK, SubscriptionType
  <1> QED BY <1>1, <1>9, <1>10, <1>11

\* No step, of however many clients and handlers, takes a subscription over its
\* size.
THEOREM SizesAreRespected == Spec => SizeRespected
  <1>1. Inv /\ LeaseInv /\ [Next]_vars => [WithinSize]_vars
    BY Zenon, LeaseWithinSize
  <1>2. Spec => [][WithinSize]_vars
    BY <1>1, Invariance, LeaseInvariance, PTL DEF Spec
  <1> QED BY Zenon, <1>2 DEF SizeRespected, WithinSize

-----------------------------------------------------------------------------
(* The condition variable.                                                 *)

\* After a broadcast nobody waits.
LEMMA NobodyWaits ==
    ASSUME TypeOK
    PROVE  /\ \A t \in Subscriptions : Wake(nextPc)[t] # "waiting"
           /\ \A g \in Segments : Wake(offerPc)[g] # "waiting"
           /\ DOMAIN Wake(nextPc) = Subscriptions /\ DOMAIN Wake(offerPc) = Segments
  BY Zenon DEF TypeOK, Wake

\* Who goes to sleep on the condition has looked at the ring under the lock, and
\* every step that gives a sleeper something to do broadcasts.
LEMMA WaitStep ==
    ASSUME Inv, WaitJustified, [Next]_vars
    PROVE  WaitJustified'
  <1> USE DEF groupVars, subscriptionVars
  <1>1. TypeOK /\ DOMAIN nextPc = Subscriptions /\ DOMAIN offerPc = Segments
    BY Zenon DEF Inv, TypeOK
  <1>2. CASE \/ \E g \in Segments : OfferPut(g)
             \/ CloseGroup
             \/ \E s \in Subscriptions :
                 \/ \E size \in Sizes, limit \in Limits, blocking \in Blockings :
                        Subscribe(s, size, limit, blocking)
                 \/ \E size \in Resizes : SetSize(s, size)
                 \/ CloseOnContextDone(s) \/ CloseOnReturn(s)
                 \/ \E n \in 1..MaxSeq : Nack(s, n) \/ \E a \in Ackers : Ack(a, s, n)
    <2>1. /\ \A t \in Subscriptions : nextPc'[t] # "waiting"
          /\ \A g \in Segments : offerPc'[g] # "waiting"
      BY ZenonT(30), <1>1, <1>2, NobodyWaits
         DEF OfferPut, CloseGroup, Subscribe, SetSize, CloseOnContextDone, CloseOnReturn,
             Nack, Ack, Broadcast
    <2> QED BY ZenonT(30), <2>1 DEF WaitJustified
  <1>3. ASSUME UNCHANGED <<messages, read, write, closed, subscription>>
        PROVE  /\ Full' <=> Full
               /\ HasReady' <=> HasReady
               /\ \A s \in Subscriptions : WithinLimits(s)' <=> WithinLimits(s)
               /\ \A s \in Subscriptions : NextGivesUp(s)' <=> NextGivesUp(s)
    BY Zenon, <1>3 DEF Full, HasReady, WithinLimits, NextGivesUp, NothingToWaitFor, Held, Distance
  <1>4. CASE \/ \E g \in Segments : OfferEnter(g) \/ OfferWait(g) \/ RestartConsumeTask(g)
             \/ \E s \in Subscriptions :
                 \/ NextEnter(s) \/ NextReturnError(s) \/ NextWait(s)
                 \/ NextCopyBody(s) \/ NextCopyLease(s) \/ NextReturn(s)
             \/ \E a \in Ackers : SendCommit(a)
             \/ TakeCommit \/ UNCHANGED vars
    <2>1. UNCHANGED <<messages, read, write, closed, subscription>>
      BY Zenon, <1>4 DEF OfferEnter, OfferWait, RestartConsumeTask, NextEnter, NextReturnError,
                  NextWait, NextCopyBody, NextCopyLease, NextReturn, SendCommit, TakeCommit, vars
    <2>2. \A g \in Segments : offerPc'[g] = "waiting" =>
              offerPc[g] = "waiting" \/ (Full /\ ~closed)
      BY Zenon, <1>1, <1>4
         DEF OfferEnter, OfferWait, RestartConsumeTask, NextEnter, NextReturnError,
             NextWait, NextCopyBody, NextCopyLease, NextReturn, SendCommit, TakeCommit, vars
    <2>3. \A s \in Subscriptions : nextPc'[s] = "waiting" =>
              nextPc[s] = "waiting" \/ (~(WithinLimits(s) /\ HasReady) /\ ~NextGivesUp(s))
      BY Zenon, <1>1, <1>4
         DEF OfferEnter, OfferWait, RestartConsumeTask, NextEnter, NextReturnError,
             NextWait, NextCopyBody, NextCopyLease, NextReturn, SendCommit, TakeCommit, vars
    <2> QED BY Zenon, <1>3, <2>1, <2>2, <2>3 DEF WaitJustified
  <1>5. ASSUME NEW s \in Subscriptions, NextLease(s)
        PROVE  WaitJustified'
    <2>1. UNCHANGED <<read, write, closed, offerPc>> /\ HasReady
      BY Zenon, <1>5 DEF NextLease, HasReady, FirstReady
    <2>2. \A g \in Segments : offerPc'[g] = "waiting" => Full' /\ ~closed'
      BY Zenon, <2>1 DEF WaitJustified, Full
    <2>3. ASSUME NEW t \in Subscriptions, nextPc'[t] = "waiting"
          PROVE  ~(WithinLimits(t) /\ HasReady)' /\ ~NextGivesUp(t)'
      <3>1. t # s /\ nextPc[t] = "waiting" /\ subscription'[t] = subscription[t]
        BY Zenon, <1>1, <1>5, <2>3 DEF NextLease, TypeOK
      <3>2. /\ WithinLimits(t)' <=> WithinLimits(t)
            /\ NothingToWaitFor(t)' <=> NothingToWaitFor(t)
        BY Zenon, <3>1 DEF WithinLimits, NothingToWaitFor
      <3>3. ~WithinLimits(t) /\ ~NothingToWaitFor(t)
        BY Zenon, <2>1, <3>1 DEF WaitJustified, NextGivesUp
      <3> QED BY Zenon, <3>2, <3>3 DEF NextGivesUp
    <2> QED BY Zenon, <2>2, <2>3 DEF WaitJustified
  <1> QED BY Zenon, <1>2, <1>4, <1>5 DEF Next, OfferStep, NextStep

\* Nobody waits on the condition variable for what is there already: every change
\* to what Offer and Next wait for is followed by a broadcast, for any number of
\* goroutines that wait.
THEOREM NoWakeupIsLost == Spec => []WaitJustified
  <1>1. Init => WaitJustified
    BY Zenon DEF Init, WaitJustified
  <1>2. Inv /\ WaitJustified /\ [Next]_vars => WaitJustified'
    BY Zenon, WaitStep
  <1> QED BY <1>1, <1>2, Invariance, PTL DEF Spec
-----------------------------------------------------------------------------
(* The group is a work queue: places and slots.                            *)

\* Nth and Distance are inverse to each other, and the held slots are those at a
\* place before write's.
LEMMA PlaceFacts ==
    ASSUME read \in Index, write \in Index
    PROVE  /\ \A i \in Index : Distance(i) \in Index /\ Nth(Distance(i)) = i
           /\ \A p \in Index : Nth(p) \in Index /\ Distance(Nth(p)) = p
           /\ \A p \in Index : Held(Nth(p)) <=> p < Distance(write)
           /\ \A i \in Index : Held(i) <=> Distance(i) < Distance(write)
  <1>1. \A i \in Index : Distance(i) \in Index
    BY Zenon, DistanceFacts DEF Index
  <1>2. \A p \in Index : Nth(p) \in Index /\ Distance(Nth(p)) = p
    BY Zenon, DistanceFacts DEF Index
  <1>3. \A i \in Index : Nth(Distance(i)) = i
    BY <1>1, <1>2, DistanceFacts
  <1>4. \A p \in Index : Held(Nth(p)) <=> p < Distance(write)
    BY Zenon, <1>2 DEF Held
  <1> QED BY Zenon, <1>1, <1>2, <1>3, <1>4 DEF Held

\* The line holds the un-acked messages.
LEMMA LineFacts ==
    /\ DOMAIN Line = Unacked
    /\ \A p \in Unacked : /\ Line[p].msg = messages[Nth(p)].msg
                          /\ Line[p].holder = messages[Nth(p)].sub
  BY Zenon DEF Line

\* Steps that leave the ring as it is are not seen.
LEMMA RingKeptStutters ==
    ASSUME UNCHANGED <<messages, read, write, acked>>
    PROVE  UNCHANGED Queue!queueVars
  <1>1. /\ \A p \in Index : Nth(p)' = Nth(p)
        /\ Distance(write)' = Distance(write)
    BY Zenon DEF Nth, Distance
  <1>2. Unacked' = Unacked
    BY Zenon, <1>1 DEF Unacked
  <1>3. \A p \in Unacked : p \in Index
    BY Zenon DEF Unacked
  <1>4. Line' = Line
    BY Zenon, <1>1, <1>2, <1>3 DEF Line
  <1> QED BY Zenon, <1>4 DEF Queue!queueVars

\* Offer puts a message behind all others, if there is room for it.
LEMMA OfferPutIsPut ==
    ASSUME Inv, NEW g \in Segments, OfferPut(g)
    PROVE  Queue!QueueNext
  <1> DEFINE m == [segment |-> g, offset |-> cursor[g] + 1]
             last == Distance(write)
  <1>1. /\ read \in Index /\ write \in Index /\ ~Full
        /\ write' = Succ(write) /\ read' = read
        /\ messages \in [Index -> Slot]
        /\ messages'[write] = [msg |-> m, sub |-> Ready, seqNo |-> 0]
        /\ \A i \in Index : i # write => messages'[i] = messages[i]
        /\ acked' = acked
    BY Zenon DEF Inv, TypeOK, OfferPut, commitVars
  <1>2. m \in Message
    BY GroupAssumption DEF Inv, TypeOK, OfferHasMessage, OfferPut, Message
  <1>3. last \in Index /\ last < N /\ Distance(write)' = last + 1
    BY SMTT(30), <1>1, NType DEF Index, Succ, Distance, Full
  <1>4. /\ \A p \in Index : Nth(p)' = Nth(p) /\ Nth(p) \in Index
        /\ Nth(last) = write
        /\ \A p \in Index : p # last => Nth(p) # write
    <2>1. \A p \in Index : Nth(p)' = Nth(p)
      BY Zenon, <1>1 DEF Nth
    <2> QED BY Zenon, <1>1, <2>1, PlaceFacts
  <1> HIDE DEF m, last
  <1>5. \A p \in Index :
            /\ p = last => messages'[Nth(p)'] = [msg |-> m, sub |-> Ready, seqNo |-> 0]
            /\ p # last => messages'[Nth(p)'] = messages[Nth(p)]
    BY Zenon, <1>1, <1>4
  <1>6. Unacked' = Unacked \cup {last}
    <2>1. Unacked' = {p \in Index : p < last + 1 /\ messages'[Nth(p)'].sub # Acked}
      BY Zenon, <1>3 DEF Unacked
    <2>2. Unacked = {p \in Index : p < last /\ messages[Nth(p)].sub # Acked}
      BY Zenon DEF Unacked, last
    <2>3. \A p \in Index : p < last + 1 <=> p < last \/ p = last
      BY <1>3, NType DEF Index
    <2>4. \A p \in Index : p < last => p # last
      BY <1>3, NType DEF Index
    <2> QED BY <1>3, <1>5, <2>1, <2>2, <2>3, <2>4, GroupAssumption
  <1>7. \A p \in Unacked : p \in Index /\ p < last
    BY Zenon DEF Unacked, last
  <1>8. Line' = [q \in Unacked \cup {last} |->
            IF q = last THEN [msg |-> m, holder |-> Ready] ELSE Line[q]]
    <2>1. \A p \in Unacked \cup {last} :
              [msg |-> messages'[Nth(p)'].msg, holder |-> messages'[Nth(p)'].sub]
                  = IF p = last THEN [msg |-> m, holder |-> Ready] ELSE Line[p]
      BY <1>3, <1>5, <1>7, LineFacts DEF Line
    <2>2. Line' = [p \in Unacked \cup {last} |->
              [msg |-> messages'[Nth(p)'].msg, holder |-> messages'[Nth(p)'].sub]]
      BY Zenon, <1>6 DEF Line
    <2> QED BY Zenon, <2>1, <2>2
  <1>9. Queue!Put(m)
    <2>1. DOMAIN Line = Unacked
      BY Zenon, LineFacts
    <2>2. last \in 0..(N - 1) /\ \A q \in DOMAIN Line : q < last
      BY <1>3, <1>7, <2>1, NType DEF Index
    <2>3. Line' = [q \in DOMAIN Line \cup {last} |->
              IF q = last THEN [msg |-> m, holder |-> Ready] ELSE Line[q]]
      BY Zenon, <1>8, <2>1
    <2> QED BY Zenon, <1>1, <2>2, <2>3 DEF Queue!Put, Queue!Places
  <1> QED BY Zenon, <1>2, <1>9 DEF Queue!QueueNext

\* Next leases the first free message of the line.
LEMMA NextLeaseIsLease ==
    ASSUME Inv, NEW s \in Subscriptions, NextLease(s)
    PROVE  Queue!QueueNext
  <1>1. PICK i \in Index :
            /\ FirstReady(i)
            /\ messages' = [messages EXCEPT ![i] =
                   [messages[i] EXCEPT !.sub = s, !.seqNo = subscription[s].seq + 1]]
    BY Zenon DEF NextLease
  <1>2. /\ messages \in [Index -> Slot] /\ read \in Index /\ write \in Index
        /\ read' = read /\ write' = write /\ acked' = acked
        /\ s # Acked /\ Ready # Acked
    BY Zenon, GroupAssumption DEF Inv, TypeOK, NextLease, commitVars
  <1>3. PICK p \in Index : p = Distance(i) /\ Nth(p) = i
    BY Zenon, <1>2, PlaceFacts
  <1>4. /\ \A q \in Index : Nth(q)' = Nth(q) /\ Nth(q) \in Index /\ Distance(Nth(q)) = q
        /\ Distance(write)' = Distance(write)
    BY Zenon, <1>2, PlaceFacts DEF Nth, Distance
  <1>5. \A q \in Index :
            /\ messages'[Nth(q)'].msg = messages[Nth(q)].msg
            /\ messages'[Nth(q)'].sub = IF q = p THEN s ELSE messages[Nth(q)].sub
    BY Zenon, <1>1, <1>2, <1>3, <1>4 DEF Slot
  <1>6. p \in Unacked /\ messages[Nth(p)].sub = Ready
    BY Zenon, <1>1, <1>2, <1>3, PlaceFacts DEF FirstReady, Unacked
  <1>7. Unacked' = Unacked
    <2>1. \A q \in Index : q \in Unacked' <=> q \in Unacked
      BY Zenon, <1>2, <1>4, <1>5, <1>6 DEF Unacked
    <2> QED BY Zenon, <2>1 DEF Unacked
  <1>8. \A q \in Unacked : q < p => Line[q].holder # Ready
    <2> SUFFICES ASSUME NEW q \in Unacked, q < p
                 PROVE  messages[Nth(q)].sub # Ready
      BY Zenon, LineFacts
    <2>1. q \in Index /\ Nth(q) \in Index /\ Distance(Nth(q)) < Distance(i)
      BY Zenon, <1>3, <1>4 DEF Unacked
    <2> QED BY Zenon, <1>1, <2>1 DEF FirstReady
  <1>9. Line' = [Line EXCEPT ![p].holder = s]
    <2>1. Line' = [q \in Unacked |->
              [msg |-> messages'[Nth(q)'].msg, holder |-> messages'[Nth(q)'].sub]]
      BY Zenon, <1>7 DEF Line
    <2>2. \A q \in Unacked : q \in Index
      BY Zenon DEF Unacked
    <2> QED BY Zenon, <1>5, <2>1, <2>2 DEF Line
  <1>10. Queue!Lease(s)
    <2>1. /\ p \in DOMAIN Line /\ Line[p].holder = Ready
          /\ \A q \in DOMAIN Line : q < p => Line[q].holder # Ready
      BY Zenon, <1>6, <1>8, LineFacts
    <2> QED BY Zenon, <1>2, <1>9, <2>1 DEF Queue!Lease
  <1> QED BY Zenon, <1>10 DEF Queue!QueueNext

\* Nack and Subscription.Close give messages back to their places.
LEMMA GivingBackIsRelease ==
    ASSUME Inv, NEW s \in Subscriptions, NEW R \in SUBSET Index,
           \A i \in R : Held(i) /\ messages[i].sub = s,
           \A i \in Index : messages'[i] =
               IF i \in R THEN [messages[i] EXCEPT !.sub = Ready, !.seqNo = 0] ELSE messages[i],
           UNCHANGED <<read, write, acked>>
    PROVE  Queue!QueueNext
  <1>1. /\ messages \in [Index -> Slot] /\ read \in Index /\ write \in Index
        /\ s # Acked /\ Ready # Acked
    BY Zenon, GroupAssumption DEF Inv, TypeOK
  <1> DEFINE ps == {p \in Index : Nth(p) \in R}
  <1>2. /\ \A q \in Index : Nth(q)' = Nth(q) /\ Nth(q) \in Index
        /\ Distance(write)' = Distance(write)
        /\ \A q \in Index : Held(Nth(q)) <=> q < Distance(write)
    BY Zenon, <1>1, PlaceFacts DEF Nth, Distance
  <1>3. \A q \in Index :
            /\ messages'[Nth(q)'].msg = messages[Nth(q)].msg
            /\ messages'[Nth(q)'].sub = IF q \in ps THEN Ready ELSE messages[Nth(q)].sub
    <2> SUFFICES ASSUME NEW q \in Index
                 PROVE  /\ messages'[Nth(q)].msg = messages[Nth(q)].msg
                        /\ messages'[Nth(q)].sub = IF q \in ps THEN Ready ELSE messages[Nth(q)].sub
      BY Zenon, <1>2
    <2>1. PICK i \in Index : i = Nth(q)
      BY Zenon, <1>2
    <2>2. messages[i] \in Slot
      BY Zenon, <1>1
    <2>3. /\ [messages[i] EXCEPT !.sub = Ready, !.seqNo = 0].msg = messages[i].msg
          /\ [messages[i] EXCEPT !.sub = Ready, !.seqNo = 0].sub = Ready
      BY Zenon, <2>2 DEF Slot
    <2>4. q \in ps <=> i \in R
      BY Zenon, <2>1
    <2> QED BY Zenon, <2>1, <2>3, <2>4
  <1>4. \A q \in ps : q \in Unacked /\ messages[Nth(q)].sub = s
    BY Zenon, <1>1, <1>2 DEF Unacked
  <1> HIDE DEF ps
  <1>5. Unacked' = Unacked
    <2>1. \A q \in Index : q \in Unacked' <=> q \in Unacked
      BY Zenon, <1>1, <1>2, <1>3, <1>4 DEF Unacked
    <2> QED BY Zenon, <2>1 DEF Unacked
  <1>6. Line' = [q \in DOMAIN Line |->
            IF q \in ps THEN [Line[q] EXCEPT !.holder = Ready] ELSE Line[q]]
    <2>1. Line' = [q \in Unacked |->
              [msg |-> messages'[Nth(q)'].msg, holder |-> messages'[Nth(q)'].sub]]
      BY Zenon, <1>5 DEF Line
    <2>2. \A q \in Unacked : q \in Index
      BY Zenon DEF Unacked
    <2>3. \A q \in Unacked :
              [msg |-> messages'[Nth(q)'].msg, holder |-> messages'[Nth(q)'].sub]
                  = IF q \in ps THEN [Line[q] EXCEPT !.holder = Ready] ELSE Line[q]
      BY Zenon, <1>3, <2>2 DEF Line
    <2> QED BY Zenon, <2>1, <2>3, LineFacts
  <1>7. ps \in SUBSET DOMAIN Line /\ \A p \in ps : Line[p].holder = s
    BY Zenon, <1>4, LineFacts
  <1>8. Queue!Release(s, ps)
    BY Zenon, <1>6, <1>7 DEF Queue!Release
  <1> QED BY Zenon, <1>7, <1>8 DEF Queue!QueueNext

\* Ack takes the message out of the line; the slots it pops are acked already,
\* and the others move up.
LEMMA AckIsAcknowledge ==
    ASSUME Inv, NEW a \in Ackers, NEW s \in Subscriptions, NEW n \in 1..MaxSeq,
           Ack(a, s, n)
    PROVE  Queue!QueueNext
  <1>1. PICK i \in Index, r \in Index :
            /\ LeasedAs(i, s, n)
            /\ AckedUpTo([messages EXCEPT ![i] = [@ EXCEPT !.sub = Acked, !.seqNo = 0]], r)
            /\ messages' =
                   Popped([messages EXCEPT ![i] = [@ EXCEPT !.sub = Acked, !.seqNo = 0]], r)
            /\ read' = r
            /\ acked' = acked \cup {messages[i].msg}
    BY Zenon DEF Ack
  <1> DEFINE ring == [messages EXCEPT ![i] = [@ EXCEPT !.sub = Acked, !.seqNo = 0]]
  <1>2. /\ messages \in [Index -> Slot] /\ read \in Index /\ write \in Index /\ write' = write
        /\ s # Acked /\ s # Ready
    BY Zenon, GroupAssumption DEF Inv, TypeOK, Ack
  <1>3. PICK p \in Index : p = Distance(i) /\ Nth(p) = i
    BY Zenon, <1>2, PlaceFacts
  <1>4. PICK d \in Index : d = Distance(r) /\ Nth(d) = r
    BY Zenon, <1>2, PlaceFacts
  <1>5. /\ Distance(write) \in Index /\ d <= Distance(write)
        /\ Distance(write)' = Distance(write) - d
    <2>1. Distance(write) \in Index /\ d <= Distance(write)
      BY Zenon, <1>1, <1>2, <1>4, PlaceFacts DEF AckedUpTo
    <2>2. Distance(write) >= Distance(r)
      BY Zenon, <1>4, <2>1, NType DEF Index
    <2> QED BY Zenon, <1>1, <1>2, <1>4, <2>1, <2>2, PopFacts
  <1>6. \A x \in Index : x >= d => x - d \in Index /\ Nth(x - d)' = Nth(x)
    <2>1. ASSUME NEW x \in Index, x >= d PROVE x - d \in Index /\ Nth(x - d)' = Nth(x)
      <3>1. Nth(x - d)' = IF r + (x - d) <= N THEN r + (x - d) ELSE r + (x - d) - N - 1
        BY Zenon, <1>1 DEF Nth
      <3>2. r = IF read + d <= N THEN read + d ELSE read + d - N - 1
        BY Zenon, <1>4 DEF Nth
      <3> QED BY <1>2, <2>1, <3>1, <3>2, NType DEF Nth, Index
    <2> QED BY Zenon, <2>1
  <1>7. /\ ring[i].sub = Acked
        /\ \A j \in Index : j # i => ring[j] = messages[j]
        /\ \A j \in Index : Distance(j) >= d => messages'[j] = ring[j]
        /\ \A j \in Index : Distance(j) < d => ring[j].sub = Acked
    <2>1. \A j \in Index : Distance(j) \in Index
      BY Zenon, <1>2, PlaceFacts
    <2> QED BY SMTT(30), <1>1, <1>2, <1>4, <2>1, NType DEF Slot, Popped, AckedUpTo, Index
  <1> HIDE DEF ring
  <1>8. \A x \in Index :
            /\ Nth(x) \in Index /\ Distance(Nth(x)) = x
            /\ Nth(x) = i <=> x = p
    BY Zenon, <1>2, <1>3, PlaceFacts
  <1>9. p \in Unacked /\ messages[Nth(p)].sub = s
    BY Zenon, <1>1, <1>2, <1>3, PlaceFacts DEF LeasedAs, Unacked
  <1>10. \A x \in Unacked \ {p} : x \in Index /\ x >= d
    <2> SUFFICES ASSUME NEW x \in Unacked \ {p} PROVE x \in Index /\ x >= d
      OBVIOUS
    <2>1. x \in Index /\ messages[Nth(x)].sub # Acked
      BY Zenon DEF Unacked
    <2>2. ~(x < d)
      BY <1>7, <1>8, <2>1
    <2> QED BY <2>1, <2>2, NType DEF Index
  <1>11. \A x \in Index : x >= d =>
            /\ x = p => messages'[Nth(x)].sub = Acked
            /\ x # p => messages'[Nth(x)] = messages[Nth(x)]
    BY Zenon, <1>7, <1>8
  <1>12. Unacked' = {x - d : x \in Unacked \ {p}}
    <2>1. ASSUME NEW x \in Unacked \ {p} PROVE x - d \in Unacked'
      <3>1. x \in Index /\ x >= d /\ x < Distance(write) /\ messages[Nth(x)].sub # Acked
        BY Zenon, <1>10 DEF Unacked
      <3>2. x - d \in Index /\ Nth(x - d)' = Nth(x)
        BY Zenon, <1>6, <3>1
      <3>3. x - d < Distance(write)'
        BY <1>5, <3>1, NType DEF Index
      <3>4. messages'[Nth(x)].sub # Acked
        BY Zenon, <1>11, <3>1
      <3> QED BY Zenon, <3>2, <3>3, <3>4 DEF Unacked
    <2>2. ASSUME NEW q \in Unacked' PROVE q \in {x - d : x \in Unacked \ {p}}
      <3>1. q \in Index /\ q < Distance(write) - d /\ messages'[Nth(q)'].sub # Acked
        BY Zenon, <1>5 DEF Unacked
      <3>2. PICK x \in Index : x = q + d /\ x >= d /\ x < Distance(write) /\ q = x - d
        BY <1>5, <3>1, NType DEF Index
      <3>3. messages'[Nth(x)].sub # Acked
        BY Zenon, <1>6, <3>1, <3>2
      <3>4. x # p /\ messages[Nth(x)].sub # Acked
        BY Zenon, <1>11, <3>2, <3>3
      <3>5. x \in Unacked \ {p}
        BY Zenon, <3>2, <3>4 DEF Unacked
      <3> QED BY Zenon, <3>2, <3>5
    <2> QED BY Zenon, <2>1, <2>2
  <1>13. Line' = [q \in {x - d : x \in Unacked \ {p}} |-> Line[q + d]]
    <2>1. Line' = [q \in {x - d : x \in Unacked \ {p}} |->
              [msg |-> messages'[Nth(q)'].msg, holder |-> messages'[Nth(q)'].sub]]
      BY Zenon, <1>12 DEF Line
    <2>2. ASSUME NEW x \in Unacked \ {p}
          PROVE  [msg |-> messages'[Nth(x - d)'].msg, holder |-> messages'[Nth(x - d)'].sub]
                     = Line[(x - d) + d]
      <3>1. x \in Index /\ x >= d
        BY Zenon, <1>10
      <3>2. (x - d) + d = x
        BY <3>1, NType DEF Index
      <3>3. Nth(x - d)' = Nth(x) /\ messages'[Nth(x)] = messages[Nth(x)]
        BY Zenon, <1>6, <1>11, <3>1
      <3>4. Line[x] = [msg |-> messages[Nth(x)].msg, holder |-> messages[Nth(x)].sub]
        BY Zenon DEF Line
      <3> QED BY Zenon, <3>2, <3>3, <3>4
    <2>3. \A q \in {x - d : x \in Unacked \ {p}} :
              [msg |-> messages'[Nth(q)'].msg, holder |-> messages'[Nth(q)'].sub] = Line[q + d]
      BY Zenon, <2>2
    <2> QED BY Zenon, <2>1, <2>3
  <1>14. Queue!Acknowledge(p, d)
    <2>1. DOMAIN Line = Unacked /\ Line[p].holder = s /\ Line[p].msg = messages[i].msg
      BY Zenon, <1>3, <1>9, LineFacts
    <2>2. \A q \in Unacked \ {p} : d <= q
      BY Zenon, <1>10, NType DEF Index
    <2> QED BY Zenon, <1>1, <1>2, <1>13, <2>1, <2>2 DEF Queue!Acknowledge
  <1>15. p \in DOMAIN Line /\ d \in 0..N
    BY Zenon, <1>9, LineFacts DEF Index
  <1> QED BY Zenon, <1>14, <1>15 DEF Queue!QueueNext

-----------------------------------------------------------------------------
\* Every step of the group is a step of the queue or leaves it alone.
LEMMA StepIsQueueStep ==
    ASSUME Inv, [Next]_vars
    PROVE  [Queue!QueueNext]_Queue!queueVars
  <1> USE DEF groupVars, subscriptionVars, taskVars, commitVars
  <1>1. ASSUME UNCHANGED <<messages, read, write, acked>>
        PROVE  [Queue!QueueNext]_Queue!queueVars
    BY Zenon, <1>1, RingKeptStutters
  <1>2. CASE \/ \E g \in Segments : OfferEnter(g) \/ OfferWait(g) \/ RestartConsumeTask(g)
             \/ \E a \in Ackers : SendCommit(a)
             \/ TakeCommit \/ CloseGroup \/ UNCHANGED vars
    BY Zenon, <1>1, <1>2 DEF OfferEnter, OfferWait, RestartConsumeTask, SendCommit, TakeCommit,
                      CloseGroup, vars
  <1>3. CASE \E s \in Subscriptions :
                 \/ \E size \in Sizes, limit \in Limits, blocking \in Blockings :
                        Subscribe(s, size, limit, blocking)
                 \/ \E size \in Resizes : SetSize(s, size)
                 \/ NextEnter(s) \/ NextReturnError(s) \/ NextWait(s)
                 \/ NextCopyBody(s) \/ NextCopyLease(s) \/ NextReturn(s)
    BY Zenon, <1>1, <1>3 DEF Subscribe, SetSize, NextEnter, NextReturnError, NextWait,
                      NextCopyBody, NextCopyLease, NextReturn
  <1>4. ASSUME NEW s \in Subscriptions, CloseOnContextDone(s) \/ CloseOnReturn(s)
        PROVE  Queue!QueueNext
    <2> DEFINE R == {i \in Index : Held(i) /\ messages[i].sub = s}
    <2>1. /\ UNCHANGED <<read, write, acked>>
          /\ \A i \in Index : messages'[i] =
                 IF i \in R THEN [messages[i] EXCEPT !.sub = Ready, !.seqNo = 0] ELSE messages[i]
      BY Zenon, <1>4 DEF CloseOnContextDone, CloseOnReturn, Close
    <2>2. R \in SUBSET Index /\ \A i \in R : Held(i) /\ messages[i].sub = s
      OBVIOUS
    <2> HIDE DEF R
    <2> QED BY Zenon, <2>1, <2>2, GivingBackIsRelease
  <1>5. ASSUME NEW s \in Subscriptions, NEW n \in 1..MaxSeq, Nack(s, n)
        PROVE  Queue!QueueNext
    <2>1. PICK i \in Index :
              /\ Held(i) /\ messages[i].sub = s
              /\ messages' = [messages EXCEPT ![i] =
                     [messages[i] EXCEPT !.sub = Ready, !.seqNo = 0]]
      BY Zenon, <1>5 DEF Nack, LeasedAs
    <2>2. UNCHANGED <<read, write, acked>> /\ messages \in [Index -> Slot]
      BY Zenon, <1>5 DEF Nack, Inv, TypeOK
    <2>3. \A j \in Index : messages'[j] =
              IF j \in {i} THEN [messages[j] EXCEPT !.sub = Ready, !.seqNo = 0] ELSE messages[j]
      BY Zenon, <2>1, <2>2
    <2>4. {i} \in SUBSET Index /\ \A j \in {i} : Held(j) /\ messages[j].sub = s
      BY Zenon, <2>1
    <2> QED BY Zenon, <2>2, <2>3, <2>4, GivingBackIsRelease
  <1> QED BY Zenon, <1>2, <1>3, <1>4, <1>5, OfferPutIsPut, NextLeaseIsLease, AckIsAcknowledge
          DEF Next, OfferStep, NextStep

\* A consumer group, whatever its goroutines do and in whatever order, is seen by
\* its consumers as a queue: the first free message goes to whoever asks, each has
\* one holder, and only the ack of its holder takes it out.
THEOREM GroupIsAWorkQueue == Spec => ImplementsWorkQueue
  <1>1. Init => Queue!QueueInit
    <2> SUFFICES ASSUME Init PROVE Queue!QueueInit
      OBVIOUS
    <2>1. Distance(write) = 0
      BY NType DEF Init, Distance
    <2>2. Unacked = {}
      BY <2>1, NType DEF Unacked, Index
    <2> QED BY Zenon, <2>2, LineFacts DEF Init, Queue!QueueInit
  <1>2. Inv /\ [Next]_vars => [Queue!QueueNext]_Queue!queueVars
    BY Zenon, StepIsQueueStep
  <1> QED BY <1>1, <1>2, Invariance, PTL DEF Spec, ImplementsWorkQueue, Queue!QueueSpec
=============================================================================
