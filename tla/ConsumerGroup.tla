----------------------------- MODULE ConsumerGroup -----------------------------
(***************************************************************************)
(* The in-memory buffer of a running consumer group: mq/consumers/group.go *)
(* and mq/consumers/subscription.go, with the goroutines that call it.     *)
(*                                                                         *)
(*  - one consume task per topic segment calls Group.Offer, in offset      *)
(*    order, and is restarted from the committed offset when it fails;     *)
(*  - one Subscribe handler per subscription loops over Subscription.Next  *)
(*    and closes the subscription when its client goes away;               *)
(*  - RPC handlers call Subscription.Ack and Subscription.Nack;            *)
(*  - the consumer group task reads the Commits channel.                   *)
(*                                                                         *)
(* Whatever the code does while it holds Group.mutex is one action.  What  *)
(* it does outside of it is a step of its own: the closed check at the     *)
(* entry of Offer and Next, the copy of the leased slot at the end of      *)
(* Next, and every send on the Commits channel at the end of Ack.          *)
(***************************************************************************)
EXTENDS Integers, Sequences, FiniteSets

CONSTANTS
    N,              \* capacity of the group and of the Commits channel
    Subscriptions,  \* subscription IDs
    Segments,       \* topic segments, each with its consume task
    Failing,        \* those whose consume task may fail and be restarted
    MaxOffset,      \* bound: messages in a segment
    Ackers,         \* goroutines running Ack and Nack on behalf of clients
    MaxSeq,         \* bound: calls to Next that one handler makes
    Sizes,          \* subscription sizes clients ask for, 0 is unlimited
    Limits,         \* maxMessages clients ask for, 0 is unlimited
    Blockings,      \* whether clients ask for a blocking subscription
    Resizes,        \* sizes clients ask for later
    Ready, Acked,   \* the two SubscriptionID values that name no subscription
    NoMessage       \* the body of a slot after Message.Reset

ASSUME GroupAssumption ==
    /\ N \in Nat \ {0}
    /\ Failing \subseteq Segments
    /\ MaxOffset \in Nat
    /\ MaxSeq \in Nat
    /\ Sizes \subseteq Nat
    /\ Limits \subseteq Nat
    /\ Blockings \subseteq BOOLEAN
    /\ Resizes \subseteq Nat
    /\ Ready \notin Subscriptions
    /\ Acked \notin Subscriptions
    /\ Ready # Acked
    /\ NoMessage \notin [segment : Segments, offset : 1..MaxOffset]

VARIABLES
    messages,       \* Group.messages: the ring of N + 1 slots
    read, write,    \* Group.read, Group.write
    closed,         \* Group.closed; Group.Commits is nil exactly when TRUE
    subscription,   \* the Subscription structs
    nextPc,         \* where the Subscribe handler of a subscription is
    slot,           \* the slot its last successful Next has leased
    delivery,       \* the copy of that slot, while the handler holds it
    offerPc,        \* where the consume task of a segment is
    cursor,         \* offset of the last message it offered
    sending,        \* commits an Ack has collected and not sent yet
    commits,        \* the Commits channel
    taken,          \* largest commit of a segment the group task has read
    acked           \* history: the messages acked so far

groupVars == <<messages, read, write, closed>>
subscriptionVars == <<subscription, slot, delivery>>
taskVars == <<cursor, taken>>
commitVars == <<sending, commits, acked>>
vars == <<groupVars, subscriptionVars, nextPc, offerPc, taskVars, commitVars>>

Message == [segment : Segments, offset : 1..MaxOffset]
Slot == [msg : Message \cup {NoMessage},
         sub : Subscriptions \cup {Ready, Acked},
         seqNo : Nat]
Index == 0..N

\* What Message.Reset leaves: SubscriptionID 0 is the value of an acked slot.
EmptySlot == [msg |-> NoMessage, sub |-> Acked, seqNo |-> 0]

-----------------------------------------------------------------------------
(* The ring.  Slots from read up to write, in ring order, hold messages.   *)

\* (i + 1) % len(messages)
Succ(i) == IF i = N THEN 0 ELSE i + 1

\* How many slots the loops of the code pass on the way from read to i.
Distance(i) == IF read <= i THEN i - read ELSE i + N + 1 - read

Held(i) == Distance(i) < Distance(write)

\* The slot with k slots before it.
Nth(k) == IF read + k <= N THEN read + k ELSE read + k - N - 1

\* Mutant of Full: Offer does not look.
NeverFull == FALSE

Full == Succ(write) = read

HasReady == \E i \in Index : Held(i) /\ messages[i].sub = Ready

\* Mutant of FirstReady: the scan does not stop at the first ready slot.
AnyReady(i) == Held(i) /\ messages[i].sub = Ready

FirstReady(i) ==
    /\ Held(i) /\ messages[i].sub = Ready
    /\ \A j \in Index : Distance(j) < Distance(i) => messages[j].sub # Ready

\* Mutant of WithinLimits: inflight may exceed size by one.
WithinLimitsOffByOne(s) ==
    LET c == subscription[s] IN
    /\ c.size = 0 \/ c.inflight <= c.size
    /\ c.maxMessages = 0 \/ c.seq < c.maxMessages

\* The condition under which Next looks for a message at all.
WithinLimits(s) ==
    LET c == subscription[s] IN
    /\ c.size = 0 \/ c.inflight < c.size
    /\ c.maxMessages = 0 \/ c.seq < c.maxMessages

\* The condition under which Next gives up with ErrEmpty.
NothingToWaitFor(s) ==
    LET c == subscription[s] IN
    /\ c.inflight = 0
    /\ ~c.blocking \/ (c.maxMessages # 0 /\ c.seq >= c.maxMessages)

\* Mutants of Wake: Signal in place of Broadcast, and neither of them.
WakeOne(pc) ==
    IF \E x \in DOMAIN pc : pc[x] = "waiting"
    THEN [pc EXCEPT ![CHOOSE x \in DOMAIN pc : pc[x] = "waiting"] = "locking"]
    ELSE pc

WakeNobody(pc) == pc

\* sync.Cond.Broadcast: who waits goes on to take the mutex again.
Wake(pc) == [x \in DOMAIN pc |-> IF pc[x] = "waiting" THEN "locking" ELSE pc[x]]

Broadcast == nextPc' = Wake(nextPc) /\ offerPc' = Wake(offerPc)

-----------------------------------------------------------------------------
(* Offer, called by the consume tasks.                                     *)

OfferEnter(g) ==
    /\ offerPc[g] = "idle"
    /\ cursor[g] < MaxOffset
    /\ offerPc' = [offerPc EXCEPT ![g] = IF closed THEN "stopped" ELSE "locking"]
    /\ UNCHANGED <<groupVars, subscriptionVars, nextPc, taskVars, commitVars>>

OfferWait(g) ==
    /\ offerPc[g] = "locking"
    /\ Full
    /\ offerPc' = [offerPc EXCEPT ![g] = IF closed THEN "stopped" ELSE "waiting"]
    /\ UNCHANGED <<groupVars, subscriptionVars, nextPc, taskVars, commitVars>>

OfferPut(g) ==
    /\ offerPc[g] = "locking"
    /\ ~Full
    /\ messages' = [messages EXCEPT ![write] =
           [msg |-> [segment |-> g, offset |-> cursor[g] + 1],
            sub |-> Ready, seqNo |-> 0]]
    /\ write' = Succ(write)
    /\ cursor' = [cursor EXCEPT ![g] = @ + 1]
    /\ nextPc' = Wake(nextPc)
    /\ offerPc' = [Wake(offerPc) EXCEPT ![g] = "idle"]
    /\ UNCHANGED <<read, closed, subscriptionVars, taken, commitVars>>

\* The consume task ended with an error; the group task starts it again from
\* the offset it knows to be committed.
RestartConsumeTask(g) ==
    /\ g \in Failing
    /\ offerPc[g] = "idle"
    /\ ~closed
    /\ cursor' = [cursor EXCEPT ![g] = taken[g]]
    /\ UNCHANGED <<groupVars, subscriptionVars, nextPc, offerPc, taken, commitVars>>

CloseGroup ==
    /\ ~closed
    /\ closed' = TRUE
    /\ Broadcast
    /\ UNCHANGED <<messages, read, write, subscriptionVars, taskVars, commitVars>>

-----------------------------------------------------------------------------
(* Subscriptions and their handlers.                                       *)

\* The handler creates the subscription and, before its first Next, sets what
\* the client asked for (SetSize, SetMaxMessages, SetBlocking).  It may have
\* looked the group up before the group was closed.
Subscribe(s, size, limit, blocking) ==
    /\ nextPc[s] = "none"
    /\ subscription' = [subscription EXCEPT ![s] =
           [@ EXCEPT !.size = size, !.maxMessages = limit, !.blocking = blocking]]
    /\ nextPc' = [Wake(nextPc) EXCEPT ![s] = "idle"]
    /\ offerPc' = Wake(offerPc)
    /\ UNCHANGED <<groupVars, slot, delivery, taskVars, commitVars>>

\* SubscriptionResize, for a subscription whose handler has not returned.
SetSize(s, size) ==
    /\ nextPc[s] \notin {"none", "gone"}
    /\ subscription' = [subscription EXCEPT ![s].size = size]
    /\ Broadcast
    /\ UNCHANGED <<groupVars, slot, delivery, taskVars, commitVars>>

NextEnter(s) ==
    /\ nextPc[s] = "idle"
    /\ subscription[s].closed \/ subscription[s].seq < MaxSeq
    /\ nextPc' = [nextPc EXCEPT ![s] =
           IF subscription[s].closed THEN "done" ELSE "locking"]
    /\ UNCHANGED <<groupVars, subscriptionVars, offerPc, taskVars, commitVars>>

NextLease(s) ==
    /\ nextPc[s] = "locking"
    /\ WithinLimits(s)
    /\ \E i \in Index :
        /\ FirstReady(i)
        /\ messages' = [messages EXCEPT ![i] =
               [@ EXCEPT !.sub = s, !.seqNo = subscription[s].seq + 1]]
        /\ slot' = [slot EXCEPT ![s] = i]
    /\ subscription' = [subscription EXCEPT ![s] =
           [@ EXCEPT !.seq = subscription[s].seq + 1,
                     !.inflight = subscription[s].inflight + 1]]
    /\ nextPc' = [nextPc EXCEPT ![s] = "copying"]
    /\ UNCHANGED <<read, write, closed, delivery, offerPc, taskVars, commitVars>>

\* ErrSubscriptionClosed, ErrGroupClosed and ErrEmpty.
NextGivesUp(s) ==
    \/ /\ WithinLimits(s)
       /\ ~HasReady
       /\ subscription[s].closed \/ (read = write /\ closed)
    \/ ~(WithinLimits(s) /\ HasReady) /\ NothingToWaitFor(s)

NextReturnError(s) ==
    /\ nextPc[s] = "locking"
    /\ NextGivesUp(s)
    /\ nextPc' = [nextPc EXCEPT ![s] = "done"]
    /\ UNCHANGED <<groupVars, subscriptionVars, offerPc, taskVars, commitVars>>

NextWait(s) ==
    /\ nextPc[s] = "locking"
    /\ ~(WithinLimits(s) /\ HasReady)
    /\ ~NextGivesUp(s)
    /\ nextPc' = [nextPc EXCEPT ![s] = "waiting"]
    /\ UNCHANGED <<groupVars, subscriptionVars, offerPc, taskVars, commitVars>>

\* Mutant of NextCopyBody: the message copied is the head of the ring.
NextCopyHead(s) ==
    /\ nextPc[s] \in {"copying", "copyingBody"}
    /\ delivery' = [delivery EXCEPT ![s].msg = messages[read].msg]
    /\ nextPc' = [nextPc EXCEPT ![s] =
           IF nextPc[s] = "copying" THEN "copyingLease" ELSE "returning"]
    /\ UNCHANGED <<groupVars, subscription, slot, offerPc, taskVars, commitVars>>

\* After the unlock Next copies messages[i].  Nothing orders that copy with
\* the writes other goroutines make under the mutex, so the body and the lease
\* fields are read separately, in either order.
NextCopyBody(s) ==
    /\ nextPc[s] \in {"copying", "copyingBody"}
    /\ delivery' = [delivery EXCEPT ![s].msg = messages[slot[s]].msg]
    /\ nextPc' = [nextPc EXCEPT ![s] =
           IF nextPc[s] = "copying" THEN "copyingLease" ELSE "returning"]
    /\ UNCHANGED <<groupVars, subscription, slot, offerPc, taskVars, commitVars>>

NextCopyLease(s) ==
    /\ nextPc[s] \in {"copying", "copyingLease"}
    /\ delivery' = [delivery EXCEPT ![s] =
           [@ EXCEPT !.sub = messages[slot[s]].sub,
                     !.seqNo = messages[slot[s]].seqNo]]
    /\ nextPc' = [nextPc EXCEPT ![s] =
           IF nextPc[s] = "copying" THEN "copyingBody" ELSE "returning"]
    /\ UNCHANGED <<groupVars, subscription, slot, offerPc, taskVars, commitVars>>

\* The handler has sent the delivery and calls Next again or, if the send
\* failed, returns.
NextReturn(s) ==
    /\ nextPc[s] = "returning"
    /\ delivery' = [delivery EXCEPT ![s] = EmptySlot]
    /\ \E pc \in {"idle", "done"} : nextPc' = [nextPc EXCEPT ![s] = pc]
    /\ UNCHANGED <<groupVars, subscription, slot, offerPc, taskVars, commitVars>>

\* Subscription.Close: every slot leased to s becomes ready again.  inflight
\* is left as it is.
Close(s) ==
    /\ messages' = [i \in Index |->
           IF Held(i) /\ messages[i].sub = s
           THEN [messages[i] EXCEPT !.sub = Ready, !.seqNo = 0]
           ELSE messages[i]]
    /\ subscription' = [subscription EXCEPT ![s].closed = TRUE]

\* The goroutine that watches the context of the stream.
CloseOnContextDone(s) ==
    /\ nextPc[s] \notin {"none", "gone"}
    /\ ~subscription[s].closed
    /\ Close(s)
    /\ Broadcast
    /\ UNCHANGED <<read, write, closed, slot, delivery, taskVars, commitVars>>

\* Mutant of CloseOnReturn: a subscription closed before is not closed again.
CloseOnReturnOnce(s) ==
    /\ nextPc[s] = "done"
    /\ IF subscription[s].closed THEN UNCHANGED <<messages, subscription>> ELSE Close(s)
    /\ nextPc' = [Wake(nextPc) EXCEPT ![s] = "gone"]
    /\ offerPc' = Wake(offerPc)
    /\ UNCHANGED <<read, write, closed, slot, delivery, taskVars, commitVars>>

\* The deferred function of the handler.
CloseOnReturn(s) ==
    /\ nextPc[s] = "done"
    /\ Close(s)
    /\ nextPc' = [Wake(nextPc) EXCEPT ![s] = "gone"]
    /\ offerPc' = Wake(offerPc)
    /\ UNCHANGED <<read, write, closed, slot, delivery, taskVars, commitVars>>

-----------------------------------------------------------------------------
(* Ack and Nack.  A client knows the sequence numbers it was sent.  With a *)
(* number that is not leased both return ErrNotLeased and change nothing.  *)
(* A handler that acks automatically calls Ack itself before it calls Next *)
(* again: the behaviour in which the ack of its last delivery comes first. *)

Copying == {"copying", "copyingBody", "copyingLease", "returning"}

KnownToClient(s, n) ==
    /\ n \in 1..subscription[s].seq
    /\ nextPc[s] \in Copying => n < subscription[s].seq

\* Mutant of LeasedAs: the subscription is not compared.
LeasedToAnyone(i, s, n) == Held(i) /\ messages[i].seqNo = n

LeasedAs(i, s, n) == Held(i) /\ messages[i].sub = s /\ messages[i].seqNo = n

\* Mutant of AckedUpTo: the loop passes every slot that is not ready.
NotReadyUpTo(ring, r) ==
    /\ Distance(r) <= Distance(write)
    /\ \A j \in Index : Distance(j) < Distance(r) => ring[j].sub # Ready
    /\ r = write \/ ring[r].sub = Ready

\* r is where the loop over the acked slots at the head of the ring stops.
AckedUpTo(ring, r) ==
    /\ Distance(r) <= Distance(write)
    /\ \A j \in Index : Distance(j) < Distance(r) => ring[j].sub = Acked
    /\ r = write \/ ring[r].sub # Acked

\* Mutant of Popped: no Reset.
NotReset(ring, r) == ring

\* The ring once the slots before r are popped.
Popped(ring, r) ==
    [j \in Index |-> IF Distance(j) < Distance(r) THEN EmptySlot ELSE ring[j]]

\* The commits of the slots before r, in ring order.
CommitsBefore(r) == [k \in 1..Distance(r) |-> messages[Nth(k - 1)].msg]

Ack(a, s, n) ==
    /\ sending[a] = <<>>
    /\ KnownToClient(s, n)
    /\ \E i, r \in Index :
        LET ring == [messages EXCEPT ![i] = [@ EXCEPT !.sub = Acked, !.seqNo = 0]] IN
        /\ LeasedAs(i, s, n)
        /\ AckedUpTo(ring, r)
        /\ messages' = Popped(ring, r)
        /\ read' = r
        /\ sending' = [sending EXCEPT ![a] =
               IF closed THEN <<>> ELSE CommitsBefore(r)]
        /\ acked' = acked \cup {messages[i].msg}
    /\ subscription' = [subscription EXCEPT ![s].inflight = @ - 1]
    /\ Broadcast
    /\ UNCHANGED <<write, closed, slot, delivery, taskVars, commits>>

\* The sends of Ack, after the unlock: each blocks while the channel is full.
SendCommit(a) ==
    /\ sending[a] # <<>>
    /\ Len(commits) < N
    /\ commits' = Append(commits, Head(sending[a]))
    /\ sending' = [sending EXCEPT ![a] = Tail(@)]
    /\ UNCHANGED <<groupVars, subscriptionVars, nextPc, offerPc, taskVars, acked>>

\* Mutant of CommitPending: once everything is offered the loop only waits for
\* the segment to close.
PendingWhileConsuming ==
    ~closed /\ commits # <<>> /\ \E g \in Segments : cursor[g] < MaxOffset

CommitPending == ~closed /\ commits # <<>>

\* The main loop of the group task, until it returns and closes the group.
TakeCommit ==
    /\ CommitPending
    /\ commits' = Tail(commits)
    /\ taken' = LET c == Head(commits) IN
           [taken EXCEPT ![c.segment] = IF c.offset > @ THEN c.offset ELSE @]
    /\ UNCHANGED <<groupVars, subscriptionVars, nextPc, offerPc, cursor,
                   sending, acked>>

Nack(s, n) ==
    /\ KnownToClient(s, n)
    /\ \E i \in Index :
        /\ LeasedAs(i, s, n)
        /\ messages' = [messages EXCEPT ![i] = [@ EXCEPT !.sub = Ready, !.seqNo = 0]]
    /\ subscription' = [subscription EXCEPT ![s].inflight = @ - 1]
    /\ Broadcast
    /\ UNCHANGED <<read, write, closed, slot, delivery, taskVars, commitVars>>

-----------------------------------------------------------------------------
Init ==
    /\ messages = [i \in Index |-> EmptySlot]
    /\ read = 0 /\ write = 0
    /\ closed = FALSE
    /\ subscription = [s \in Subscriptions |->
           [size |-> 0, inflight |-> 0, maxMessages |-> 0,
            blocking |-> TRUE, closed |-> FALSE, seq |-> 0]]
    /\ slot = [s \in Subscriptions |-> 0]
    /\ delivery = [s \in Subscriptions |-> EmptySlot]
    /\ nextPc = [s \in Subscriptions |-> "none"]
    /\ offerPc = [g \in Segments |-> "idle"]
    /\ cursor = [g \in Segments |-> 0]
    /\ taken = [g \in Segments |-> 0]
    /\ sending = [a \in Ackers |-> <<>>]
    /\ commits = <<>>
    /\ acked = {}

OfferStep(g) == OfferEnter(g) \/ OfferWait(g) \/ OfferPut(g)

NextStep(s) ==
    \/ NextEnter(s) \/ NextLease(s) \/ NextReturnError(s) \/ NextWait(s)
    \/ NextCopyBody(s) \/ NextCopyLease(s) \/ NextReturn(s)

Next ==
    \/ \E g \in Segments : OfferStep(g) \/ RestartConsumeTask(g)
    \/ \E s \in Subscriptions :
        \/ \E size \in Sizes, limit \in Limits, blocking \in Blockings :
               Subscribe(s, size, limit, blocking)
        \/ \E size \in Resizes : SetSize(s, size)
        \/ NextStep(s)
        \/ CloseOnContextDone(s) \/ CloseOnReturn(s)
        \/ \E n \in 1..MaxSeq : Nack(s, n) \/ \E a \in Ackers : Ack(a, s, n)
    \/ \E a \in Ackers : SendCommit(a)
    \/ TakeCommit
    \/ CloseGroup

Spec == Init /\ [][Next]_vars

\* The goroutines run: the mutex is granted to who waits for it, a send to the
\* client ends (or fails once its context is done), and the group task reads
\* Commits as long as the group is open.
Fairness ==
    /\ \A g \in Segments : WF_vars(OfferStep(g))
    /\ \A s \in Subscriptions : WF_vars(NextStep(s)) /\ WF_vars(CloseOnReturn(s))
    /\ \A a \in Ackers : WF_vars(SendCommit(a))
    /\ WF_vars(TakeCommit)

FairSpec == Spec /\ Fairness

-----------------------------------------------------------------------------
SubscriptionType == [size : Nat, inflight : Int, maxMessages : Nat,
                     blocking : BOOLEAN, closed : BOOLEAN, seq : Nat]

\* The values the program's state takes.
TypeOK ==
    /\ messages \in [Index -> Slot]
    /\ read \in Index /\ write \in Index
    /\ closed \in BOOLEAN
    /\ subscription \in [Subscriptions -> SubscriptionType]
    /\ slot \in [Subscriptions -> Index]
    /\ delivery \in [Subscriptions -> Slot]
    /\ nextPc \in [Subscriptions ->
           {"none", "idle", "locking", "waiting", "done", "gone"} \cup Copying]
    /\ offerPc \in [Segments -> {"idle", "locking", "waiting", "stopped"}]
    /\ cursor \in [Segments -> 0..MaxOffset]
    /\ taken \in [Segments -> 0..MaxOffset]
    /\ sending \in [Ackers -> Seq(Message)]
    /\ commits \in Seq(Message)
    /\ acked \subseteq Message

AckedBelow(g, offset) ==
    \A o \in 1..offset : [segment |-> g, offset |-> o] \in acked

\* A commit, wherever it is between Ack and the group task, never covers a
\* message of its segment that no consumer acked: neither out-of-order acks, nor
\* acks that race after the unlock, nor a consume task started again, nor a
\* subscription closed in between changes that.
CommitSafe ==
    /\ \A a \in Ackers : \A k \in DOMAIN sending[a] :
           AckedBelow(sending[a][k].segment, sending[a][k].offset)
    /\ \A k \in DOMAIN commits : AckedBelow(commits[k].segment, commits[k].offset)
    /\ \A g \in Segments : AckedBelow(g, taken[g])

InBuffer(m) == \E i \in Index : Held(i) /\ messages[i].msg = m

\* No message gets lost: what a consume task has offered is acked or still in
\* the ring, whatever was leased, released or popped meanwhile.
NothingLost ==
    \A g \in Segments : \A o \in 1..cursor[g] :
        LET m == [segment |-> g, offset |-> o] IN m \in acked \/ InBuffer(m)

\* Exactly the slots from read up to write hold a message; one that is marked
\* acked was acked.
SlotsConsistent ==
    \A i \in Index :
        IF Held(i)
        THEN /\ messages[i].msg \in Message
             /\ messages[i].sub = Acked => messages[i].msg \in acked
        ELSE messages[i] = EmptySlot

\* The slots of a segment are in offset order, up to what is acked already and
\* to what a restarted consume task has offered again.
BufferOrdered ==
    \A k \in Index : Held(k) =>
        \A o \in 1..(messages[k].msg.offset - 1) :
            LET m == [segment |-> messages[k].msg.segment, offset |-> o] IN
            \/ m \in acked
            \/ \E i \in Index : Distance(i) < Distance(k) /\ messages[i].msg = m

\* Why the acked prefix of the ring may be committed: whatever a slot's commit
\* would cover is acked or in a slot before it.
RingInvariant == SlotsConsistent /\ BufferOrdered

LeasedTo(s) == {i \in Index : Held(i) /\ messages[i].sub = s}

\* inflight counts the leases of an open subscription and is never below their
\* number, so that its unsigned decrement cannot wrap; a sequence number names
\* at most one lease.
LeaseAccounting ==
    \A s \in Subscriptions :
        /\ Cardinality(LeasedTo(s)) <= subscription[s].inflight
        /\ subscription[s].closed
           \/ Cardinality(LeasedTo(s)) = subscription[s].inflight
        /\ \A i, j \in LeasedTo(s) :
            /\ messages[i].seqNo \in 1..subscription[s].seq
            /\ messages[i].seqNo = messages[j].seqNo => i = j

\* No lost wakeup: a goroutine that waits on the condition variable would wait
\* again if it ran, that is every change it waits for has woken it.
WaitJustified ==
    /\ \A g \in Segments : offerPc[g] = "waiting" => Full /\ ~closed
    /\ \A s \in Subscriptions : nextPc[s] = "waiting" =>
           ~(WithinLimits(s) /\ HasReady) /\ ~NextGivesUp(s)

\* Although Next copies the slot without the mutex, what the handler of an open
\* subscription sends is the message leased to it under the number it says.
DeliveryFaithful ==
    \A s \in Subscriptions :
        nextPc[s] = "returning" /\ ~subscription[s].closed =>
            /\ LeasedAs(slot[s], s, subscription[s].seq)
            /\ delivery[s] = messages[slot[s]]

\* Once the handler has returned none of its messages stays leased, even if Next
\* took one after the subscription had been closed.
ReleasedWhenGone ==
    \A s \in Subscriptions : nextPc[s] = "gone" => LeasedTo(s) = {}

\* A step that leases to s leaves s with no more leases than its size, also
\* after the size was changed.
SizeRespected ==
    [][\A s \in Subscriptions :
        Cardinality(LeasedTo(s)') > Cardinality(LeasedTo(s)) =>
            \/ subscription[s].size = 0
            \/ Cardinality(LeasedTo(s)') <= subscription[s].size]_vars

\* A closed group lets every Offer return: none stays blocked on a full ring.
OfferEndsOnClose ==
    \A g \in Segments : closed ~> offerPc[g] \in {"idle", "stopped"}

\* The handler of a closed subscription ends, unless the subscription is at its
\* limit: its inflight is not reset by Close and nothing decrements it any more.
HandlerEndsOnClose ==
    \A s \in Subscriptions :
        subscription[s].closed ~>
            nextPc[s] = "gone" \/ (nextPc[s] = "waiting" /\ ~WithinLimits(s))

\* Ack does not block for good on the Commits channel of an open group.
AckReturns ==
    \A a \in Ackers : sending[a] # <<>> ~> sending[a] = <<>> \/ closed
=============================================================================
