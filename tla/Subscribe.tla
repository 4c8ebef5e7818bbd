------------------------------ MODULE Subscribe ------------------------------
(***************************************************************************)
(* The handler of Subscribe on the node that runs the consumer group, and  *)
(* the subscription it opens, as the AMQP connections see them.            *)
(*                                                                         *)
(* The group is what ConsumerGroup is shown to implement: a queue whose    *)
(* messages are handed out oldest first.  Here it only matters who holds   *)
(* each of them.  A handler runs in a goroutine of its own, from one call  *)
(* of stream.Send to the next; stream.Send itself is the business of the   *)
(* connection, see AmqpChannel and AmqpSession.                            *)
(***************************************************************************)
EXTENDS Integers, Sequences, FiniteSets

CONSTANTS Messages          \* the messages of the group, 1..n, oldest first

VARIABLES
    owner,        \* who holds a message: Ready, Acked or <<subscription, seq no>>
    groupClosed,  \* the group task has ended
    subs,         \* the calls of Subscribe, in the order they were made
    budget        \* how many methods (or frames) and messages the client may still
                  \* send, and how many faults there may still be

subscribeVars == <<owner, groupClosed, subs>>

(* What the clients of the connection did, for the properties.             *)
VARIABLES
    accepted,     \* the messages a client has acked, or rejected for good
    presettled,   \* the messages sent to a client, or lost on the way, that need no ack
    excused,      \* the messages settled for one of the reasons given in the properties
    intended,     \* the messages a client has sent to be published
    published     \* the messages given to Publish

clientVars == <<accepted, presettled, excused, intended, published>>

Ready == <<0, 0>>
Acked == <<-1, -1>>

SubscribeInit ==
    /\ owner = [m \in Messages |-> Ready]
    /\ groupClosed = FALSE
    /\ subs = <<>>
    /\ accepted = {}
    /\ presettled = {}
    /\ excused = {}
    /\ intended = <<>>
    /\ published = <<>>

(* The request and the stream of one call.  Its goroutine is at            *)
(*   "start"  before group.Subscribe                                       *)
(*   "next"   before a call of subscription.Next                           *)
(*   "inside" in Next, past the check for a closed subscription            *)
(*   "send"   in stream.Send, with `message' in hand                       *)
(*   "ack"    after it, about to ack the message itself                    *)
(*   "error"  returned with an error nobody has taken yet                  *)
(*   "gone"   returned                                                     *)
(* and `cancelled' says that the context of the stream is done.            *)
Call(stream, auto, size, max, blocking) ==
    [stream |-> stream, auto |-> auto, size |-> size, max |-> max, blocking |-> blocking,
     stage |-> "start", cancelled |-> FALSE, closed |-> FALSE,
     seq |-> 0, inflight |-> 0, message |-> 0]

(* The subscription is in the map that Ack and Nack look it up in. *)
Registered(s) == subs[s].stage \notin {"start", "error", "gone"}

Returned(s) == subs[s].stage \in {"error", "gone"}

Leased(m, s) == owner[m][1] = s

\* A defect: Close forgets the leases.
ReleasedNone(s) == owner

ReleasedBy(s) == [m \in Messages |-> IF Leased(m, s) THEN Ready ELSE owner[m]]

HasReady == \E m \in Messages : owner[m] = Ready

(* The contexts of some streams are done. *)
Cancel(calls, some) ==
    [s \in DOMAIN calls |-> [calls[s] EXCEPT !.cancelled = @ \/ s \in some]]

Spent == [methods |-> 0, messages |-> 0, faults |-> 0]

Cost(kind) == budget[kind] > 0 /\ budget' = [budget EXCEPT ![kind] = @ - 1]

-----------------------------------------------------------------------------
(* The deferred subscription.Close and the removal from the map. *)
Return(s, stage) ==
    /\ owner' = ReleasedBy(s)
    /\ subs' = [subs EXCEPT ![s].stage = stage, ![s].closed = TRUE, ![s].message = 0]
    /\ UNCHANGED groupClosed

(* group.Subscribe and the settings of the request; or the group has no    *)
(* node, runs elsewhere and cannot be reached, or does not run here.       *)
Start(s) ==
    /\ subs[s].stage = "start"
    /\ ~groupClosed
    /\ subs' = [subs EXCEPT ![s].stage = "next"]
    /\ UNCHANGED <<owner, groupClosed, budget>>

StartFails(s) ==
    /\ subs[s].stage = "start"
    /\ Return(s, "error")
    /\ IF groupClosed THEN UNCHANGED budget ELSE Cost("faults")

(* The goroutine that waits for the end of the context. *)
CloseOnDone(s) ==
    /\ subs[s].cancelled
    /\ ~subs[s].closed
    /\ subs[s].stage # "start"
    /\ owner' = ReleasedBy(s)
    /\ subs' = [subs EXCEPT ![s].closed = TRUE]
    /\ UNCHANGED groupClosed

NextEnter(s) ==
    /\ subs[s].stage = "next"
    /\ IF subs[s].closed THEN Return(s, "gone")
       ELSE /\ subs' = [subs EXCEPT ![s].stage = "inside"]
            /\ UNCHANGED <<owner, groupClosed>>

SubscriptionLimits(s) ==
    /\ subs[s].size = 0 \/ subs[s].inflight < subs[s].size
    /\ subs[s].max = 0 \/ subs[s].seq < subs[s].max

(* The first ready message is leased, whether the subscription has been    *)
(* closed meanwhile or not.                                                *)
NextLeases(s) ==
    /\ subs[s].stage = "inside"
    /\ SubscriptionLimits(s)
    /\ \E m \in Messages :
        /\ owner[m] = Ready
        /\ \A k \in Messages : k < m => owner[k] # Ready
        /\ owner' = [owner EXCEPT ![m] = <<s, subs[s].seq + 1>>]
        /\ subs' = [subs EXCEPT ![s].stage = "send", ![s].message = m,
                                ![s].seq = @ + 1, ![s].inflight = @ + 1]
    /\ UNCHANGED groupClosed

(* ErrSubscriptionClosed and ErrEmpty end the handler, ErrGroupClosed is   *)
(* an error.                                                               *)
NextReturns(s) ==
    LET lookedInVain == SubscriptionLimits(s) /\ ~HasReady
        exhausted == subs[s].max # 0 /\ subs[s].seq >= subs[s].max
    IN  /\ subs[s].stage = "inside"
        /\ IF lookedInVain /\ subs[s].closed THEN Return(s, "gone")
           ELSE IF lookedInVain /\ groupClosed /\ \A m \in Messages : owner[m] = Acked
                THEN Return(s, "error")
           ELSE /\ lookedInVain \/ ~SubscriptionLimits(s)
                /\ subs[s].inflight = 0
                /\ ~subs[s].blocking \/ exhausted
                /\ Return(s, "gone")

(* What needs no ack once s has sent its message. *)
SentWithoutAck(s) == IF subs[s].auto THEN presettled \cup {subs[s].message} ELSE presettled

(* The calls after s's stream.Send has returned. *)
AfterSend(s) ==
    [subs EXCEPT ![s].stage = IF subs[s].auto THEN "ack" ELSE "next",
                 ![s].message = IF subs[s].auto THEN @ ELSE 0]

AutoAck(s) ==
    LET m == subs[s].message
    IN  /\ subs[s].stage = "ack"
        /\ IF owner[m] = <<s, subs[s].seq>>
           THEN /\ owner' = [owner EXCEPT ![m] = Acked]
                /\ subs' = [subs EXCEPT ![s].stage = "next", ![s].message = 0, ![s].inflight = @ - 1]
                /\ UNCHANGED groupClosed
           ELSE Return(s, "error")

SubscribeStep(s) ==
    \/ Start(s)
    \/ StartFails(s)
    \/ /\ \/ CloseOnDone(s)
          \/ NextEnter(s)
          \/ NextLeases(s)
          \/ NextReturns(s)
          \/ AutoAck(s)
       /\ UNCHANGED budget

(* The task of the group ends: it lost the group, or the node stops. *)
CloseGroup ==
    /\ ~groupClosed
    /\ groupClosed' = TRUE
    /\ Cost("faults")
    /\ UNCHANGED <<owner, subs>>

-----------------------------------------------------------------------------
(* Ack and Nack of several leases [sub, seq], one after the other, until   *)
(* one fails.                                                              *)

IsLease(e) ==
    Registered(e.sub) /\ \E m \in Messages : owner[m] = <<e.sub, e.seq>>

(* How many are done before the first that fails. *)
DoneOf(leases) ==
    CHOOSE n \in 0..Len(leases) :
        /\ \A k \in 1..n : IsLease(leases[k])
        /\ n = Len(leases) \/ ~IsLease(leases[n + 1])

Settled(leases, n, as) ==
    [m \in Messages |->
        IF \E k \in 1..n : owner[m] = <<leases[k].sub, leases[k].seq>> THEN as ELSE owner[m]]

LessInflight(calls, leases, n) ==
    [s \in DOMAIN calls |->
        [calls[s] EXCEPT !.inflight = @ - Cardinality({k \in 1..n : leases[k].sub = s})]]

-----------------------------------------------------------------------------
(* No message is acked behind the client's back: the client has acked it,  *)
(* or it was sent to a client that asked for no acks.  The exceptions: a   *)
(* delivery that the 0-9-1 loop ignores for want of its consumer, which    *)
(* Subscribe acks as if it had been sent if the consumer needed no acks;   *)
(* what an AMQP 1.0 disposition without `last' sweeps up beyond the        *)
(* delivery it names, and a delivery whose ID another one shares (Ack,     *)
(* Subscribe, Disposition).                                                *)
AckedIsSettled ==
    \A m \in Messages : owner[m] = Acked => m \in accepted \cup presettled \cup excused

(* Publish gets the messages of the client: each with its own routing key, *)
(* properties and bytes, and nothing of the one before it (ContentBody and *)
(* ResetPublish; Transfer).                                                *)
PublishedExactly == published = intended

(* A subscription that has been closed keeps at most one message from the  *)
(* others: one it leased after the close, because Next looks for a message *)
(* before it looks whether it was closed.  Once Subscribe has returned it  *)
(* keeps none (Close, CloseOnDone, Return).                                *)
ClosedHoldsOne ==
    \A s \in DOMAIN subs, m \in Messages :
        subs[s].closed /\ Leased(m, s) =>
            owner[m][2] = subs[s].seq /\ subs[s].stage \in {"send", "ack", "next"}
=============================================================================
