----------------------------- MODULE AmqpChannel -----------------------------
(***************************************************************************)
(* One AMQP 0-9-1 connection, from connection.open on: the loop of         *)
(* ServeAMQPv0 with its channels, and the goroutines that feed it.         *)
(*                                                                         *)
(* The loop takes one thing at a time: a frame of the client, a delivery   *)
(* of a consumer, an error of a subscription.  A frame is sent and handled *)
(* in one step: the client chooses it from what it knew when it sent it.   *)
(* Cluster state, exchanges and queues are in Cluster; the queue consumed  *)
(* here exists.                                                            *)
(***************************************************************************)
EXTENDS Subscribe, SequencesExt

CONSTANTS Channels,     \* channel numbers
          Tags,         \* consumer tags
          Prefetches,   \* what basic.qos may say
          Keys,         \* routing keys
          PropertyNames, \* the properties a message can have
          MaxBody,      \* the size of a body
          MaxCalls      \* how many consumers and gets it starts

VARIABLES
    connection,       \* "open" or "closed": the loop has returned
    getting,          \* the subscription whose delivery basic.get waits for, 0
    subscribeErrors,  \* the errors in the channel of that name, which has room for one
    channels,         \* the open channels
    held              \* the deliveries the client has got and not settled

channelVars == <<connection, getting, subscribeErrors, channels, held>>

NoPublish == [key |-> 0, properties |-> {}, data |-> <<>>]

(* The frames of a message that is being published are kept twice: in      *)
(* `publish' as the server does, with `remaining', and in `told' as the    *)
(* client sent them.                                                       *)
Channel(state) ==
    [state |-> state, prefetchCount |-> 0, consumers |-> [t \in Tags |-> 0],
     deliveryTag |-> 0, inflight |-> <<>>,
     publish |-> NoPublish, remaining |-> 0, told |-> NoPublish]

ChannelInit ==
    /\ connection = "open"
    /\ getting = 0
    /\ subscribeErrors = 0
    /\ channels = [c \in Channels |-> Channel("none")]
    /\ held = {}

OfThisConnection == {s \in DOMAIN subs : subs[s].stream.protocol = "0-9-1"}

-----------------------------------------------------------------------------
(* How the loop goes on.                                                   *)

Serving == connection = "open" /\ getting = 0

(* The loop returns: the context of the connection ends, and the client    *)
(* has nothing left to settle.                                             *)
Disconnect(calls) ==
    /\ connection' = "closed"
    /\ channels' = [c \in Channels |-> Channel("none")]
    /\ subs' = Cancel(calls, OfThisConnection)
    /\ held' = {}
    /\ getting' = 0
    /\ UNCHANGED subscribeErrors

SetChannel(c, ch) ==
    /\ channels' = [channels EXCEPT ![c] = ch]
    /\ UNCHANGED <<connection, getting, subscribeErrors>>

(* channel.close of the server.  The client takes nothing from the channel *)
(* any more.                                                               *)
CloseChannel(c) ==
    /\ SetChannel(c, [channels[c] EXCEPT !.state = "closing"])
    /\ held' = {h \in held : h.channel # c}

(* What a frame that is about the connection leaves alone. *)
UnchangedMessages ==
    UNCHANGED <<owner, groupClosed, accepted, presettled, excused, intended, published>>

(* The frame ends the loop. *)
Refuse == Disconnect(subs) /\ UnchangedMessages

(* Frames on channel 0, heartbeats, methods that are not implemented, a    *)
(* lost connection and the shutdown of the server all end the loop.        *)
ConnectionEnds == Serving /\ budget.faults > 0 /\ Refuse /\ budget' = Spent

ChannelOpen(c) ==
    /\ Serving
    /\ IF channels[c].state # "none" THEN Refuse
       ELSE SetChannel(c, Channel("ready")) /\ UNCHANGED <<subs, held>> /\ UnchangedMessages

(* channel.close and channel.close-ok of the client. *)
ChannelClose(c, ok) ==
    LET ch == channels[c]
    IN  /\ Serving
        /\ IF ch.state = "none" \/ (ok /\ ch.state # "closing") THEN Refuse
           ELSE /\ SetChannel(c, Channel("none"))
                /\ subs' = Cancel(subs, {ch.consumers[t] : t \in Tags})
                /\ held' = {h \in held : h.channel # c}
                /\ UnchangedMessages

Method(c) == Serving /\ channels[c].state = "ready"

(* A method on a channel that is not open, or in the middle of a message,  *)
(* ends the connection; on a channel that closes it is ignored.            *)
MethodOutOfPlace(c) ==
    /\ Serving
    /\ channels[c].state # "ready"
    /\ IF channels[c].state = "closing"
       THEN /\ UNCHANGED <<connection, getting, subscribeErrors, channels, subs, held>>
            /\ UnchangedMessages
       ELSE Refuse

-----------------------------------------------------------------------------
(* Consuming.                                                              *)

BasicQos(c, count) ==
    /\ Method(c)
    /\ SetChannel(c, [channels[c] EXCEPT !.prefetchCount = count])
    /\ UNCHANGED <<subs, held>>
    /\ UnchangedMessages

Stream(c, tag) == [protocol |-> "0-9-1", channel |-> c, tag |-> tag]

BasicConsume(c, tag, noAck) ==
    LET ch == channels[c]
    IN  /\ Method(c)
        /\ UnchangedMessages
        /\ IF ch.consumers[tag] # 0
           THEN CloseChannel(c) /\ UNCHANGED subs
           ELSE /\ Len(subs) < MaxCalls
                /\ subs' = Append(subs, Call(Stream(c, tag), noAck, ch.prefetchCount, 0, TRUE))
                /\ SetChannel(c, [ch EXCEPT !.consumers[tag] = Len(subs')])
                /\ UNCHANGED held

BasicCancel(c, tag) ==
    LET ch == channels[c]
    IN  /\ Method(c)
        /\ UnchangedMessages
        /\ IF ch.consumers[tag] = 0
           THEN CloseChannel(c) /\ UNCHANGED subs
           ELSE /\ subs' = Cancel(subs, {ch.consumers[tag]})
                /\ SetChannel(c, [ch EXCEPT !.consumers[tag] = 0])
                /\ UNCHANGED held

(* The loop waits until the stream has a delivery or is closed. *)
BasicGet(c, noAck) ==
    /\ Method(c)
    /\ Len(subs) < MaxCalls
    /\ subs' = Append(subs, Call(Stream(c, "get"), noAck, 1, 1, FALSE))
    /\ getting' = Len(subs')
    /\ UNCHANGED <<connection, subscribeErrors, channels, held>>
    /\ UnchangedMessages

(* basic.get-empty, or the stream of the delivery. *)
BasicGetEmpty ==
    /\ getting # 0
    /\ subs[getting].stage = "gone"
    /\ getting' = 0
    /\ UNCHANGED <<connection, subscribeErrors, channels, budget, subs, held>>
    /\ UnchangedMessages

(* The message of s goes to the client with the next delivery tag.  Unless *)
(* the subscription acks by itself the delivery is remembered, by the      *)
(* server and, if it has not been told to forget the channel, the client.  *)
Delivered(s) ==
    LET sub == subs[s]
        c == sub.stream.channel
        ch == channels[c]
        tag == ch.deliveryTag + 1
        entry == [deliveryTag |-> tag, sub |-> s, seq |-> sub.seq]
    IN  /\ channels' = [channels EXCEPT ![c].deliveryTag = tag,
                                        ![c].inflight = IF sub.auto THEN @ ELSE Append(@, entry)]
        /\ held' = IF sub.auto \/ ch.state = "closing" THEN held
                   ELSE held \cup {[channel |-> c, entry |-> entry, message |-> sub.message]}
        /\ presettled' = SentWithoutAck(s)
        /\ UNCHANGED <<connection, subscribeErrors, excused>>

BasicGetOk ==
    /\ getting # 0
    /\ subs[getting].stage = "send"
    /\ Delivered(getting)
    /\ subs' = AfterSend(getting)
    /\ getting' = 0
    /\ UNCHANGED <<budget, owner, groupClosed, accepted, intended, published>>

(* A consumer is in stream.Send and the loop is ready to receive. *)
Offered(s) ==
    /\ Serving
    /\ s \in OfThisConnection
    /\ subs[s].stage = "send"
    /\ subs[s].stream.tag # "get"

HasConsumer(s) ==
    LET ch == channels[subs[s].stream.channel]
    IN  ch.state # "none" /\ ch.consumers[subs[s].stream.tag] # 0

(* A delivery of a consumer.  Without its channel, or a consumer of its    *)
(* tag, it is ignored.                                                     *)
Deliver(s) ==
    /\ Offered(s)
    /\ subs' = AfterSend(s)
    /\ IF HasConsumer(s) THEN Delivered(s)
       ELSE /\ excused' = IF subs[s].auto THEN excused \cup {subs[s].message} ELSE excused
            /\ UNCHANGED <<connection, subscribeErrors, channels, held, presettled>>
    /\ UNCHANGED <<getting, budget, owner, groupClosed, accepted, intended, published>>

(* A frame of the delivery cannot be sent: too large, or no connection.    *)
DeliverFails(s) ==
    /\ \/ Offered(s) /\ HasConsumer(s)
       \/ getting = s /\ subs[s].stage = "send"
    /\ budget.faults > 0
    /\ Disconnect(AfterSend(s))
    /\ presettled' = SentWithoutAck(s)
    /\ budget' = Spent
    /\ UNCHANGED <<owner, groupClosed, accepted, excused, intended, published>>

(* The goroutine of a consumer, or a get, hands its error over. *)
SendError(s) ==
    /\ s \in OfThisConnection
    /\ subs[s].stage = "error"
    /\ subscribeErrors = 0
    /\ subscribeErrors' = 1
    /\ subs' = [subs EXCEPT ![s].stage = "gone"]
    /\ UNCHANGED <<connection, getting, channels, budget, held>>
    /\ UnchangedMessages

(* The loop takes it and force-closes the connection. *)
SubscribeFailed ==
    /\ Serving
    /\ subscribeErrors = 1
    /\ Refuse
    /\ budget' = Spent

-----------------------------------------------------------------------------
(* Settling.                                                               *)

(* What the client means by a tag: the delivery that has it, or all up to  *)
(* it.                                                                     *)
Means(deliveryTag, tag, multiple) ==
    deliveryTag = tag \/ (multiple /\ deliveryTag < tag)

\* A defect: one delivery too many.
CoversOneMore(deliveryTag, tag, multiple) ==
    IF multiple THEN deliveryTag =< tag + 1 ELSE deliveryTag = tag

(* The entries of inflight that are settled. *)
Covers(deliveryTag, tag, multiple) ==
    IF multiple THEN deliveryTag =< tag ELSE deliveryTag = tag

Settle(c, tag, multiple, requeue) ==
    LET ch == channels[c]
        Covered(e) == Covers(e.deliveryTag, tag, multiple)
        Other(e) == ~Covered(e)
        leases == SelectSeq(ch.inflight, Covered)
        n == DoneOf(leases)
        told == {h \in held : h.channel = c /\ Means(h.entry.deliveryTag, tag, multiple)}
    IN  /\ Method(c)
        /\ accepted' = accepted \cup (IF requeue THEN {} ELSE {h.message : h \in told})
        /\ owner' = Settled(leases, n, IF requeue THEN Ready ELSE Acked)
        /\ IF leases = <<>> THEN CloseChannel(c) /\ UNCHANGED subs
           ELSE IF n < Len(leases) THEN Disconnect(LessInflight(subs, leases, n))
           ELSE /\ SetChannel(c, [ch EXCEPT !.inflight = SelectSeq(@, Other)])
                /\ subs' = LessInflight(subs, leases, n)
                /\ held' = held \ told
        /\ UNCHANGED <<groupClosed, presettled, excused, intended, published>>

BasicAck(c, tag, multiple) == Settle(c, tag, multiple, FALSE)

BasicNack(c, tag, multiple, requeue) == Settle(c, tag, multiple, requeue)

BasicReject(c, tag, requeue) == Settle(c, tag, FALSE, requeue)

-----------------------------------------------------------------------------
(* Publishing.  A byte of a body is the number of its message.            *)

UnchangedConsuming == UNCHANGED <<subs, held, owner, groupClosed, accepted, presettled, excused>>

BasicPublish(c, key) ==
    /\ Method(c)
    /\ SetChannel(c, [channels[c] EXCEPT !.state = "header", !.publish.key = key,
                                         !.told = [NoPublish EXCEPT !.key = key]])
    /\ UnchangedConsuming
    /\ UNCHANGED <<intended, published>>

(* A header or a body in any other state of its channel. *)
ContentOutOfPlace(c, state) ==
    /\ Serving
    /\ channels[c].state # state
    /\ IF channels[c].state = "closing"
       THEN /\ UNCHANGED <<connection, getting, subscribeErrors, channels, subs, held>>
            /\ UnchangedMessages
       ELSE Refuse

(* Only properties that are set are written. *)
ContentHeader(c, properties, size) ==
    /\ Serving
    /\ channels[c].state = "header"
    /\ SetChannel(c, [channels[c] EXCEPT !.state = "body", !.remaining = size,
                                         !.publish.properties = @ \cup properties,
                                         !.told.properties = properties])
    /\ UnchangedConsuming
    /\ UNCHANGED <<intended, published>>

\* A defect: the properties stay.
ResetPublishData(ch) == [ch EXCEPT !.publish.data = <<>>, !.remaining = 0]

ResetPublish(ch) == [ch EXCEPT !.publish = NoPublish, !.remaining = 0]

(* The last body frame publishes the message, which may fail. *)
ContentBody(c, size) ==
    LET bytes == [k \in 1..size |-> Len(intended) + 1]
        ch == [channels[c] EXCEPT !.publish.data = @ \o bytes, !.told.data = @ \o bytes,
                                  !.remaining = @ - size]
    IN  /\ Serving
        /\ channels[c].state = "body"
        /\ IF size > channels[c].remaining THEN Refuse
           ELSE IF ch.remaining > 0
           THEN SetChannel(c, ch) /\ UnchangedConsuming /\ UNCHANGED <<intended, published>>
           ELSE \/ Refuse
                \/ /\ published' = Append(published, ch.publish)
                   /\ intended' = Append(intended, ch.told)
                   /\ SetChannel(c, [ResetPublish(ch) EXCEPT !.state = "ready"])
                   /\ UnchangedConsuming

-----------------------------------------------------------------------------
(* A message costs the client a method of its own, with the content that   *)
(* belongs to it.                                                          *)
ClientFrame(c) ==
    LET tags == 1..channels[c].deliveryTag
    IN  /\ budget.methods > 0
        /\ \/ ChannelOpen(c)
           \/ \E ok \in BOOLEAN : ChannelClose(c, ok)
           \/ MethodOutOfPlace(c)
           \/ \E count \in Prefetches : BasicQos(c, count)
           \/ \E tag \in Tags, noAck \in BOOLEAN : BasicConsume(c, tag, noAck)
           \/ \E tag \in Tags : BasicCancel(c, tag)
           \/ \E noAck \in BOOLEAN : BasicGet(c, noAck)
           \/ \E tag \in tags, multiple \in BOOLEAN : BasicAck(c, tag, multiple)
           \/ \E tag \in tags, multiple, requeue \in BOOLEAN : BasicNack(c, tag, multiple, requeue)
           \/ \E tag \in tags, requeue \in BOOLEAN : BasicReject(c, tag, requeue)
           \/ \E state \in {"header", "body"} : ContentOutOfPlace(c, state)
        /\ budget' = IF connection' = "closed" THEN Spent ELSE [budget EXCEPT !.methods = @ - 1]

MessageFrame(c) ==
    \/ /\ budget.messages > 0
       /\ \E key \in Keys : BasicPublish(c, key)
       /\ budget' = [budget EXCEPT !.messages = @ - 1]
    \/ /\ \/ \E properties \in SUBSET PropertyNames, size \in 0..MaxBody :
                ContentHeader(c, properties, size)
          \/ \E size \in 0..MaxBody : ContentBody(c, size)
       /\ budget' = IF connection' = "closed" THEN Spent ELSE budget

ChannelLoop ==
    \/ ConnectionEnds
    \/ BasicGetEmpty
    \/ BasicGetOk
    \/ SubscribeFailed
    \/ \E s \in DOMAIN subs : Deliver(s) \/ DeliverFails(s) \/ SendError(s)

ChannelNext ==
    \/ \E c \in Channels : ClientFrame(c) \/ MessageFrame(c)
    \/ ChannelLoop
    \/ (CloseGroup \/ \E s \in DOMAIN subs : SubscribeStep(s)) /\ UNCHANGED <<channelVars, clientVars>>

-----------------------------------------------------------------------------
(* The client can settle what it holds: each of its deliveries, unless the *)
(* consumer was cancelled, has its own entry in inflight, and that is the  *)
(* lease of the very message the client got (handleAMQPv0ChannelDelivery,  *)
(* BasicGet, BasicAck, BasicNack and BasicReject).                         *)
ChannelSettleable ==
    \A h \in held :
        ~subs[h.entry.sub].cancelled =>
            /\ Cardinality({k \in DOMAIN channels[h.channel].inflight :
                   channels[h.channel].inflight[k].deliveryTag = h.entry.deliveryTag}) = 1
            /\ h.entry \in ToSet(channels[h.channel].inflight)
            /\ owner[h.message] = <<h.entry.sub, h.entry.seq>>
            /\ Registered(h.entry.sub)
=============================================================================
