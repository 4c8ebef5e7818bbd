----------------------------- MODULE AmqpSession -----------------------------
(***************************************************************************)
(* One session of an AMQP 1.0 connection, from begin on: the loop of Run   *)
(* with the handlers of the session's frames, and for each link to a       *)
(* consumer group the goroutine that sends what it receives.               *)
(*                                                                         *)
(* The loop handles one frame at a time.  The goroutines share with it and *)
(* with each other the session, parts of it under a mutex; deliveryID is   *)
(* not, so `deliveryID++' is a load and a store of its own.  The limits a  *)
(* client sets with flow are the sums it sends: delivery-count plus        *)
(* link-credit, next-incoming-id plus incoming-window.                     *)
(***************************************************************************)
EXTENDS Subscribe, SequencesExt

CONSTANTS Handles,       \* link handles
          LinkLimits,    \* how far flow may let a link deliver
          BeginWindow,   \* how far begin lets the session send
          WindowLimits,  \* how far flow may
          TopicCredit,   \* the credit of a link to a topic
          InitialWindow, \* how many transfers the session lets the client send
          Modulus,       \* one more than the largest uint32
          Parts,         \* how many transfers each message takes
          MaxLinks       \* how many links it attaches

VARIABLES
    session,       \* the session, "ended" when nothing refers to it any more
    links,         \* all links ever attached, in this order
    handles,       \* which of them has the handle, 0
    deliveries,    \* the deliveries the client has got and not settled
    granted,       \* the most a limit has ever been, by link and for the session (0)
    overlapped,    \* two goroutines were in between deliveryID++ and inflight
    wrapped        \* a limit was lower than what had been sent

sessionVars == <<session, links, handles, deliveries, granted, overlapped, wrapped>>

Session(state, window) ==
    [state |-> state, nextOutgoingID |-> 0, remoteIncomingWindow |-> window,
     incomingWindow |-> InitialWindow, deliveryID |-> 0, inflight |-> <<>>]

(* A link.  `at' says where its goroutine is in Send, `parts' how many     *)
(* transfers are left; a link to a topic has the delivery it is in the     *)
(* middle of, `current', and the payloads of it so far.                    *)
Link(handle, sub) ==
    [handle |-> handle, sub |-> sub, state |-> "ready",
     deliveryCount |-> 0, linkCredit |-> 0, size |-> 1,
     at |-> "idle", id |-> 0, parts |-> 0,
     current |-> 0, buf |-> <<>>, told |-> <<>>]

SessionInit ==
    /\ session = Session("ready", BeginWindow)
    /\ granted = (0 :> BeginWindow)
    /\ links = <<>>
    /\ handles = [h \in Handles |-> 0]
    /\ deliveries = {}
    /\ overlapped = FALSE
    /\ wrapped = FALSE

Dead == session.state = "panicked"

OfThisSession == {s \in DOMAIN subs : subs[s].stream.protocol = "1.0"}

SetLink(k, link) == links' = [links EXCEPT ![k] = link]

(* The link is attached as far as the client knows. *)
Attached(k) == session.state # "ended" /\ handles[links[k].handle] = k

-----------------------------------------------------------------------------
(* The loop.  While the session ends its frames are ignored.               *)

Processing == session.state = "ready"

(* The session ends with an error: an unknown handle or one in use, a flow *)
(* for a topic, a disposition that is not implemented.  What the client    *)
(* has not settled by then it cannot settle any more.                      *)
SessionFails ==
    /\ Processing
    /\ budget.faults > 0
    /\ session' = [session EXCEPT !.state = "ending"]
    /\ deliveries' = {}
    /\ UNCHANGED <<links, handles, granted, overlapped, wrapped, subscribeVars, clientVars>>

(* The end of the session and that of the connection close its links. *)
End(state) ==
    /\ session.state \in {"ready", "ending"} \/ (session.state = "ended" /\ state = "closed")
    /\ session' = [session EXCEPT !.state = state]
    /\ handles' = [h \in Handles |-> 0]
    /\ subs' = Cancel(subs, {links[handles[h]].sub : h \in {x \in Handles : handles[x] # 0}})
    /\ deliveries' = {}
    /\ UNCHANGED <<links, granted, overlapped, wrapped, owner, groupClosed, clientVars>>

AttachTopic(h) ==
    /\ Processing
    /\ handles[h] = 0
    /\ Len(links) < MaxLinks
    /\ links' = Append(links, [Link(h, 0) EXCEPT !.linkCredit = TopicCredit])
    /\ handles' = [handles EXCEPT ![h] = Len(links')]
    /\ UNCHANGED <<session, deliveries, granted, overlapped, wrapped, subscribeVars, clientVars>>

AttachConsumerGroup(h, settled) ==
    /\ Processing
    /\ handles[h] = 0
    /\ Len(links) < MaxLinks
    /\ subs' = Append(subs, Call([protocol |-> "1.0", link |-> Len(links) + 1], settled, 1, 0, TRUE))
    /\ links' = Append(links, Link(h, Len(subs')))
    /\ handles' = [handles EXCEPT ![h] = Len(links')]
    /\ granted' = granted @@ (Len(links') :> 0)
    /\ UNCHANGED <<session, deliveries, overlapped, wrapped, owner, groupClosed, clientVars>>

Detach(h) ==
    /\ Processing
    /\ handles[h] # 0
    /\ handles' = [handles EXCEPT ![h] = 0]
    /\ subs' = Cancel(subs, {links[handles[h]].sub})
    /\ deliveries' = {d \in deliveries : d.link # handles[h]}
    /\ UNCHANGED <<session, links, granted, overlapped, wrapped, owner, groupClosed, clientVars>>

\* A defect: what was sent already is forgotten.
LeftOfAll(limit, sent) == limit

(* uint32 arithmetic: a limit below what was sent wraps around. *)
Left(limit, sent) == (limit - sent) % Modulus

MaxOf(a, b) == IF a > b THEN a ELSE b

(* A flow for the session, and for the link of a consumer group if it      *)
(* names one (k # 0).                                                      *)
Flow(k, limit, window) ==
    /\ Processing
    /\ k # 0 => links[k].sub # 0 /\ Attached(k)
    /\ session' = [session EXCEPT !.remoteIncomingWindow = Left(window, session.nextOutgoingID)]
    /\ links' = IF k = 0 THEN links
                ELSE [links EXCEPT ![k].linkCredit = Left(limit, links[k].deliveryCount)]
    /\ granted' = [x \in DOMAIN granted |->
           IF x = 0 THEN MaxOf(granted[0], window)
           ELSE IF x = k THEN MaxOf(granted[k], limit) ELSE granted[x]]
    /\ wrapped' = \/ wrapped
                  \/ window < session.nextOutgoingID
                  \/ k # 0 /\ limit < links[k].deliveryCount
    /\ UNCHANGED <<handles, deliveries, overlapped, subscribeVars, clientVars>>

\* A defect: the first is left out.
DisposedAfter(first, last) ==
    {i \in DOMAIN session.inflight : LET id == session.inflight[i].deliveryID
                                     IN  id > first /\ (last = 0 \/ id =< last)}

(* The entries of inflight from first to last, as the loop finds them: it  *)
(* stops at the first delivery ID beyond last.  Last is 0 if there is none. *)
Disposed(first, last) ==
    LET ids == [i \in DOMAIN session.inflight |-> session.inflight[i].deliveryID]
        beyond(i) == last # 0 /\ ids[i] >= first /\ ids[i] > last
    IN  {i \in DOMAIN ids : ids[i] >= first /\ \A j \in 1..i : ~beyond(j)}

\* A defect: all that came before is dropped too.
RemainingFrom(inflight, some) == SubSeq(inflight, Max(some), Len(inflight))

(* What is left of inflight: all before the first and from the last on.    *)
Remaining(inflight, some) ==
    SubSeq(inflight, 1, Min(some) - 1) \o SubSeq(inflight, Max(some), Len(inflight))

(* A settled disposition of the client.  One that finds nothing takes a    *)
(* slice from index -1 on, and the process with it.                        *)
Disposition(first, last, accept) ==
    LET some == Disposed(first, last)
        leases == SetToSortSeq(some, LAMBDA i, j : i < j)
        entries == [i \in DOMAIN leases |-> session.inflight[leases[i]]]
        n == DoneOf(entries)
        named == {d \in deliveries : d.entry.deliveryID \in first..MaxOf(first, last)}
        twice(e) == Cardinality({i \in some : session.inflight[i].deliveryID = e.deliveryID}) > 1
        swept == {m \in Messages : \E k \in 1..n :
                     /\ owner[m] = <<entries[k].sub, entries[k].seq>>
                     /\ entries[k].deliveryID > MaxOf(first, last) \/ twice(entries[k])}
    IN  /\ Processing
        /\ owner' = Settled(entries, n, IF accept THEN Acked ELSE Ready)
        /\ subs' = LessInflight(subs, entries, n)
        /\ accepted' = IF accept THEN accepted \cup {d.message : d \in named} ELSE accepted
        /\ excused' = excused \cup swept
        /\ IF n < Len(entries)
           THEN session' = [session EXCEPT !.state = "ending"] /\ deliveries' = {}
           ELSE IF some = {}
           THEN session' = [session EXCEPT !.state = "panicked"] /\ UNCHANGED deliveries
           ELSE /\ session' = [session EXCEPT !.inflight = Remaining(@, some)]
                /\ deliveries' = deliveries \ named
        /\ UNCHANGED <<links, handles, granted, overlapped, wrapped,
                       groupClosed, presettled, intended, published>>

(* The last transfer of a delivery publishes its message.  A message that  *)
(* cannot be decoded stays in the buffer from there on; publishing it may  *)
(* fail.  Credit is refilled when half of it is used.                      *)
TransferLast(k, link) ==
    LET refill == IF link.linkCredit =< TopicCredit \div 2 THEN TopicCredit ELSE link.linkCredit
        undecoded == {SubSeq(link.buf, n, Len(link.buf)) : n \in 1..(Len(link.buf) + 1)}
    IN  \/ /\ \E rest \in undecoded :
                  SetLink(k, [link EXCEPT !.state = "detaching", !.buf = rest, !.told = <<>>])
           /\ UNCHANGED <<intended, published>>
        \/ /\ published' = Append(published, link.buf)
           /\ intended' = Append(intended, link.told)
           /\ SetLink(k, [link EXCEPT !.current = 0, !.buf = <<>>, !.linkCredit = refill])

(* A transfer on the link of a topic.  The session's window is refilled    *)
(* when half of it is used.                                                *)
Transfer(h, id, more, aborted) ==
    LET k == handles[h]
        begun == IF links[k].current # 0 THEN links[k]
                 ELSE [links[k] EXCEPT !.current = id, !.buf = <<>>, !.told = <<>>,
                                       !.deliveryCount = @ + 1, !.linkCredit = @ - 1]
        payload == <<id, Len(begun.told) + 1>>
        link == [begun EXCEPT !.buf = Append(@, payload), !.told = Append(@, payload)]
        window == session.incomingWindow - 1
        refused == \/ begun.current # id
                   \/ links[k].current = 0 /\ 0 \in {links[k].linkCredit, window}
    IN  /\ Processing
        /\ k # 0
        /\ links[k].sub = 0
        /\ IF ~refused /\ ~aborted /\ ~more THEN TransferLast(k, link)
           ELSE /\ SetLink(k, CASE refused -> [links[k] EXCEPT !.state = "detaching"]
                                [] ~refused /\ aborted -> [begun EXCEPT !.current = 0, !.buf = <<>>]
                                [] ~refused /\ ~aborted -> link)
                /\ UNCHANGED <<intended, published>>
        /\ session' = [session EXCEPT !.incomingWindow =
               IF window =< InitialWindow \div 2 THEN InitialWindow ELSE window]
        /\ UNCHANGED <<handles, deliveries, granted, overlapped, wrapped,
                       subscribeVars, accepted, presettled, excused>>

-----------------------------------------------------------------------------
(* The goroutine of a link to a consumer group: Send, from its first wait  *)
(* on.                                                                     *)

InSend(k, at) ==
    /\ links[k].sub # 0
    /\ subs[links[k].sub].stage = "send"
    /\ links[k].at = at

(* No transfer of its message has been sent. *)
AtFirst(k) == links[k].parts = Parts[subs[links[k].sub].message]

(* Link flow control; the subscription grows with the credit. *)
SendCredit(k) ==
    LET link == links[k]
        grows == link.linkCredit > link.size
    IN  /\ InSend(k, "idle")
        /\ link.linkCredit > 0
        /\ SetLink(k, [link EXCEPT !.deliveryCount = @ + 1, !.linkCredit = @ - 1,
                                   !.size = IF grows THEN link.linkCredit ELSE @,
                                   !.at = IF grows THEN "resize" ELSE "load",
                                   !.parts = Parts[subs[link.sub].message]])
        /\ UNCHANGED <<session, handles, deliveries, granted, overlapped, wrapped,
                       subscribeVars, clientVars>>

(* SubscriptionResize; when it fails so does Subscribe. *)
SendResize(k) ==
    /\ InSend(k, "resize")
    /\ SetLink(k, [links[k] EXCEPT !.at = "load"])
    /\ subs' = [subs EXCEPT ![links[k].sub].size = links[k].size]
    /\ UNCHANGED <<session, handles, deliveries, granted, overlapped, wrapped,
                   owner, groupClosed, clientVars>>

SendResizeFails(k) ==
    /\ InSend(k, "resize")
    /\ SetLink(k, [links[k] EXCEPT !.at = "idle"])
    /\ Return(links[k].sub, "error")
    /\ UNCHANGED <<session, handles, deliveries, granted, overlapped, wrapped, clientVars>>

(* The session's delivery ID is incremented, a load and a store, and read  *)
(* once more to be the ID of the delivery.                                 *)
SendLoad(k) ==
    /\ InSend(k, "load")
    /\ SetLink(k, [links[k] EXCEPT !.at = "store", !.id = session.deliveryID + 1])
    /\ overlapped' = (overlapped \/ \E j \in DOMAIN links :
           links[j].at \in {"store", "read"} \/ (links[j].at = "window" /\ AtFirst(j)))
    /\ UNCHANGED <<session, handles, deliveries, granted, wrapped, subscribeVars, clientVars>>

SendStore(k) ==
    /\ InSend(k, "store")
    /\ session' = [session EXCEPT !.deliveryID = links[k].id]
    /\ SetLink(k, [links[k] EXCEPT !.at = "read"])
    /\ UNCHANGED <<handles, deliveries, granted, overlapped, wrapped, subscribeVars, clientVars>>

SendRead(k) ==
    /\ InSend(k, "read")
    /\ SetLink(k, [links[k] EXCEPT !.at = "window", !.id = session.deliveryID])
    /\ UNCHANGED <<session, handles, deliveries, granted, overlapped, wrapped,
                   subscribeVars, clientVars>>

EntryOf(k) ==
    [deliveryID |-> links[k].id, sub |-> links[k].sub, seq |-> subs[links[k].sub].seq]

(* Session flow control, inflight with the first transfer, and a transfer. *)
(* With the last one the client has the message.  Once the connection is   *)
(* closed sending fails, and with it Subscribe.                            *)
SendTransfer(k) ==
    LET s == links[k].sub
        first == AtFirst(k)
        last == links[k].parts = 1
        failed == session.state = "closed"
        delivery == [link |-> k, entry |-> EntryOf(k), message |-> subs[s].message]
    IN  /\ InSend(k, "window")
        /\ session.remoteIncomingWindow > 0
        /\ session' = [session EXCEPT
               !.nextOutgoingID = @ + 1, !.remoteIncomingWindow = @ - 1,
               !.inflight = IF first /\ ~subs[s].auto THEN Append(@, EntryOf(k)) ELSE @]
        /\ SetLink(k, [links[k] EXCEPT !.parts = @ - 1, !.at = IF last \/ failed THEN "idle" ELSE @])
        /\ deliveries' = IF last /\ ~subs[s].auto /\ session.state = "ready" /\ Attached(k)
                         THEN deliveries \cup {delivery} ELSE deliveries
        /\ presettled' = IF last /\ ~failed THEN SentWithoutAck(s) ELSE presettled
        /\ IF failed THEN Return(s, "error")
           ELSE /\ subs' = IF last THEN AfterSend(s) ELSE subs
                /\ UNCHANGED <<owner, groupClosed>>
        /\ UNCHANGED <<handles, granted, overlapped, wrapped, accepted, excused, intended, published>>

(* Subscribe has failed: the link is detached. *)
ReceiveFails(k) ==
    /\ links[k].sub # 0
    /\ subs[links[k].sub].stage = "error"
    /\ SetLink(k, [links[k] EXCEPT !.state = "detaching"])
    /\ subs' = [subs EXCEPT ![links[k].sub].stage = "gone"]
    /\ UNCHANGED <<session, handles, deliveries, granted, overlapped, wrapped,
                   owner, groupClosed, clientVars>>

-----------------------------------------------------------------------------
SessionFrame ==
    LET ids == {d.entry.deliveryID : d \in deliveries}
    IN  /\ budget.methods > 0
        /\ \/ SessionFails
           \/ \E h \in Handles : AttachTopic(h) \/ Detach(h)
           \/ \E h \in Handles, settled \in BOOLEAN : AttachConsumerGroup(h, settled)
           \/ \E k \in 0..Len(links), limit \in LinkLimits, window \in WindowLimits :
                Flow(k, limit, window)
           \/ \E first \in ids, last \in ids \cup {0}, accept \in BOOLEAN :
                (last = 0 \/ last >= first) /\ Disposition(first, last, accept)
        /\ budget' = IF session'.state = "ready" THEN [budget EXCEPT !.methods = @ - 1] ELSE Spent

(* A new delivery costs the client one message. *)
TransferFrame ==
    \E h \in Handles, more, aborted \in BOOLEAN :
        \/ Cost("messages") /\ Transfer(h, budget.messages, more, aborted)
        \/ /\ handles[h] # 0 /\ Len(links[handles[h]].told) = 1
           /\ links[handles[h]].current # 0
           /\ Transfer(h, links[handles[h]].current, more, aborted)
           /\ UNCHANGED budget

(* The end of the session is a fault unless it has failed. *)
SessionEnds ==
    /\ \E state \in {"ended", "closed"} : End(state)
    /\ session.state = "ready" => budget.faults > 0
    /\ budget' = Spent

LinkStep(k) ==
    \/ SendCredit(k)
    \/ SendResize(k)
    \/ SendLoad(k)
    \/ SendStore(k)
    \/ SendRead(k)
    \/ SendTransfer(k)
    \/ ReceiveFails(k)

SessionNext ==
    \/ SessionFrame
    \/ TransferFrame
    \/ SessionEnds
    \/ ~Dead /\ (\E k \in DOMAIN links : LinkStep(k)) /\ UNCHANGED budget
    \/ ~Dead /\ (\E k \in DOMAIN links : SendResizeFails(k)) /\ Cost("faults")
    \/ /\ ~Dead
       /\ CloseGroup \/ \E s \in DOMAIN subs : SubscribeStep(s)
       /\ UNCHANGED <<sessionVars, clientVars>>

-----------------------------------------------------------------------------
(* The client can settle what it holds: each of its deliveries has its own *)
(* entry in inflight, and that is the lease of the very message it got     *)
(* (Send, Disposition).  Not so once its link was detached, or Subscribe   *)
(* has failed on it: that gives back every lease before the client is      *)
(* told.  Nor after a link has loaded the delivery ID while another one    *)
(* was between its load and its first transfer, or when a disposition      *)
(* without `last' has swept the delivery up.                               *)
SessionSettleable ==
    \A d \in deliveries :
        LET named == {k \in DOMAIN session.inflight :
                         session.inflight[k].deliveryID = d.entry.deliveryID}
            failed == subs[d.entry.sub].stage = "error" \/ links[d.link].state = "detaching"
            excepted == subs[d.entry.sub].cancelled \/ failed \/ overlapped \/ d.message \in excused
        IN  ~excepted =>
                /\ {session.inflight[k] : k \in named} = {d.entry}
                /\ Cardinality(named) = 1
                /\ owner[d.message] = <<d.entry.sub, d.entry.seq>>
                /\ Registered(d.entry.sub)

(* A link delivers no more than the credit its client granted, and the     *)
(* session sends no more than its window, as long as the client takes      *)
(* nothing back of what has been used (Send, Flow).                        *)
CreditKept ==
    ~wrapped =>
        /\ session.nextOutgoingID =< granted[0]
        /\ \A k \in DOMAIN granted \ {0} : links[k].deliveryCount =< granted[k]

(* A client that settles what it holds does not bring the server down,     *)
(* unless one of the two things happened that SessionSettleable excepts    *)
(* (Disposition).                                                          *)
DispositionFinds == Dead => overlapped \/ excused # {}
=============================================================================
