------------------------------- MODULE WorkQueue -------------------------------
(***************************************************************************)
(* What a consumer group promises, without rings, mutexes and goroutines:  *)
(* a line of messages, each free or held by one consumer.  The first free  *)
(* message is handed out first, a message leaves the line only when its    *)
(* holder acks it, and a holder may give messages back to where they were. *)
(***************************************************************************)
EXTENDS Integers

CONSTANTS Capacity, Messages, Consumers, Free

VARIABLES
    queue,      \* the messages nobody has acked, by their place in the line
    acked       \* the messages somebody has acked

queueVars == <<queue, acked>>

\* The line has room for Capacity messages.  Otherwise only the order of places
\* matters.
Places == 0..(Capacity - 1)

QueueInit == DOMAIN queue = {} /\ acked = {}

\* A new message comes behind all others.
Put(m) ==
    /\ \E p \in Places :
        /\ \A q \in DOMAIN queue : q < p
        /\ queue' = [q \in DOMAIN queue \cup {p} |->
               IF q = p THEN [msg |-> m, holder |-> Free] ELSE queue[q]]
    /\ UNCHANGED acked

Lease(c) ==
    /\ \E p \in DOMAIN queue :
        /\ queue[p].holder = Free
        /\ \A q \in DOMAIN queue : q < p => queue[q].holder # Free
        /\ queue' = [queue EXCEPT ![p].holder = c]
    /\ UNCHANGED acked

\* A nack gives one message back, a closed subscription all of them.
Release(c, ps) ==
    /\ \A p \in ps : queue[p].holder = c
    /\ queue' = [p \in DOMAIN queue |->
           IF p \in ps THEN [queue[p] EXCEPT !.holder = Free] ELSE queue[p]]
    /\ UNCHANGED acked

\* The message leaves, and the line may move up by d places.
Acknowledge(p, d) ==
    /\ queue[p].holder # Free
    /\ \A q \in DOMAIN queue \ {p} : d <= q
    /\ queue' = [q \in {x - d : x \in DOMAIN queue \ {p}} |-> queue[q + d]]
    /\ acked' = acked \cup {queue[p].msg}

QueueNext ==
    \/ \E m \in Messages : Put(m)
    \/ \E c \in Consumers :
        Lease(c) \/ \E ps \in SUBSET DOMAIN queue : Release(c, ps)
    \/ \E p \in DOMAIN queue, d \in 0..Capacity : Acknowledge(p, d)

QueueSpec == QueueInit /\ [][QueueNext]_queueVars
=============================================================================
