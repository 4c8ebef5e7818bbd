------------------------ MODULE ConsumerGroupRefinement ------------------------
(***************************************************************************)
(* The ring of ConsumerGroup implements the queue of WorkQueue.            *)
(***************************************************************************)
EXTENDS ConsumerGroup

\* Acked slots wait in the ring for the ones before them; to a consumer they are
\* gone.  Places are counted from read.
Unacked == {p \in Index : p < Distance(write) /\ messages[Nth(p)].sub # Acked}

Line == [p \in Unacked |-> [msg |-> messages[Nth(p)].msg, holder |-> messages[Nth(p)].sub]]

Queue == INSTANCE WorkQueue WITH
    Capacity <- N,
    Messages <- Message,
    Consumers <- Subscriptions,
    Free <- Ready,
    queue <- Line

\* Seen through its un-acked messages the group is the queue it promises: FIFO,
\* one holder per message, removal by the ack of the holder only.
ImplementsWorkQueue == Queue!QueueSpec
=============================================================================
