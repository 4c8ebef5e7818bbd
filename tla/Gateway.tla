------------------------------ MODULE Gateway -------------------------------
(***************************************************************************)
(* What stands between the clients and the consumer groups: connections of *)
(* both protocols that consume one group, and, on their own, the encoding  *)
(* of all messages (Wire) and the choice of the groups a message goes to   *)
(* (Routing), which share no state with them.                              *)
(***************************************************************************)
EXTENDS Wire, Routing, AmqpChannel, AmqpSession

CONSTANT Loads  \* which connections there are, and how much happens

VARIABLE peers  \* the protocols of the connections; none if bytes are sent

gatewayVars == <<subscribeVars, clientVars, channelVars, sessionVars>>

vars == <<peers, budget, gatewayVars, wireVars, routed>>

Init ==
    /\ SubscribeInit
    /\ ChannelInit
    /\ \E load \in Loads : peers = load.peers /\ budget = load.budget
    /\ SessionInit
    /\ RoutingInit
    /\ WireInit(IF peers = {} THEN Media ELSE {"protobuf"})

(* The two connections have goroutines of their own; a panic of one is the *)
(* end of both.                                                            *)
ChannelStep ==
    /\ "0-9-1" \in peers
    /\ ~Dead
    /\ ChannelNext
    /\ UNCHANGED <<peers, sessionVars, wireVars, routed>>

SessionStep ==
    /\ "1.0" \in peers
    /\ SessionNext
    /\ UNCHANGED <<peers, channelVars, wireVars, routed>>

WireStep ==
    /\ peers = {} /\ routed = <<>>
    /\ WireNext
    /\ UNCHANGED <<peers, budget, gatewayVars, routed>>

RoutingStep ==
    /\ peers = {}
    /\ medium = "protobuf" /\ sent = <<>>
    /\ RoutingNext
    /\ UNCHANGED <<peers, budget, gatewayVars, wireVars>>

Next == ChannelStep \/ SessionStep \/ WireStep \/ RoutingStep

Spec == Init /\ [][Next]_vars

(* Every goroutine goes on when it can; the client need not.               *)
Goroutine(s) ==
    /\ s \in DOMAIN subs
    /\ SubscribeStep(s) /\ UNCHANGED <<clientVars, channelVars>>
    /\ UNCHANGED <<peers, sessionVars, wireVars, routed>>

Loop == ChannelLoop /\ UNCHANGED <<peers, sessionVars, wireVars, routed>>

FairSpec == Spec /\ WF_vars(Loop) /\ \A s \in 1..MaxCalls : WF_vars(Goroutine(s))

-----------------------------------------------------------------------------
(* ChannelSettleable and SessionSettleable: a client can settle what it    *)
(* holds, whichever protocol it speaks and whoever else consumes the group. *)
Settleable == ChannelSettleable /\ SessionSettleable

(* When a client disconnects, its messages return to the group             *)
(* (ServeAMQPv0, Subscribe and Close of a subscription).                   *)
ReturnedOnDisconnect ==
    connection = "closed" ~> \A m \in Messages, s \in OfThisConnection : ~Leased(m, s)
=============================================================================
