------------------------------- MODULE Routing -------------------------------
(***************************************************************************)
(* Which messages of a topic a consumer group takes, mq/match.go.  A       *)
(* routing key, and a pattern, is the sequence of its characters, as the   *)
(* code searches and slices it; a table of headers is a function from      *)
(* their names.                                                            *)
(***************************************************************************)
EXTENDS Integers, Sequences, SequencesExt

CONSTANTS TopicBindings,  \* what a group may be bound to, a sequence of bindings
          TopicMessages   \* the messages that may come

VARIABLE routed           \* the groups and messages matched so far, with the result

Dot == "."
Wildcard == <<"*">>
ZeroOrMore == <<"#">>

(* strings.IndexByte, counted from 1, so that 0 stands for -1. *)
IndexByte(s, c) ==
    IF \E k \in DOMAIN s : s[k] = c
    THEN CHOOSE k \in DOMAIN s : s[k] = c /\ \A j \in 1..(k - 1) : s[j] # c
    ELSE 0

(* s[i:], and s[:i] without what is at i. *)
After(s, i) == SubSeq(s, i + 1, Len(s))
Before(s, i) == SubSeq(s, 1, i - 1)

RECURSIVE RoutingKeyMatches(_, _)

(* The key after its first word; nothing matches a key that ends with a dot. *)
MatchesAfter(rest, key) ==
    LET j == IndexByte(key, Dot)
    IN  j # 0 /\ After(key, j) # <<>> /\ RoutingKeyMatches(rest, After(key, j))

(* ZeroOrMore alone, or at the end. *)
MatchesAny(key) == IndexByte(key, Dot) = 0 \/ MatchesAfter(ZeroOrMore, key)

\* A defect: it stands for one word at least.
MatchesOneOrMore(rest, key) ==
    MatchesAfter(rest, key) \/ MatchesAfter(ZeroOrMore \o <<Dot>> \o rest, key)

(* In front of others: they match here, or after the next word. *)
MatchesZeroOrMore(rest, key) ==
    RoutingKeyMatches(rest, key) \/ MatchesAfter(ZeroOrMore \o <<Dot>> \o rest, key)

RoutingKeyMatches(pattern, key) ==
    LET i == IndexByte(pattern, Dot)
        j == IndexByte(key, Dot)
        part == Before(pattern, i)
        rest == After(pattern, i)
        word == IF j = 0 THEN key ELSE Before(key, j)
    IN  IF pattern = <<>> THEN key = <<>>
        ELSE IF i = 0
        THEN CASE pattern = Wildcard -> key # <<>> /\ j = 0
               [] pattern = ZeroOrMore -> MatchesAny(key)
               [] OTHER -> key = pattern
        ELSE IF part = ZeroOrMore THEN MatchesZeroOrMore(rest, key)
        ELSE /\ IF part = Wildcard THEN key # <<>> ELSE word = part
             /\ IF j = 0 THEN RoutingKeyMatches(rest, <<>>) ELSE MatchesAfter(rest, key)

(* The headers of a binding: all, or one of them, with their values. *)
HasHeader(headers, by, name) == name \in DOMAIN headers /\ headers[name] = by[name]

BindingMatches(binding, topic, message) ==
    /\ binding.topic = topic
    /\ CASE binding.type = "direct" -> binding.by = message.key
         [] binding.type = "fanout" -> TRUE
         [] binding.type = "topic" -> RoutingKeyMatches(binding.by, message.key)
         [] binding.type = "all" ->
              /\ message.headers # <<>>
              /\ \A name \in DOMAIN binding.by : HasHeader(message.headers[1], binding.by, name)
         [] binding.type = "any" ->
              /\ message.headers # <<>>
              /\ \E name \in DOMAIN binding.by : HasHeader(message.headers[1], binding.by, name)

(* messageMatches; since is when the group was created. *)
MessageMatches(message, topic, since, bindings) ==
    message.time >= since /\ \E k \in DOMAIN bindings : BindingMatches(bindings[k], topic, message)

RoutingInit == routed = <<>>

(* A consume task looks at the next message of a segment of the topic. *)
Route(message, topic, since, bindings) ==
    routed' = <<message, topic, since, bindings,
                MessageMatches(message, topic, since, bindings)>>

RoutingNext ==
    /\ routed = <<>>
    /\ \E message \in TopicMessages, bindings \in TopicBindings, since \in {0, 1} :
        Route(message, "t", since, bindings)

-----------------------------------------------------------------------------
(* A key or a pattern as its words. *)
RECURSIVE Words(_)
Words(s) ==
    LET i == IndexByte(s, Dot)
    IN  IF s = <<>> THEN <<>>
        ELSE IF i = 0 THEN <<s>> ELSE <<Before(s, i)>> \o
             (IF i = Len(s) THEN << <<>> >> ELSE Words(After(s, i)))

(* The words of the pattern take turns at those of the key: cut[k] is how  *)
(* many words the first k of them stand for.                               *)
WordsMatch(pattern, key) ==
    \E cut \in [0..Len(pattern) -> 0..Len(key)] :
        /\ cut[0] = 0 /\ cut[Len(pattern)] = Len(key)
        /\ \A k \in DOMAIN pattern :
            IF pattern[k] = ZeroOrMore THEN cut[k] >= cut[k - 1]
            ELSE /\ cut[k] = cut[k - 1] + 1
                 /\ pattern[k] \in {Wildcard, key[cut[k]]}

(* The headers as pairs of a name and a value; none for a message without. *)
Pairs(headers) == UNION {{<<name, h[name]>> : name \in DOMAIN h} : h \in ToSet(headers)}

(* What a binding means: fanout takes all, direct what has its words, all  *)
(* and any what has all its headers, or one.                               *)
Meant(b, message) ==
    LET has == Pairs(message.headers)
    IN  \/ b.type = "fanout"
        \/ b.type = "direct" /\ Words(b.by) = Words(message.key)
        \/ b.type = "topic" /\ WordsMatch(Words(b.by), Words(message.key))
                            /\ (message.key # <<>> => Last(message.key) # Dot)
        \/ b.type = "all" /\ message.headers # <<>> /\ Pairs(<<b.by>>) \subseteq has
        \/ b.type = "any" /\ Pairs(<<b.by>>) \cap has # {}

(* A group takes a message if it is not older than the group and one of    *)
(* the bindings to its topic means it: where the type of the binding is    *)
(* topic, if the words of pattern and key match, whichever words the       *)
(* zero-or-more ones stand for and wherever they are; a key that ends with *)
(* a dot matches nothing (messageMatches, routingKeyMatches).              *)
RoutedByWords ==
    routed # <<>> =>
        routed[5] = (/\ routed[1].time >= routed[3]
                     /\ \E b \in ToSet(routed[4]) : b.topic = routed[2] /\ Meant(b, routed[1]))
=============================================================================
