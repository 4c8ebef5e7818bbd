----------------------------- MODULE AmqpV1Wire -----------------------------
(***************************************************************************)
(* AMQP 1.0 on the wire: amqp/v1/marshal.go, amqp/v1/unmarshal.go,         *)
(* amqp/v1/transport.go and the MarshalBuffer and UnmarshalBuffer methods  *)
(* of amqp/v1/amqp1-0-0.go, which are the same for all composites up to    *)
(* the descriptor and the fields in AmqpV1Types.                           *)
(*                                                                         *)
(* What may be nil is <<>> or <<value>>; a union is <<>> or <<type,        *)
(* value>>; maps are the tables of AmqpV0Wire.  The Go type of an error    *)
(* condition follows from its text and is left out.                        *)
(***************************************************************************)
EXTENDS Octets, AmqpV1Types

CONSTANT FrameMax

-----------------------------------------------------------------------------
(* Primitive types *)

(* One of two constructors, with a length of one or of four bytes. *)
Sized(short, long, b) ==
  IF Len(b) =< 255 THEN <<short, Len(b)>> \o b ELSE <<long>> \o WithLength(b)

(* Both constructors of marshalSymbol are the one for short symbols. *)
MarshalSymbol(b) == Sized(163, 163, b)

(* Zero, one byte, or the full width. *)
Compact(zero, small, full, width, v) ==
  IF v = <<>> THEN <<zero>> ELSE IF Len(v) = 1 THEN <<small>> \o v ELSE <<full>> \o Put(v, width)

\* A defect: the count is not part of the size.
CountedWithout(short, long, count, items) ==
  IF Len(items) =< 255 /\ count =< 255
  THEN <<short, (Len(items) + 1) % 256, count>> \o items
  ELSE <<long>> \o Length(Len(items) + 4) \o Length(count) \o items

Counted(short, long, count, items) ==
  IF Len(items) + 1 =< 255 /\ count =< 255
  THEN <<short, (Len(items) + 1) % 256, count>> \o items
  ELSE <<long>> \o Length(Len(items) + 4) \o Length(count) \o items

MarshalSymbolArray(list) ==
  LET short == \A k \in DOMAIN list : Len(list[k]) =< 255
      items == FlattenSeq([k \in DOMAIN list |->
                 (IF short THEN <<Len(list[k])>> ELSE Length(Len(list[k]))) \o list[k]])
      constructor == <<IF short THEN 163 ELSE 179>>
  IN  IF Len(items) + 2 =< 255 /\ Len(list) =< 255
      THEN <<224, Len(items) + 2, Len(list)>> \o constructor \o items
      ELSE <<240>> \o Length(Len(items) + 5) \o Length(Len(list)) \o constructor \o items

RECURSIVE MarshalMap(_), MarshalValue(_)

MarshalMap(m) ==
  Counted(193, 209, 2 * Len(m),
          FlattenSeq([k \in DOMAIN m |-> Sized(161, 177, m[k][1]) \o MarshalValue(m[k][2])]))

MarshalValue(value) ==
  LET v == value[2]
  IN  CASE value[1] = "null" -> <<64>>
        [] value[1] = "int" ->
             (CASE Len(v) = 1 -> <<81>> [] Len(v) = 2 -> <<97>>
                [] Len(v) = 4 -> <<113>> [] Len(v) > 4 -> <<129>>) \o ToInt64(v)
        [] value[1] = "float" -> <<130>> \o v
        [] value[1] = "string" -> Sized(161, 177, v)
        [] value[1] = "bool" -> <<IF v THEN 65 ELSE 66>>
        [] value[1] = "table" -> MarshalMap(v)
        [] value[1] = "list" ->
             IF v = <<>> THEN <<69>>
             ELSE Counted(192, 208, Len(v),
                          FlattenSeq([k \in DOMAIN v |-> MarshalValue(v[k])]))

GetByte(b, Convert(_)) == Map(Get(b, 1), Convert)

(* unmarshalString, unmarshalSymbol and unmarshalBinary: b starts with the *)
(* constructor.                                                            *)
GetSized(short, long, b) ==
  IF b[1] = short THEN GetBlock(Tail(b), 1)
  ELSE IF b[1] = long THEN GetBlock(Tail(b), 4) ELSE Fail

GetCompact(zero, small, full, width, b) ==
  IF b[1] = zero THEN Done(<<>>, Tail(b))
  ELSE IF b[1] = small THEN GetByte(Tail(b), Unpadded)
  ELSE IF b[1] = full THEN GetUint(Tail(b), width) ELSE Fail

(* The items of a list or map, its count in front of them. *)
GetCounted(short, long, b) ==
  LET width == IF b[1] = short THEN 1 ELSE 4
  IN  IF b[1] \notin {short, long} THEN Fail
      ELSE Then(GetBlock(Tail(b), width), LAMBDA block :
             Then(Get(block.v, width), LAMBDA count :
               [ok |-> TRUE, count |-> Value(count.v), items |-> count.rest, rest |-> block.rest]))

(* Count values in a row, each read by Read. *)
GetEach(count, Read(_), b) ==
  FoldLeft(LAMBDA sofar, k :
             Then(sofar, LAMBDA all :
               Then(Read(all.rest), LAMBDA one : Done(Append(all.v, one.v), one.rest))),
           Done(<<>>, b), [k \in 1..count |-> k])

(* The items of an array share the constructor in front of them. *)
GetArray(Read(_), b) ==
  LET width == IF b[1] = 224 THEN 1 ELSE 4
      size == Value(SubSeq(b, 2, 1 + width))
      count == Value(SubSeq(b, 2 + width, 1 + 2 * width))
  IN  IF b[1] \notin {224, 240} THEN Fail
      ELSE IF Len(b) < 1 + 2 * width THEN Fail
      ELSE Then(Get(From(b, 2 + 2 * width), size - width), LAMBDA items :
             IF count = 0 THEN Done(<<>>, items.rest)
             ELSE IF items.v = <<>> THEN Fail
             ELSE Then(GetEach(count, LAMBDA rest : Read(<<items.v[1]>> \o rest), Tail(items.v)),
                       LAMBDA values : Done(values.v, items.rest)))

GetSymbol(b) == GetSized(163, 179, b)

RECURSIVE UnmarshalMap(_), UnmarshalValue(_)

(* A name that comes twice keeps its last value. *)
UnmarshalMap(b) ==
  LET Key(all, k) == all[2 * k - 1]
      Latest(all, k) == \A j \in (k + 1)..(Len(all) \div 2) : Key(all, j) # Key(all, k)
      Kept(all) == SelectSeq([k \in 1..(Len(all) \div 2) |-> k], LAMBDA k : Latest(all, k))
      Pairs(all) == LET kept == Kept(all)
                    IN  [k \in DOMAIN kept |-> <<Key(all, kept[k])[2], all[2 * kept[k]]>>]
      Strings(all) == \A k \in 1..(Len(all) \div 2) : Key(all, k)[1] = "string"
  IN  IF IsPrefix(<<193, 0>>, b) THEN Done(<<>>, From(b, 3))
      ELSE IF IsPrefix(<<209, 0, 0, 0, 0>>, b) THEN Done(<<>>, From(b, 6))
      ELSE Then(GetCounted(193, 209, b), LAMBDA c :
             IF c.count % 2 # 0 THEN Fail
             ELSE Then(GetEach(c.count, UnmarshalValue, c.items), LAMBDA all :
                    IF Strings(all.v) THEN Done(Pairs(all.v), c.rest) ELSE Fail))

(* Numbers of all types become the same number; timestamps, UUIDs and      *)
(* binaries, which become strings for people, are left out with decimals,  *)
(* which are refused.                                                      *)
UnmarshalValue(b) ==
  LET As(kind, g) == Map(g, LAMBDA v : <<kind, v>>)
      Signed(width) == Map(Get(Tail(b), width), LAMBDA v : <<"int", Narrow(v)>>)
      Unsigned(g) == Map(g, LAMBDA v : <<"int", Positive(v)>>)
      NonZero(v) == v # <<0>>
      c == b[1]
  IN  IF b = <<>> THEN Fail
      ELSE CASE c = 64 -> Done(<<"null", <<>> >>, Tail(b))
             [] c = 86 -> As("bool", GetByte(Tail(b), NonZero))
             [] c \in {65, 66} -> Done(<<"bool", c = 65>>, Tail(b))
             [] c = 80 -> Unsigned(Get(Tail(b), 1))
             [] c = 96 -> Unsigned(Get(Tail(b), 2))
             [] c \in {67, 82, 112} -> Unsigned(GetCompact(67, 82, 112, 4, b))
             [] c \in {68, 83, 128} -> Unsigned(GetCompact(68, 83, 128, 8, b))
             [] c \in {81, 84, 85} -> Signed(1)
             [] c = 97 -> Signed(2)
             [] c \in {113, 115} -> Signed(4)
             [] c = 129 -> Signed(8)
             [] c = 114 -> As("float", Get(Tail(b), 4))
             [] c = 130 -> As("float", Get(Tail(b), 8))
             [] c \in {161, 177} -> As("string", GetSized(161, 177, b))
             [] c \in {163, 179} -> As("string", GetSymbol(b))
             [] c = 69 -> Done(<<"list", <<>> >>, Tail(b))
             [] c \in {192, 208} ->
                  Then(GetCounted(192, 208, b), LAMBDA list :
                    Then(GetEach(list.count, UnmarshalValue, list.items), LAMBDA items :
                      Done(<<"list", items.v>>, list.rest)))
             [] c \in {193, 209} -> As("table", UnmarshalMap(b))
             [] c \in {224, 240} -> As("list", GetArray(UnmarshalValue, b))
             [] OTHER -> Fail

-----------------------------------------------------------------------------
(* Fields and composites *)

Zero(kind) ==
  IF kind \in DOMAIN NamedTypes THEN NamedTypes[kind].null
  ELSE IF kind = "boolean" THEN FALSE ELSE <<>>

ZeroFields(name) ==
  LET F == Composites[name].fields
  IN  [f \in {F[k][1] : k \in DOMAIN F} |->
         Zero(F[CHOOSE k \in DOMAIN F : F[k][1] = f][2])]

Primitive(kind) == IF kind \in DOMAIN NamedTypes THEN NamedTypes[kind].primitive ELSE kind

Descriptor(type) == Compact(68, 83, 128, 8, type.descriptor)

RECURSIVE MarshalField(_, _), MarshalBuffer(_, _)

MarshalField(kind, v) ==
  LET p == Primitive(kind)
  IN  CASE p = "boolean" -> <<IF v THEN 65 ELSE 66>>
        [] p = "ubyte" -> <<80>> \o Put(v, 1)
        [] p = "ushort" -> <<96>> \o Put(v, 2)
        [] p = "uint" -> Compact(67, 82, 112, 4, v)
        [] p = "ulong" -> Compact(68, 83, 128, 8, v)
        [] p = "timestamp" -> <<131>> \o Put(v[1], 8)
        [] p = "binary" -> Sized(160, 176, IF v = <<>> THEN <<>> ELSE v[1])
        [] p = "string" -> Sized(161, 177, v)
        [] p = "symbol" -> MarshalSymbol(v)
        [] p = "symbols" -> IF v = <<>> THEN <<64>> ELSE MarshalSymbolArray(v)
        [] p = "map" -> MarshalMap(v[1])
        [] p = "condition" -> MarshalSymbol(v[1])
        [] p = "address" -> Sized(161, 177, v[1])
        [] p = "messageid" -> IF v[1] = "uuid" THEN <<152>> \o v[2] ELSE MarshalField(v[1], v[2])
        [] p \in {"state", "outcome"} -> MarshalBuffer(v[1], v[2])
        [] p \in DOMAIN Composites -> MarshalBuffer(p, v[1])

(* Fields after the last one that is mandatory or not zero are left out.   *)
MarshalBuffer(name, m) ==
  LET F == Composites[name].fields
      Written == {k \in DOMAIN F : Len(F[k]) = 3 \/ m[F[k][1]] # Zero(F[k][2])}
      Items(count, some) == FlattenSeq([k \in 1..count |->
                 IF k \in some THEN MarshalField(F[k][2], m[F[k][1]]) ELSE <<64>>])
      List(count, some) ==
        IF count = 0 THEN <<69>> ELSE Counted(192, 208, count, Items(count, some))
  IN  <<0>> \o Descriptor(Composites[name]) \o List(Max(Written \cup {0}), Written)

(* The composite whose descriptor b starts with, among those in names. *)
DescribedBy(b, names) ==
  LET d == GetCompact(68, 83, 128, 8, Tail(b))
  IN  IF Len(b) < 2 \/ b[1] # 0 THEN {}
      ELSE IF d.ok THEN {name \in names : Composites[name].descriptor = d.v} ELSE {}

(* Goes on with that composite. *)
WhichOf(b, names, Step(_)) ==
  LET found == DescribedBy(b, names) IN IF found = {} THEN Fail ELSE Step(CHOOSE n \in found : TRUE)

DeliveryStates == {"Accepted", "Modified", "Received", "Rejected", "Released"}

RECURSIVE UnmarshalField(_, _), UnmarshalBuffer(_, _), UnmarshalFields(_, _, _, _)

(* A union of composites has no null. *)
UnmarshalUnion(kind, b) ==
  WhichOf(b, IF kind = "state" THEN DeliveryStates ELSE DeliveryStates \ {"Received"},
          LAMBDA name : Map(UnmarshalBuffer(name, b), LAMBDA c : <<name, c>>))

UnmarshalMessageID(b) ==
  LET kind == CASE b[1] \in {160, 176} -> "binary" [] b[1] \in {161, 177} -> "string"
                [] b[1] \in {68, 83, 128} -> "ulong" [] OTHER -> "none"
  IN  IF b[1] = 152 THEN Map(Get(Tail(b), 16), LAMBDA v : <<"uuid", v>>)
      ELSE IF kind = "none" THEN Fail
      ELSE Map(UnmarshalField(kind, b), LAMBDA v : <<kind, v>>)

UnmarshalField(kind, b) ==
  LET p == Primitive(kind)
      Some(g) == Map(g, LAMBDA v : <<v>>)
      NonZero(v) == v # <<0>>
  IN  IF b = <<>> THEN Fail
      ELSE IF p \in {"state", "outcome"} THEN UnmarshalUnion(p, b)
      ELSE IF b[1] = 64 THEN Done(Zero(kind), Tail(b))
      ELSE CASE p = "boolean" -> IF b[1] = 86 THEN GetByte(Tail(b), NonZero)
                                 ELSE IF b[1] \in {65, 66} THEN Done(b[1] = 65, Tail(b))
                                 ELSE Fail
             [] p = "ubyte" -> IF b[1] = 80 THEN GetUint(Tail(b), 1) ELSE Fail
             [] p = "ushort" -> IF b[1] = 96 THEN GetUint(Tail(b), 2) ELSE Fail
             [] p = "uint" -> GetCompact(67, 82, 112, 4, b)
             [] p = "ulong" -> GetCompact(68, 83, 128, 8, b)
             [] p = "timestamp" -> IF b[1] = 131 THEN Some(GetUint(Tail(b), 8)) ELSE Fail
             [] p = "binary" -> Some(GetSized(160, 176, b))
             [] p = "string" -> GetSized(161, 177, b)
             [] p = "symbol" -> GetSymbol(b)
             [] p = "symbols" -> GetArray(GetSymbol, b)
             [] p = "map" -> Some(UnmarshalMap(b))
             [] p = "condition" -> Some(GetSymbol(b))
             [] p = "address" -> Some(GetSized(161, 177, b))
             [] p = "messageid" -> UnmarshalMessageID(b)
             [] p \in DOMAIN Composites -> Some(UnmarshalBuffer(p, b))

(* Fields k, k + 1, ... of a composite; items of a newer peer are ignored. *)
UnmarshalFields(fields, count, m, b) ==
  IF count = 0 \/ fields = <<>> THEN Done(m, b)
  ELSE Then(UnmarshalField(Head(fields)[2], b), LAMBDA field :
         UnmarshalFields(Tail(fields), count - 1,
                         [m EXCEPT ![Head(fields)[1]] = field.v], field.rest))

UnmarshalBuffer(name, b) ==
  LET list == From(b, 2 + Len(Descriptor(Composites[name])))
  IN  IF DescribedBy(b, {name}) = {} THEN Fail
      ELSE IF list = <<>> THEN Fail
      ELSE IF list[1] \in {64, 69} THEN Done(ZeroFields(name), Tail(list))
      ELSE Then(GetCounted(192, 208, list), LAMBDA c :
             Then(UnmarshalFields(Composites[name].fields, c.count, ZeroFields(name), c.items),
                  LAMBDA m : Done(m.v, c.rest)))

-----------------------------------------------------------------------------
(* Sections: the payload of a transfer is a sequence of <<name, value>>.   *)

MarshalSection(s) ==
  IF s[1] \in DOMAIN PlainSections
  THEN <<0>> \o Descriptor(PlainSections[s[1]])
         \o MarshalField(PlainSections[s[1]].content, s[2])
  ELSE MarshalBuffer(s[1], s[2])

(* The error of a Data section is dropped: it becomes an empty one. *)
UnmarshalSection(b) ==
  LET Plain(d) == {n \in DOMAIN PlainSections : PlainSections[n].descriptor = d}
      GetPlain(n, rest, content) ==
        IF content.ok THEN Done(<<n, content.v>>, content.rest)
        ELSE IF n = "Data" /\ rest # <<>> THEN Done(<<n, <<>> >>, Tail(rest))
        ELSE Fail
      Content(n, rest) == GetPlain(n, rest, UnmarshalField(PlainSections[n].content, rest))
  IN  IF Len(b) < 2 \/ b[1] # 0 THEN Fail
      ELSE Then(GetCompact(68, 83, 128, 8, Tail(b)), LAMBDA d :
             IF Plain(d.v) # {} THEN Content(CHOOSE n \in Plain(d.v) : TRUE, d.rest)
             ELSE WhichOf(b, {"Header", "Properties"}, LAMBDA name :
                    Map(UnmarshalBuffer(name, b), LAMBDA c : <<name, c>>)))

RECURSIVE UnmarshalSections(_)

UnmarshalSections(b) ==
  IF b = <<>> THEN Done(<<>>, <<>>)
  ELSE Then(UnmarshalSection(b), LAMBDA first :
         Map(UnmarshalSections(first.rest), LAMBDA others : <<first.v>> \o others))

-----------------------------------------------------------------------------
(* Frames: <<channel, name, fields, payload>>, and <<>> for a heartbeat.   *)

SASLFrames == {"SASLMechanisms", "SASLInit", "SASLChallenge", "SASLResponse", "SASLOutcome"}

AMQPFrames == {"Open", "Begin", "Attach", "Flow", "Transfer", "Disposition", "Detach",
               "End", "Close"}

SendData(type, channel, data) ==
  IF Len(data) + 8 > FrameMax THEN Fail
  ELSE Done(Length(Len(data) + 8) \o <<2, type>> \o channel \o data, <<>>)

Send(frame) ==
  IF frame = <<>> THEN SendData(0, <<0, 0>>, <<>>)
  ELSE SendData(IF frame[2] \in SASLFrames THEN 1 ELSE 0, Put(frame[1], 2),
                MarshalBuffer(frame[2], frame[3]) \o frame[4])

FrameSize(b) == Value(SubSeq(b, 1, 4))

(* A size below 8 wraps around, to more than will ever come. *)
Arrived(b) ==
  Len(b) >= 8 /\ (FrameSize(b) > FrameMax \/ (FrameSize(b) >= 8 /\ Len(b) >= FrameSize(b)))

(* An extended header, b[5] more than 2 words, is cut from the end. *)
Receive(b) ==
  LET data == SubSeq(b, 9, FrameSize(b) - (4 * b[5] - 8))
      rest == From(b, FrameSize(b) + 1)
  IN  IF FrameSize(b) > FrameMax \/ b[6] \notin {0, 1} THEN Fail
      ELSE IF FrameSize(b) = 8 THEN IF b[6] = 0 THEN Done(<<>>, rest) ELSE Fail
      ELSE WhichOf(data, SASLFrames \cup AMQPFrames, LAMBDA name :
             Then(UnmarshalBuffer(name, data), LAMBDA c :
               Done(<<Unpadded(SubSeq(b, 7, 8)), name, c.v, c.rest>>, rest)))
=============================================================================
