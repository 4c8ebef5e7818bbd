----------------------------- MODULE AmqpV0Wire -----------------------------
(***************************************************************************)
(* AMQP 0-9-1 on the wire: amqp/v0/marshal.go, amqp/v0/transport.go and    *)
(* the Unmarshal and MarshalBuffer methods of amqp/v0/amqp0-9-1.go, which  *)
(* are the same for all methods up to the list of fields in                *)
(* AmqpV0Methods.                                                          *)
(*                                                                         *)
(* A value of a table is <<kind, content>>; a table is the sequence of its *)
(* <<name, value>> pairs in the order the map is ranged over, and nil is   *)
(* the empty table, from which the bytes do not tell it apart.             *)
(***************************************************************************)
EXTENDS Octets, AmqpV0Methods

CONSTANT FrameMax

FrameEnd == 206

-----------------------------------------------------------------------------
(* Tables *)

RECURSIVE MarshalTable(_), MarshalValue(_)

MarshalTable(t) ==
  FlattenSeq([k \in DOMAIN t |->
                <<Len(t[k][1])>> \o t[k][1] \o MarshalValue(t[k][2])])

(* An integer takes the shortest of the four signed types.  One that no    *)
(* int64 holds is converted to the lowest, on amd64.                       *)
MarshalValue(value) ==
  LET v == value[2]
  IN  CASE value[1] = "null" -> <<86>>
        [] value[1] = "int" ->
             (CASE Len(v) = 1 -> <<98>> [] Len(v) = 2 -> <<115>>
                [] Len(v) = 4 -> <<73>> [] Len(v) > 4 -> <<108>>) \o ToInt64(v)
        [] value[1] = "float" -> <<100>> \o v
        [] value[1] = "string" -> <<83>> \o WithLength(v)
        [] value[1] = "bool" -> <<116, IF v THEN 1 ELSE 0>>
        [] value[1] = "table" -> <<70>> \o WithLength(MarshalTable(v))
        [] value[1] = "list" ->
             <<65>> \o WithLength(FlattenSeq([k \in DOMAIN v |-> MarshalValue(v[k])]))

RECURSIVE UnmarshalTable(_), UnmarshalArray(_), UnmarshalValue(_)

UnmarshalValue(b) ==
  LET rest == From(b, 2)
      Number(width, Convert(_)) == Map(Get(rest, width), LAMBDA v : <<"int", Convert(v)>>)
      Block(kind, Convert(_)) ==
        Then(GetBlock(rest, 4), LAMBDA g :
          Then(Convert(g.v), LAMBDA c : Done(<<kind, c.v>>, g.rest)))
      Plain(v) == Done(v, <<>>)
  IN  IF b = <<>> THEN Fail
      ELSE CASE b[1] = 116 -> Map(Get(rest, 1), LAMBDA v : <<"bool", v # <<0>> >>)
             [] b[1] = 98 -> Number(1, Narrow)
             [] b[1] = 66 -> Number(1, Positive)
             [] b[1] \in {85, 115} -> Number(2, Narrow)
             [] b[1] = 117 -> Number(2, Positive)
             [] b[1] = 73 -> Number(4, Narrow)
             [] b[1] = 105 -> Number(4, Positive)
             [] b[1] = 108 -> Number(8, Narrow)
             [] b[1] = 76 -> Number(8, Positive)
             [] b[1] \in {102, 100} ->
                  Map(Get(rest, IF b[1] = 102 THEN 4 ELSE 8), LAMBDA v : <<"float", v>>)
             [] b[1] \in {120, 83} -> Block("string", Plain)
             [] b[1] = 65 -> Block("list", UnmarshalArray)
             [] b[1] = 70 -> Block("table", UnmarshalTable)
             [] b[1] = 86 -> Done(<<"null", <<>> >>, rest)
             [] OTHER -> Fail

UnmarshalArray(b) ==
  IF b = <<>> THEN Done(<<>>, <<>>)
  ELSE Then(UnmarshalValue(b), LAMBDA first :
         Map(UnmarshalArray(first.rest), LAMBDA others : <<first.v>> \o others))

(* A name that comes twice keeps its last value. *)
UnmarshalTable(b) ==
  LET With(name, value, others) ==
        IF \E k \in DOMAIN others : others[k][1] = name THEN others
        ELSE << <<name, value>> >> \o others
  IN  IF b = <<>> THEN Done(<<>>, <<>>)
      ELSE Then(GetBlock(b, 1), LAMBDA name :
             Then(UnmarshalValue(name.rest), LAMBDA value :
               Map(UnmarshalTable(value.rest), LAMBDA others : With(name.v, value.v, others))))

-----------------------------------------------------------------------------
(* Fields *)

Width == [octet |-> 1, short |-> 2, long |-> 4, longlong |-> 8, shortstr |-> 1, longstr |-> 4]

MarshalField(kind, v) ==
  CASE kind \in {"octet", "short", "long", "longlong"} -> Put(v, Width[kind])
    [] kind = "shortstr" -> <<Len(v)>> \o v
    [] kind = "longstr" -> WithLength(v)
    [] kind = "table" -> WithLength(MarshalTable(v))
    [] kind = "timestamp" -> Put(v[1], 8)

RECURSIVE RefusedValue(_)

(* The errors of marshalling: names have at most 255 bytes. *)
RefusedValue(value) ==
  LET v == value[2]
  IN  CASE value[1] = "table" ->
             \E k \in DOMAIN v : Len(v[k][1]) > 255 \/ RefusedValue(v[k][2])
        [] value[1] = "list" -> \E k \in DOMAIN v : RefusedValue(v[k])
        [] OTHER -> FALSE

Refused(fields, m) ==
  \E k \in DOMAIN fields :
    \/ fields[k][2] = "shortstr" /\ Len(m[fields[k][1]]) > 255
    \/ fields[k][2] = "table" /\ RefusedValue(<<"table", m[fields[k][1]]>>)

UnmarshalField(kind, b) ==
  CASE kind \in {"octet", "short", "long", "longlong"} -> GetUint(b, Width[kind])
    [] kind \in {"shortstr", "longstr"} -> GetBlock(b, Width[kind])
    [] kind = "table" ->
         Then(GetBlock(b, 4), LAMBDA block :
           Then(UnmarshalTable(block.v), LAMBDA table : Done(table.v, block.rest)))
    [] kind = "timestamp" -> Map(GetUint(b, 8), LAMBDA v : <<v>>)

-----------------------------------------------------------------------------
(* Methods *)

(* Adjacent bits share one byte, the first of them in its lowest bit.  No  *)
(* method has more than one such byte.                                     *)
Bits(fields) == SelectSeq(fields, LAMBDA row : row[2] = "bit")

BitByte(bits, m) ==
  FoldLeft(+, 0, [k \in DOMAIN bits |-> IF m[bits[k][1]] THEN 2 ^ (k - 1) ELSE 0])

MarshalMethod(fields, m) ==
  FlattenSeq([k \in DOMAIN fields |->
    IF fields[k][2] # "bit" THEN MarshalField(fields[k][2], m[fields[k][1]])
    ELSE IF fields[k] = Bits(fields)[1] THEN <<BitByte(Bits(fields), m)>> ELSE <<>>])

RECURSIVE UnmarshalFields(_, _, _)

(* The fields one after the other, and then nothing must be left. *)
UnmarshalFields(fields, m, b) ==
  LET row == Head(fields)
      bits == Bits(fields)
      others == SelectSeq(fields, LAMBDA r : r[2] # "bit")
      WithBits(byte) == [f \in DOMAIN m |->
                           IF \E k \in DOMAIN bits : bits[k][1] = f
                           THEN LET k == CHOOSE i \in DOMAIN bits : bits[i][1] = f
                                IN  (byte[1] \div (2 ^ (k - 1))) % 2 = 1
                           ELSE m[f]]
      bit == row[2] = "bit"
  IN  IF fields = <<>> THEN IF b = <<>> THEN Done(m, <<>>) ELSE Fail
      ELSE Then(IF bit THEN Get(b, 1) ELSE UnmarshalField(row[2], b), LAMBDA field :
             UnmarshalFields(IF bit THEN others ELSE Tail(fields),
                             IF bit THEN WithBits(field.v) ELSE [m EXCEPT ![row[1]] = field.v],
                             field.rest))

ZeroFields(fields) ==
  [f \in {fields[k][1] : k \in DOMAIN fields} |->
     IF \E k \in DOMAIN fields : fields[k] = <<f, "bit">> THEN FALSE ELSE <<>>]

-----------------------------------------------------------------------------
(* Content headers *)

Present(v) == v # <<>>

(* Field k is announced by bit k of the flags and left out when it is the  *)
(* zero value.                                                             *)
MarshalHeader(h) ==
  LET F == ContentHeader.fields
      Flag(k) == IF Present(h[F[k][1]]) THEN 2 ^ (k - 1) ELSE 0
      flags == FoldLeft(+, 0, [k \in DOMAIN F |-> Flag(k)])
  IN  Put(ContentHeader.class, 2) \o Put(h.Weight, 2) \o Put(h.BodySize, 8)
      \o <<flags \div 256, flags % 256>>
      \o FlattenSeq([k \in DOMAIN F |->
           IF Flag(k) = 0 THEN <<>> ELSE MarshalField(F[k][2], h[F[k][1]])])

UnmarshalHeader(b) ==
  LET class == GetUint(b, 2)
      weight == GetUint(class.rest, 2)
      size == GetUint(weight.rest, 8)
      flags == Get(size.rest, 2)
      F == ContentHeader.fields
      Announced == SelectSeq([k \in DOMAIN F |-> <<F[k], (Value(flags.v) \div (2 ^ (k - 1))) % 2>>],
                             LAMBDA p : p[2] = 1)
      zero == [f \in {"Weight", "BodySize"} \cup {F[k][1] : k \in DOMAIN F} |->
                 IF f = "Weight" THEN weight.v ELSE IF f = "BodySize" THEN size.v ELSE <<>>]
  IN  IF Len(b) < 14 THEN Fail
      ELSE IF class.v # ContentHeader.class THEN Fail
      ELSE UnmarshalFields([k \in DOMAIN Announced |-> Announced[k][1]], zero, flags.rest)

-----------------------------------------------------------------------------
(* Frames: a frame is <<type, channel, name, content>>.                    *)

Types == [method |-> 1, header |-> 2, body |-> 3, heartbeat |-> 8]

Payload(frame) ==
  CASE frame[1] = "method" ->
         Put(Methods[frame[3]].class, 2) \o Put(Methods[frame[3]].method, 2)
           \o MarshalMethod(Methods[frame[3]].fields, frame[4])
    [] frame[1] = "header" -> MarshalHeader(frame[4])
    [] OTHER -> frame[4]

FieldsOf(frame) ==
  CASE frame[1] = "method" -> Methods[frame[3]].fields
    [] frame[1] = "header" -> ContentHeader.fields
    [] OTHER -> <<>>

(* Send: only bodies are held against FrameMax. *)
Send(frame) ==
  IF frame[1] = "body" /\ Len(frame[4]) + 8 > FrameMax THEN Fail
  ELSE IF Refused(FieldsOf(frame), frame[4]) THEN Fail
  ELSE Done(<<Types[frame[1]]>> \o Put(frame[2], 2) \o WithLength(Payload(frame)) \o <<FrameEnd>>,
            <<>>)

(* SendBody cuts the body into pieces of FrameMax bytes and sends them     *)
(* until one is refused.                                                   *)
SendBody(frame) ==
  LET data == frame[4]
      Least(m, n) == IF m < n THEN m ELSE n
      Piece(k) == SubSeq(data, (k - 1) * FrameMax + 1, Least(k * FrameMax, Len(data)))
  IN  FoldLeft(LAMBDA sofar, k :
                 Then(sofar, LAMBDA all :
                   Map(Send([frame EXCEPT ![4] = Piece(k)]), LAMBDA one : all.v \o one)),
               Done(<<>>, <<>>),
               [k \in 1..((Len(data) + FrameMax - 1) \div FrameMax) |-> k])

DecodeMethodFrame(channel, b) ==
  LET Found == {name \in DOMAIN Methods :
                  /\ Put(Methods[name].class, 2) = SubSeq(b, 1, 2)
                  /\ Put(Methods[name].method, 2) = SubSeq(b, 3, 4)}
      name == CHOOSE n \in Found : TRUE
  IN  IF Len(b) < 4 THEN Fail ELSE IF Found = {} THEN Fail
      ELSE Map(UnmarshalFields(Methods[name].fields, ZeroFields(Methods[name].fields), From(b, 5)),
               LAMBDA m : <<"method", channel, name, m>>)

Decode(type, channel, payload) ==
  CASE type = 1 -> DecodeMethodFrame(channel, payload)
    [] type = 2 -> Map(UnmarshalHeader(payload), LAMBDA h : <<"header", channel, "", h>>)
    [] type = 3 -> Done(<<"body", channel, "", payload>>, <<>>)
    [] type = 8 -> IF payload = <<>> THEN Done(<<"heartbeat", channel, "", <<>> >>, <<>>)
                   ELSE Fail
    [] OTHER -> Fail

(* io.ReadFull waits for what it needs: Receive is possible when a whole   *)
(* frame, or a header that is refused, has arrived.                        *)
FrameSize(b) == Value(SubSeq(b, 4, 7))

TooBig(b) == b[1] = 3 /\ FrameSize(b) + 8 > FrameMax

Arrived(b) == Len(b) >= 7 /\ (TooBig(b) \/ Len(b) >= FrameSize(b) + 8)

(* Receive: the frame b starts with. *)
Receive(b) ==
  LET size == FrameSize(b)
  IN  IF TooBig(b) THEN Fail
      ELSE IF b[8 + size] # FrameEnd THEN Fail
      ELSE Then(Decode(b[1], Unpadded(SubSeq(b, 2, 3)), SubSeq(b, 8, 7 + size)),
                LAMBDA frame : Done(frame.v, From(b, 9 + size)))
=============================================================================
