------------------------------ MODULE Protobuf ------------------------------
(***************************************************************************)
(* The code gogo/protobuf generated for the messages of emq/emq.pb.go,     *)
(* cluster_state.pb.go, node_rpc.pb.go, raft_rpc.pb.go,                    *)
(* discovery_rpc.pb.go and segments.pb.go.  All of them have the same      *)
(* MarshalTo, Size and Unmarshal up to the list of fields, so the three    *)
(* functions are written once, over the field lists of the Messages        *)
(* modules: Schema[name] is a sequence of <<number, field, kind>> or       *)
(* <<number, field, kind, message>>.                                       *)
(*                                                                         *)
(* Go integers of 64 bits do not fit TLC's, so an integer is the sequence  *)
(* of its base-128 digits, the least significant one first and without     *)
(* zeros at the end: zero is <<>>, and -1 as a uint64 is nine times 127    *)
(* and a 1.  Strings and byte slices are sequences of bytes, a pointer is  *)
(* a sequence of at most one message, a oneof is one such sequence per     *)
(* alternative.                                                            *)
(***************************************************************************)
EXTENDS Octets

CONSTANT Schema

Rows(name) == ToSet(Schema[name])

Integral == {"uint64", "int64", "uint32", "int32"}

-----------------------------------------------------------------------------
(* Integers *)

(* The digits d without the zeros that end them. *)
Stripped(d) ==
  LET Used == {k \in DOMAIN d : d[k] # 0}
  IN  SubSeq(d, 1, IF Used = {} THEN 0 ELSE CHOOSE k \in Used : \A j \in Used : j =< k)

(* Numbers below 2^28, all that lengths and tags need, to digits and back. *)
Digits(n) ==
  Stripped([k \in 1..4 |-> (n \div (128 ^ (k - 1))) % 128])

Number(d) ==
  IF Len(d) > 4 THEN 2 ^ 28
  ELSE FoldRight(LAMBDA digit, n : digit + 128 * n, d, 0)

(* Every byte but the last one has its high bit set. *)
Varint(d) ==
  IF d = <<>> THEN <<0>>
  ELSE [k \in DOMAIN d |-> IF k = Len(d) THEN d[k] ELSE d[k] + 128]

(* The loop that reads an integer: it fails at the end of the input and    *)
(* after 64 bits, and drops what the last byte has above 64 bits.          *)
ReadVarint(b) ==
  LET Ends == {k \in 1..10 : k =< Len(b) /\ b[k] < 128}
      last == CHOOSE k \in Ends : \A j \in Ends : k =< j
  IN  IF Ends = {} THEN Fail
      ELSE Done(Stripped([k \in 1..last |-> b[k] % (IF k = 10 THEN 2 ELSE 128)]),
                SubSeq(b, last + 1, Len(b)))

(* The shift of a digit into a field of 32 bits loses its high bits; an    *)
(* int32 is sign-extended when it becomes an uint64 again.                 *)
Narrowed(kind, d) ==
  LET low == SubSeq(d, 1, 4) \o <<d[5] % 16>>
  IN  CASE kind \in {"uint64", "int64"} \/ Len(d) < 5 -> d
        [] kind = "uint32" \/ d[5] % 16 < 8 -> Stripped(low)
        [] OTHER -> SubSeq(d, 1, 4) \o <<112 + (d[5] % 16), 127, 127, 127, 127, 1>>

-----------------------------------------------------------------------------
(* Messages *)

(* The zero time.Time is 62135596800 seconds before 1970. *)
ZeroTime == [Seconds |-> <<0, 18, 56, 67, 24, 126, 127, 127, 127, 1>>, Nanos |-> <<>>]

RECURSIVE Empty(_)

Default(row) ==
  CASE row[3] = "bool" -> FALSE
    [] row[3] = "embedded" -> Empty(row[4])
    [] row[3] = "time" -> IF row[4] = "Timestamp" THEN ZeroTime
                          ELSE [Seconds |-> <<>>, Nanos |-> <<>>]
    [] OTHER -> <<>>

Row(name, field) == CHOOSE r \in Rows(name) : r[2] = field

Empty(name) ==
  [f \in {r[2] : r \in Rows(name)} |-> Default(Row(name, f))]

Tag(row, wireType) == Varint(Digits(row[1] * 8 + wireType))

Delimited(row, b) == Tag(row, 2) \o Varint(Digits(Len(b))) \o b

RECURSIVE MarshalTo(_, _)

(* A field equal to the zero value is left out, except the messages and    *)
(* times that are not pointers.                                            *)
MarshalField(row, v) ==
  CASE row[3] \in Integral -> IF v = <<>> THEN <<>> ELSE Tag(row, 0) \o Varint(v)
    [] row[3] = "bool" -> IF v THEN Tag(row, 0) \o <<1>> ELSE <<>>
    [] row[3] = "bytes" -> IF v = <<>> THEN <<>> ELSE Delimited(row, v)
    [] row[3] \in {"embedded", "time"} -> Delimited(row, MarshalTo(row[4], v))
    [] row[3] = "packed" -> IF v = <<>> THEN <<>>
                            ELSE Delimited(row, FlattenSeq([k \in DOMAIN v |-> Varint(v[k])]))
    [] row[3] \in {"byteslist", "oneofbytes"} ->
         FlattenSeq([k \in DOMAIN v |-> Delimited(row, v[k])])
    [] OTHER -> FlattenSeq([k \in DOMAIN v |-> Delimited(row, MarshalTo(row[4], v[k]))])

MarshalTo(name, m) ==
  FlattenSeq([k \in DOMAIN Schema[name] |->
                MarshalField(Schema[name][k], m[Schema[name][k][2]])])

(* The length of a varint: one for zero. *)
Sov(d) == IF d = <<>> THEN 1 ELSE Len(d)

SumOf(s) == FoldLeft(+, 0, s)

RECURSIVE Size(_, _)

(* Size repeats the conditions of MarshalTo; Marshal allocates that much.  *)
SizeField(row, v) ==
  LET tag == Sov(Digits(row[1] * 8))
      Block(n) == tag + Sov(Digits(n)) + n
  IN  CASE row[3] \in Integral -> IF v = <<>> THEN 0 ELSE tag + Sov(v)
        [] row[3] = "bool" -> IF v THEN tag + 1 ELSE 0
        [] row[3] = "bytes" -> IF v = <<>> THEN 0 ELSE Block(Len(v))
        [] row[3] \in {"embedded", "time"} -> Block(Size(row[4], v))
        [] row[3] = "packed" ->
             IF v = <<>> THEN 0 ELSE Block(SumOf([k \in DOMAIN v |-> Sov(v[k])]))
        [] row[3] \in {"byteslist", "oneofbytes"} ->
             SumOf([k \in DOMAIN v |-> Block(Len(v[k]))])
        [] OTHER -> SumOf([k \in DOMAIN v |-> Block(Size(row[4], v[k]))])

Size(name, m) ==
  SumOf([k \in DOMAIN Schema[name] |-> SizeField(Schema[name][k], m[Schema[name][k][2]])])

(* MarshalTo indexes a slice of Size bytes: a Size that is too small is a  *)
(* panic; one that is too large leaves bytes that dAtA[:n] cuts off.       *)
Marshal(name, m) ==
  LET b == MarshalTo(name, m)
  IN  IF Len(b) > Size(name, m) THEN Fail ELSE Done(b, <<>>)

-----------------------------------------------------------------------------
(* Reading *)

(* The bytes of a field with a length, when that many are left. *)
ReadDelimited(b) ==
  LET n == ReadVarint(b)
  IN  IF ~n.ok THEN Fail
      ELSE LET l == Number(n.v)
           IN  IF l > Len(n.rest) THEN Fail
               ELSE Done(SubSeq(n.rest, 1, l), SubSeq(n.rest, l + 1, Len(n.rest)))

RECURSIVE Skip(_), SkipGroup(_)

(* What is left after the field b starts with, whatever it holds. *)
Skip(b) ==
  LET tag == ReadVarint(b)
      wireType == IF tag.v = <<>> THEN 0 ELSE tag.v[1] % 8
      Drop(n) == IF Len(tag.rest) < n THEN Fail
                 ELSE Done(<<>>, SubSeq(tag.rest, n + 1, Len(tag.rest)))
  IN  IF ~tag.ok THEN Fail
      ELSE CASE wireType = 0 -> ReadVarint(tag.rest)
             [] wireType = 1 -> Drop(8)
             [] wireType = 2 -> ReadDelimited(tag.rest)
             [] wireType = 3 -> SkipGroup(tag.rest)
             [] wireType = 4 -> tag
             [] wireType = 5 -> Drop(4)
             [] OTHER -> Fail

SkipGroup(b) ==
  LET tag == ReadVarint(b)
      next == Skip(b)
  IN  IF ~tag.ok THEN Fail
      ELSE IF tag.v # <<>> /\ tag.v[1] % 8 = 4 THEN Done(<<>>, tag.rest)
      ELSE IF next.ok THEN SkipGroup(next.rest) ELSE Fail

RECURSIVE Unpack(_, _)
Unpack(v, b) ==
  LET n == ReadVarint(b)
  IN  IF b = <<>> THEN Done(v, <<>>)
      ELSE IF n.ok THEN Unpack(Append(v, n.v), n.rest) ELSE Fail

RECURSIVE UnmarshalInto(_, _, _)

(* The new value of a field that had the value old.  A pointer that is     *)
(* already there is merged into, a time is replaced.                       *)
UnmarshalDelimited(row, old, b) ==
  LET base == IF row[3] = "embedded" THEN old
              ELSE IF row[3] = "pointer" /\ old # <<>> THEN old[1]
              ELSE IF row[3] = "time" THEN [Seconds |-> <<>>, Nanos |-> <<>>]
              ELSE Empty(row[4])
      nested == UnmarshalInto(row[4], base, b)
  IN  CASE row[3] = "bytes" -> Done(b, <<>>)
        [] row[3] = "byteslist" -> Done(Append(old, b), <<>>)
        [] row[3] = "oneofbytes" -> Done(<<b>>, <<>>)
        [] row[3] = "packed" -> Unpack(old, b)
        [] row[3] \in {"embedded", "time"} -> nested
        [] row[3] \in {"pointer", "oneof"} ->
             IF nested.ok THEN Done(<<nested.v>>, <<>>) ELSE Fail
        [] row[3] = "repeated" ->
             IF nested.ok THEN Done(Append(old, nested.v), <<>>) ELSE Fail

UnmarshalVarint(row, old, d) ==
  CASE row[3] = "bool" -> d # <<>>
    [] row[3] = "packed" -> Append(old, d)
    [] OTHER -> Narrowed(row[3], d)

(* Setting one alternative of a oneof drops the one that was there. *)
SetField(name, m, row, v) ==
  LET Oneof(r) == r[3] \in {"oneof", "oneofbytes"}
  IN  [f \in DOMAIN m |->
         IF f = row[2] THEN v
         ELSE IF Oneof(row) /\ Oneof(Row(name, f)) THEN <<>>
         ELSE m[f]]

(* The loop over the fields.  A field the message does not have is         *)
(* skipped; one with the wrong wire type is an error.                      *)
UnmarshalInto(name, m, b) ==
  LET tag == ReadVarint(b)
      wireType == IF tag.v = <<>> THEN 0 ELSE tag.v[1] % 8
      Found == {r \in Rows(name) : r[1] = Number(tag.v) \div 8}
      row == CHOOSE r \in Found : TRUE
      number == ReadVarint(tag.rest)
      block == ReadDelimited(tag.rest)
      inner == UnmarshalDelimited(row, m[row[2]], block.v)
      skipped == Skip(b)
      With(v, rest) == UnmarshalInto(name, SetField(name, m, row, v), rest)
  IN  IF b = <<>> THEN Done(m, <<>>)
      ELSE IF ~tag.ok THEN Fail
      ELSE IF wireType = 4 \/ Number(tag.v) < 8 THEN Fail
      ELSE IF Found = {}
           THEN IF skipped.ok THEN UnmarshalInto(name, m, skipped.rest) ELSE Fail
      ELSE IF wireType = 0 /\ row[3] \in Integral \cup {"bool", "packed"}
           THEN IF number.ok
                THEN With(UnmarshalVarint(row, m[row[2]], number.v), number.rest)
                ELSE Fail
      ELSE IF wireType = 2 /\ row[3] \notin Integral \cup {"bool"}
           THEN IF block.ok THEN IF inner.ok THEN With(inner.v, block.rest) ELSE Fail
                ELSE Fail
      ELSE Fail

Unmarshal(name, b) == UnmarshalInto(name, Empty(name), b)
=============================================================================
