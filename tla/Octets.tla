------------------------------- MODULE Octets -------------------------------
(***************************************************************************)
(* Bytes, as encoding/binary and bytes.Buffer treat them.  An unsigned     *)
(* integer of any width is the sequence of its big-endian bytes without    *)
(* the zeros in front, so that 64 bits need no integer TLC does not have:  *)
(* zero is <<>>.  A signed one is its two's complement in 1, 2, 4, 8 or 9  *)
(* bytes, whichever is the shortest.                                       *)
(***************************************************************************)
EXTENDS Integers, Sequences, SequencesExt

Fail == [ok |-> FALSE]

Done(v, rest) == [ok |-> TRUE, v |-> v, rest |-> rest]

(* Go on with what was read, if it was; and the same for its value only. *)
Then(g, Step(_)) == IF g.ok THEN Step(g) ELSE Fail

Map(g, Convert(_)) == Then(g, LAMBDA r : Done(Convert(r.v), r.rest))

From(b, k) == SubSeq(b, k, Len(b))

(* Lengths, all of them below 2^24 here. *)
Length(n) == <<0, n \div 65536, (n \div 256) % 256, n % 256>>

WithLength(b) == Length(Len(b)) \o b

Value(b) == FoldLeft(LAMBDA n, byte : 256 * n + byte, 0, b)

(* endian.PutUint16, PutUint32, PutUint64 *)
Put(v, width) == [k \in 1..width |->
                    IF k > width - Len(v) THEN v[k - (width - Len(v))] ELSE 0]

Unpadded(b) ==
  LET Used == {k \in DOMAIN b : b[k] # 0}
  IN  IF Used = {} THEN <<>> ELSE From(b, CHOOSE k \in Used : \A j \in Used : k =< j)

(* buf.Read(x[:n]) with its checks, ReadByte for n = 1. *)
Get(b, n) == IF Len(b) < n THEN Fail ELSE Done(SubSeq(b, 1, n), From(b, n + 1))

GetUint(b, width) == Map(Get(b, width), Unpadded)

(* The bytes after a length of the given width. *)
GetBlock(b, width) == Then(Get(b, width), LAMBDA l : Get(l.rest, Value(l.v)))

(* The same number in as few bytes as it needs. *)
Narrow(b) ==
  LET Fits(w) ==
        /\ w =< Len(b)
        /\ LET sign == IF b[Len(b) - w + 1] >= 128 THEN 255 ELSE 0
           IN  \A k \in 1..(Len(b) - w) : b[k] = sign
      Widths == {w \in {1, 2, 4, 8, 9} : Fits(w)}
  IN  From(b, Len(b) + 1 - (CHOOSE w \in Widths : \A x \in Widths : w =< x))

(* int64(f) of a whole number f, on amd64: the lowest there is if f is not  *)
(* in its range, and so takes 9 bytes.                                     *)
ToInt64(v) == IF Len(v) > 8 THEN <<128, 0, 0, 0, 0, 0, 0, 0>> ELSE v

(* An unsigned number as a signed one. *)
Positive(b) == Narrow(<<0>> \o b)
=============================================================================
