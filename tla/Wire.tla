-------------------------------- MODULE Wire --------------------------------
(***************************************************************************)
(* Two ends of a connection and the bytes between them, for each of the    *)
(* three encodings the program speaks:                                     *)
(*                                                                         *)
(*   "protobuf"  one message, as gRPC, a segment file or a log entry holds *)
(*               it, from a writer that may know more fields               *)
(*   "amqp 0"    a stream of AMQP 0-9-1 frames                             *)
(*   "amqp 1"    a stream of AMQP 1.0 frames                               *)
(*                                                                         *)
(* A stream may break after any of its bytes.                              *)
(***************************************************************************)
EXTENDS Octets, TLC

CONSTANTS Messages0, Messages1, MessagesP,  \* what may be sent in each encoding
          FrameMax0, FrameMax1,             \* the limits on frames
          FarCuts                           \* a stream breaks this near its ends

Emq == INSTANCE EmqMessages

ClusterLog == INSTANCE ClusterMessages

Node == INSTANCE NodeMessages

Raft == INSTANCE RaftMessages

(* github.com/gogo/protobuf/types, as far as the messages use it: a value  *)
(* of a Struct is a string.                                                *)
WellKnown ==
  LET time == <<<<1, "Seconds", "int64">>, <<2, "Nanos", "int32">>>>
  IN  [Timestamp |-> time, Duration |-> time,
       Struct |-> <<<<1, "Fields", "repeated", "Struct_Field">>>>,
       Struct_Field |-> <<<<1, "Key", "bytes">>, <<2, "Value", "pointer", "Value">>>>,
       Value |-> <<<<3, "StringValue", "oneofbytes">>>>]

Schemas ==
  Emq!EmqSchema @@ ClusterLog!ClusterSchema @@ Node!NodeSchema @@ Raft!RaftSchema @@ WellKnown

P == INSTANCE Protobuf WITH Schema <- Schemas

V0 == INSTANCE AmqpV0Wire WITH FrameMax <- FrameMax0

V1 == INSTANCE AmqpV1Wire WITH FrameMax <- FrameMax1

-----------------------------------------------------------------------------
(* What a message is on the wire, and the message the wire starts with.    *)

(* The payload of a transfer is its message, section by section. *)
Encode1(frame) ==
  V1!Send(IF frame = <<>> THEN frame
          ELSE [frame EXCEPT ![4] = FlattenSeq([k \in DOMAIN @ |-> V1!MarshalSection(@[k])])])

Encode(medium, m) ==
  CASE medium = "protobuf" -> P!Marshal(m[1], m[2])
    [] medium = "amqp 0" -> IF m[1] = "body" THEN V0!SendBody(m) ELSE V0!Send(m)
    [] medium = "amqp 1" -> Encode1(m)

Decode1(b) ==
  Then(V1!Receive(b), LAMBDA frame :
    IF frame.v = <<>> THEN frame
    ELSE Then(V1!UnmarshalSections(frame.v[4]), LAMBDA sections :
           Done([frame.v EXCEPT ![4] = sections.v], frame.rest)))

(* The reader of a protobuf message knows which one it expects. *)
DecodeP(name, b) ==
  LET m == P!Unmarshal(name, b) IN IF m.ok THEN Done(<<name, m.v>>, <<>>) ELSE Fail

Arrived(medium, b) ==
  CASE medium = "protobuf" -> TRUE
    [] medium = "amqp 0" -> V0!Arrived(b)
    [] medium = "amqp 1" -> V1!Arrived(b)

Heartbeat == [m \in {"amqp 0", "amqp 1"} |->
                IF m = "amqp 0" THEN <<"heartbeat", <<>>, "", <<>> >> ELSE <<>>]

(* Fields of number 1000 in all the wire types there are, one in a group.  *)
UnknownFields ==
  {P!Tag(<<1000>>, 0) \o <<129, 1>>,
   P!Tag(<<1000>>, 1) \o <<1, 2, 3, 4, 5, 6, 7, 8>>,
   P!Delimited(<<1000>>, <<8, 1, 12>>),
   P!Tag(<<1000>>, 3) \o <<8, 1, 11, 12>> \o P!Tag(<<1000>>, 4),
   P!Tag(<<1000>>, 5) \o <<1, 2, 3, 4>>}

-----------------------------------------------------------------------------
VARIABLES medium,   \* the encoding of this connection
          sent,     \* what one end gave to its transport
          received, \* what the transport of the other end returned
          wire,     \* the bytes on their way
          status    \* "up"; "cut", no more bytes will come; "closed", the
                    \* reader has seen that; "error", one end has given up

wireVars == <<medium, sent, received, wire, status>>

Sendable(m) ==
  CASE m = "protobuf" -> MessagesP [] m = "amqp 0" -> Messages0 [] m = "amqp 1" -> Messages1

Media == {"protobuf", "amqp 0", "amqp 1"}

WireInit(some) ==
  /\ medium \in some
  /\ sent = <<>>
  /\ received = <<>>
  /\ wire = <<>>
  /\ status = "up"

(* A message that cannot be encoded stays where it is: its sender gives up. *)
Written(m, b) ==
  /\ sent' = Append(sent, m)
  /\ wire' = IF b.ok THEN wire \o b.v ELSE wire
  /\ status' = IF b.ok THEN "up" ELSE "error"
  /\ UNCHANGED <<medium, received>>

Write(m) == status = "up" /\ Written(m, Encode(medium, m))

WriteFirst == sent = <<>> /\ \E m \in Sendable(medium) : Write(m)

(* A stream goes on after a frame; one more frame tells whether its end    *)
(* was found.                                                              *)
WriteHeartbeat ==
  /\ Len(sent) = 1
  /\ received = <<>>
  /\ medium # "protobuf"
  /\ Write(Heartbeat[medium])

(* A newer writer adds a field the reader does not know. *)
WriteUnknownField ==
  /\ medium = "protobuf"
  /\ Len(sent) = 1
  /\ received = <<>>
  /\ status = "up"
  /\ wire = P!Marshal(sent[1][1], sent[1][2]).v
  /\ \E field \in UnknownFields : wire' = wire \o field
  /\ UNCHANGED <<medium, sent, received, status>>

Break ==
  /\ medium # "protobuf"
  /\ status = "up"
  /\ \E k \in 0..(Len(wire) - 1) :
       /\ k =< FarCuts \/ k >= Len(wire) - FarCuts
       /\ wire' = SubSeq(wire, 1, k)
  /\ status' = "cut"
  /\ UNCHANGED <<medium, sent, received>>

Decoded ==
  CASE medium = "protobuf" -> DecodeP(sent[1][1], wire)
    [] medium = "amqp 0" -> V0!Receive(wire)
    [] medium = "amqp 1" -> Decode1(wire)

Taken(m) ==
  IF m.ok
  THEN received' = Append(received, m.v) /\ wire' = m.rest /\ UNCHANGED status
  ELSE status' = "error" /\ UNCHANGED <<received, wire>>

(* Receive, once everything it waits for is there. *)
Read ==
  /\ status \in {"up", "cut"}
  /\ Len(received) < Len(sent)
  /\ Arrived(medium, wire)
  /\ Taken(Decoded)
  /\ UNCHANGED <<medium, sent>>

(* io.ReadFull sees the end of the stream. *)
ReadEnd ==
  /\ status = "cut"
  /\ ~Arrived(medium, wire)
  /\ status' = "closed"
  /\ UNCHANGED <<medium, sent, received, wire>>

WireNext == WriteFirst \/ WriteHeartbeat \/ WriteUnknownField \/ Break \/ Read \/ ReadEnd
-----------------------------------------------------------------------------
(* Messages that the code is known not to read as it was given them.       *)

(* A whole number that no int64 holds, anywhere in a table. *)
RECURSIVE Outsized(_)
Outsized(table) ==
  LET Within(v) == CASE v[1] = "int" -> Len(v[2]) > 8
                     [] v[1] = "table" -> Outsized(v[2])
                     [] v[1] = "list" -> Outsized([k \in DOMAIN v[2] |-> <<k, v[2][k]>>])
                     [] OTHER -> FALSE
  IN  \E k \in DOMAIN table : Within(table[k][2])

(* A symbol of more than 255 bytes, and a delivery state or an outcome     *)
(* that is nil with a field after it that is not: marshalSymbol and        *)
(* unmarshalDeliveryStateUnion do not do what their counterparts expect.   *)
(* And a table with such a number, here and in a section.                  *)
RECURSIVE Unreadable(_, _)
Unreadable(name, m) ==
  LET F == V1!Composites[name].fields
      At(k) == m[F[k][1]]
      Kind(k) == V1!Primitive(F[k][2])
  IN  \E k \in DOMAIN F :
        \/ Kind(k) = "symbol" /\ Len(At(k)) > 255
        \/ Kind(k) = "map" /\ At(k) # <<>> /\ Outsized(At(k)[1])
        \/ Kind(k) = "condition" /\ At(k) # <<>> /\ Len(At(k)[1]) > 255
        \/ /\ Kind(k) \in {"state", "outcome"}
           /\ IF At(k) # <<>> THEN Unreadable(At(k)[1], At(k)[2])
              ELSE \E j \in DOMAIN F : j > k /\ At(j) # V1!Zero(F[j][2])
        \/ Kind(k) \in DOMAIN V1!Composites /\ At(k) # <<>> /\ Unreadable(Kind(k), At(k)[1])

UnreadableFrame(frame) ==
  /\ frame # <<>>
  /\ \/ Unreadable(frame[2], frame[3])
     \/ \E <<name, content>> \in ToSet(frame[4]) :
          \/ name \in DOMAIN V1!Composites /\ Unreadable(name, content)
          \/ /\ name \in DOMAIN V1!PlainSections /\ V1!PlainSections[name].content = "map"
             /\ content # <<>> /\ Outsized(content[1])

(* A body that does not leave room for the eight bytes around it, and a    *)
(* name longer than 0-9-1 has room for.                                    *)
TooLong(m) ==
  \/ m[1] = "body" /\ Len(m[4]) + 8 > FrameMax0
  \/ V0!Refused(V0!FieldsOf(m), m[4])

(* A method or a header with a table that has an outsized number. *)
OutsizedFrame(m) ==
  \E k \in DOMAIN V0!FieldsOf(m) :
    V0!FieldsOf(m)[k][2] = "table" /\ Outsized(m[4][V0!FieldsOf(m)[k][1]])

(* What was read is what was written, in its order: all of it when the     *)
(* wire is empty and whole, a prefix of it when the connection broke.      *)
(* Neither end gives up, however little of a frame arrives and whatever    *)
(* unknown fields a message has; the exceptions are the 0-9-1 frames and   *)
(* the AMQP 1.0 frames above (MarshalTo, Unmarshal and Size of the         *)
(* generated messages; Send and Receive of both transports).               *)
Faithful ==
  \/ medium = "amqp 0" /\ \E k \in DOMAIN sent : OutsizedFrame(sent[k])
  \/ medium = "amqp 1" /\ \E k \in DOMAIN sent : UnreadableFrame(sent[k])
  \/ /\ IsPrefix(received, sent)
     /\ medium # "protobuf" /\ wire = <<>> /\ status = "up" => received = sent
     /\ status = "error" => medium = "amqp 0" /\ TooLong(sent[Len(received) + 1])
=============================================================================
