------------------------------ MODULE MCGateway ------------------------------
EXTENDS Gateway

Bytes(n, byte) == [k \in 1..n |-> byte]

(* Every zero value, every field in turn with each of its samples, and all *)
(* fields at once.                                                         *)
Variants(zero, Sample(_)) ==
  {zero}
  \cup {[zero EXCEPT ![f] = v] : <<f, v>> \in UNION {{f} \X Sample(f) : f \in DOMAIN zero}}
  \cup {[f \in DOMAIN zero |-> CHOOSE v \in Sample(f) : v # zero[f]]}

KindOf(fields, f) == fields[CHOOSE k \in DOMAIN fields : fields[k][1] = f][2]

Table == << <<<<107>>, <<"string", <<118>> >> >>, << <<>>, <<"list", <<<<"bool", TRUE>>, <<"null", <<>> >> >> >> >>,
            <<<<105>>, <<"table", <<<<<<110>>, <<"int", <<255>> >> >> >> >> >> >>

Tables == {Table, Reverse(Table)} \cup
  {<< <<<<110>>, v>> >> : v \in {<<"int", <<127>> >>, <<"int", <<0, 128>> >>, <<"int", <<255, 0>> >>,
      <<"int", <<0, 0, 128, 0>> >>, <<"int", <<128, 0, 0, 0>> >>, <<"int", <<0, 0, 0, 0, 128, 0, 0, 0>> >>,
      <<"int", <<255, 255, 255, 255, 0, 0, 0, 0>> >>, <<"int", <<0, 128, 0, 0, 0, 0, 0, 0, 0>> >>,
      <<"float", <<63, 224, 0, 0, 0, 0, 0, 0>> >>,
      <<"bool", FALSE>>, <<"list", <<>> >>, <<"table", <<>> >>, <<"string", Bytes(256, 98)>>}}

LongName == << <<Bytes(256, 110), <<"null", <<>> >> >> >>

-----------------------------------------------------------------------------
Samples0(kind) ==
  CASE kind = "octet" -> {<<1>>, <<255>>}
    [] kind = "short" -> {<<1>>, <<1, 0>>}
    [] kind = "long" -> {<<1>>, <<255, 0, 0, 0>>}
    [] kind = "longlong" -> {<<1>>, <<128, 0, 0, 0, 0, 0, 0, 0>>}
    [] kind = "shortstr" -> {<<97>>, Bytes(255, 97), Bytes(256, 97)}
    [] kind = "longstr" -> {<<97>>, Bytes(256, 97)}
    [] kind = "timestamp" -> {<< <<>> >>, <<<<1, 0>>>>}
    [] kind = "table" -> Tables \cup {LongName}
    [] kind = "bit" -> {TRUE}

MCMessages0 ==
  LET MethodsOf(name) ==
        LET fields == V0!Methods[name].fields
            S(f) == Samples0(KindOf(fields, f))
        IN  {<<"method", <<1>>, name, m>> : m \in Variants(V0!ZeroFields(fields), S)}
      fields == V0!ContentHeader.fields \o << <<"Weight", "short">>, <<"BodySize", "longlong">> >>
      S(f) == Samples0(KindOf(fields, f))
  IN  UNION {MethodsOf(name) : name \in DOMAIN V0!Methods}
      \cup {<<"header", <<1>>, "", h>> : h \in Variants(V0!ZeroFields(fields), S)}
      \cup {<<"body", <<1, 0>>, "", Bytes(n, 206)>> : n \in {1, 24, 25, 32, 33}}

-----------------------------------------------------------------------------
RECURSIVE Samples1(_), Composite1(_)

Composite1(name) ==
  LET fields == V1!Composites[name].fields
      S(f) == Samples1(KindOf(fields, f))
      zero == [f \in DOMAIN V1!ZeroFields(name) |->
                 IF \E k \in DOMAIN fields : fields[k] = <<f, KindOf(fields, f), "mandatory">>
                    /\ KindOf(fields, f) \in {"condition", "binary"}
                 THEN << <<>> >> ELSE V1!ZeroFields(name)[f]]
  IN  Variants(zero, S)

Samples1(kind) ==
  LET p == V1!Primitive(kind)
      Full(name) == [f \in DOMAIN V1!ZeroFields(name) |->
                       LET k == KindOf(V1!Composites[name].fields, f)
                       IN  CHOOSE v \in Samples1(k) : v # V1!Zero(k)]
  IN  CASE p = "boolean" -> {TRUE}
        [] p = "ubyte" -> {<<>>, <<255>>}
        [] p = "ushort" -> {<<>>, <<1>>, <<1, 0>>}
        [] p = "uint" -> {<<>>, <<255>>, <<1, 0>>}
        [] p = "ulong" -> {<<>>, <<255>>, <<128, 0, 0, 0, 0, 0, 0, 0>>}
        [] p = "timestamp" -> {<< <<>> >>, << <<1, 0>> >>}
        [] p = "binary" -> {<< <<>> >>, << <<0>> >>, <<Bytes(256, 64)>>}
        [] p = "string" -> {<<97>>, Bytes(256, 97)}
        [] p = "symbol" -> {<<97>>, Bytes(255, 97), Bytes(256, 97)}
        [] p = "symbols" -> {<< <<97>>, <<>> >>, << Bytes(256, 97) >>, <<Bytes(130, 97), Bytes(130, 98)>>}
        [] p = "map" -> {<< <<>> >>, <<Table>>, <<Tail(Table)>>} \cup
             {<< << <<<<110>>, <<"string", Bytes(n, 98)>> >> >> >> : n \in {249, 250, 256}}
        [] p = "condition" -> {<< <<97>> >>}
        [] p = "address" -> {<< <<>> >>, << <<97>> >>}
        [] p = "messageid" -> {<<"ulong", <<>> >>, <<"ulong", <<1, 0>> >>, <<"uuid", Bytes(16, 9)>>,
                               <<"binary", << <<1>> >> >>, <<"string", <<97>> >>}
        [] p = "state" -> {<<n, m>> : <<n, m>> \in UNION {{n} \X Composite1(n) :
                             n \in {"Received", "Accepted", "Rejected", "Released", "Modified"}}}
        [] p = "outcome" -> {<<"Accepted", V1!ZeroFields("Accepted")>>, <<"Modified", Full("Modified")>>}
        [] p \in DOMAIN V1!Composites -> {<<m>> : m \in Composite1(p)}

MCMessages1 ==
  LET Sections == {<< <<"Header", m>> >> : m \in Composite1("Header")}
        \cup {<< <<"Properties", m>>, <<"Data", << <<1>> >> >> >> : m \in Composite1("Properties")}
        \cup {<< <<n, <<t>> >>, <<"Data", << <<>> >> >> >> : t \in Tables,
                n \in {"DeliveryAnnotations", "MessageAnnotations", "ApplicationProperties", "Footer"}}
  IN  {<< <<1>>, n, m, <<>> >> : <<n, m>> \in UNION {{n} \X Composite1(n) : n \in V1!AMQPFrames}}
      \cup {<< <<>>, n, m, <<>> >> : <<n, m>> \in UNION {{n} \X Composite1(n) : n \in V1!SASLFrames}}
      \cup {<< <<1>>, "Transfer", V1!ZeroFields("Transfer"), s>> : s \in Sections}

-----------------------------------------------------------------------------
RECURSIVE SamplesP(_), FullP(_)

Oneof(row) == row[3] \in {"oneof", "oneofbytes"}

(* All fields, and one alternative of a oneof. *)
FullP(name) ==
  LET chosen == CHOOSE r \in P!Rows(name) : Oneof(r)
      Sample(row) == CHOOSE v \in SamplesP(row) : v # P!Default(row)
  IN  [f \in DOMAIN P!Empty(name) |->
         IF Oneof(P!Row(name, f)) /\ P!Row(name, f) # chosen THEN <<>>
         ELSE Sample(P!Row(name, f))]

MaxUint64 == Bytes(9, 127) \o <<1>>

SamplesP(row) ==
  CASE row[3] \in {"uint64", "int64"} -> {<<1>>, <<0, 1>>, MaxUint64}
    [] row[3] = "uint32" -> {<<127>>, <<127, 127, 127, 127, 15>>}
    [] row[3] = "int32" -> {<<127>>, <<127, 127, 127, 127, 7>>, MaxUint64}
    [] row[3] = "bool" -> {TRUE}
    [] row[3] = "bytes" -> {<<0>>, Bytes(128, 255)}
    [] row[3] = "byteslist" -> {<< <<>> >>, << <<1>>, <<2>> >>}
    [] row[3] = "oneofbytes" -> {<< <<>> >>, << <<1>> >>}
    [] row[3] = "packed" -> {<< <<>> >>, <<MaxUint64, <<1>> >>}
    [] row[3] \in {"embedded", "time"} -> {FullP(row[4])}
    [] row[3] \in {"pointer", "oneof"} -> {<<P!Empty(row[4])>>, <<FullP(row[4])>>}
    [] row[3] = "repeated" -> {<<P!Empty(row[4])>>, <<FullP(row[4]), P!Empty(row[4])>>}

MCMessagesP ==
  LET S(name, f) == SamplesP(P!Row(name, f))
      MessagesOf(name) ==
        {P!Empty(name), FullP(name)}
        \cup {[P!Empty(name) EXCEPT ![f] = v] :
                <<f, v>> \in UNION {{f} \X S(name, f) : f \in DOMAIN P!Empty(name)}}
  IN  UNION {{name} \X MessagesOf(name) : name \in DOMAIN Schemas \ DOMAIN WellKnown}

-----------------------------------------------------------------------------
(* All ways to join up to n of the words with dots. *)
Joined(words, n) ==
  LET Join(ws) == Tail(FlattenSeq([k \in DOMAIN ws |-> <<".">> \o ws[k]]))
  IN  {<<>>} \cup {Join(ws) : ws \in SeqOf(words, n) \ {<<>>}}

MCTopicMessages ==
  {[time |-> 0, key |-> key, headers |-> <<>>] : key \in Joined({<<"a">>, <<"b">>, <<>>}, 4)}
  \cup {[time |-> time, key |-> <<"a">>, headers |-> headers] : time \in {0, 1},
          headers \in {<<>>} \cup {<<h>> : h \in UNION {[D -> {1, 2}] : D \in SUBSET {"x", "y"}}}}

Binding(topic, type, by) == [topic |-> topic, type |-> type, by |-> by]

MCTopicBindings ==
  LET By(type) ==
        CASE type = "topic" -> Joined({<<"a">>, <<"*">>, <<"#">>}, 3)
          [] type = "direct" -> {<<"a">>, <<"a", ".">>}
          [] type = "fanout" -> {<<>>}
          [] type \in {"all", "any"} -> UNION {[D -> {1}] : D \in SUBSET {"x", "y"}}
  IN  {<<>>} \cup
      {<<Binding("u", "fanout", <<>>), Binding("t", type, by)>> :
         <<type, by>> \in UNION {{type} \X By(type) : type \in {"direct", "fanout", "topic", "all", "any"}}}

-----------------------------------------------------------------------------
Load(some, methods, messages, faults) ==
  [peers |-> some, budget |-> [methods |-> methods, messages |-> messages, faults |-> faults]]

(* Each protocol with and without faults, publishing, and both at once. *)
MCLoads ==
  {Load({}, 0, 0, 0),
   Load({"0-9-1"}, 5, 0, 0), Load({"0-9-1"}, 4, 0, 1), Load({"0-9-1"}, 2, 2, 0),
   Load({"1.0"}, 5, 0, 0), Load({"1.0"}, 4, 0, 1), Load({"1.0"}, 2, 3, 0),
   Load({"0-9-1", "1.0"}, 4, 0, 0)}

LeakLoads == {Load({"0-9-1"}, 2, 0, 1)}

(* The second message does not fit one transfer. *)
MCParts == <<1, 2>>

HandlesAlike == Permutations(Handles)
=============================================================================
