------------------------- MODULE ReplicationProofs -------------------------
(***************************************************************************)
(* What the replication of a segment promises, for every number of nodes,  *)
(* messages and failures and every replication factor: a node that is done *)
(* has the content that was closed, and an acked message stays in the      *)
(* segment.                                                                *)
(***************************************************************************)
EXTENDS ReplicationTasks, FiniteSetTheorems
-----------------------------------------------------------------------------
(* Lists. *)

Rank(R, C, n) == Cardinality({m \in C : <<m, n>> \in R})

\* R orders C.
Ordered(R, C) ==
    /\ \A m, n, o \in C : <<m, n>> \in R /\ <<n, o>> \in R => <<m, o>> \in R
    /\ \A m \in C : <<m, m>> \notin R
    /\ \A m, n \in C : m # n => <<m, n>> \in R \/ <<n, m>> \in R

\* Every place in C is that of one element.
Placed(R, C) ==
    /\ Cardinality(C) \in Nat
    /\ \A n \in C : Rank(R, C, n) \in 0..(Cardinality(C) - 1)
    /\ \A m, n \in C : Rank(R, C, m) = Rank(R, C, n) => m = n
    /\ \A i \in 1..Cardinality(C) : \E n \in C : Rank(R, C, n) = i - 1

\* In a finite set that is ordered, every place is taken by one element.
LEMMA Ranks ==
  ASSUME NEW C, IsFiniteSet(C), NEW R, Ordered(R, C)
  PROVE  Placed(R, C)
<1> USE DEF Ordered
<1> DEFINE D(n) == {m \in C : <<m, n>> \in R}
           size == Cardinality(C)
           f == [n \in C |-> Rank(R, C, n)]
<1>1. size \in Nat
  BY Zenon, FS_CardinalityType
<1>2. ASSUME NEW n \in C
      PROVE  /\ IsFiniteSet(D(n))
             /\ Rank(R, C, n) \in 0..(size - 1) /\ Rank(R, C, n) \in Int
  <2>1. D(n) \in SUBSET C /\ D(n) # C
    BY Zenon
  <2> HIDE DEF D
  <2>2. IsFiniteSet(D(n)) /\ Cardinality(D(n)) <= size /\ Cardinality(D(n)) # size
    BY Zenon, <2>1, FS_Subset
  <2>3. Cardinality(D(n)) \in Nat
    BY Zenon, <2>2, FS_CardinalityType
  <2> USE DEF D
  <2> QED
    BY <1>1, <2>2, <2>3 DEF Rank
<1>3. \A n \in C : Rank(R, C, n) \in Int
  BY Zenon, <1>2
<1>4. ASSUME NEW m \in C, NEW n \in C, <<m, n>> \in R
      PROVE  Rank(R, C, m) < Rank(R, C, n)
  <2>1. D(m) \in SUBSET D(n) /\ m \in D(n) /\ m \notin D(m)
    BY Zenon, <1>4
  <2>2. IsFiniteSet(D(n))
    BY Zenon, <1>2
  <2> HIDE DEF D
  <2>3. Cardinality(D(m)) <= Cardinality(D(n)) /\ Cardinality(D(m)) # Cardinality(D(n))
    BY Zenon, <2>1, <2>2, FS_Subset
  <2>4. Rank(R, C, m) = Cardinality(D(m)) /\ Rank(R, C, n) = Cardinality(D(n))
    BY Zenon DEF Rank, D
  <2> QED
    BY <1>3, <2>3, <2>4
<1>5. \A m, n \in C : Rank(R, C, m) = Rank(R, C, n) => m = n
  <2> SUFFICES ASSUME NEW m \in C, NEW n \in C, m # n, Rank(R, C, m) = Rank(R, C, n)
               PROVE  FALSE
    OBVIOUS
  <2>1. Rank(R, C, m) < Rank(R, C, n) \/ Rank(R, C, n) < Rank(R, C, m)
    BY Zenon, <1>4
  <2> HIDE DEF D
  <2> QED
    BY <1>3, <2>1
<1>6. f \in Injection(C, 0..(size - 1))
  <2>1. f \in [C -> 0..(size - 1)]
    BY Zenon, <1>2
  <2> QED
    BY Zenon, <1>5, <2>1 DEF Injection, IsInjective
<1>7. IsFiniteSet(0..(size - 1)) /\ Cardinality(0..(size - 1)) = size
  <2>1. size - 1 \in Int /\ 0 \in Int
    BY <1>1
  <2>2. /\ IsFiniteSet(0..(size - 1))
        /\ Cardinality(0..(size - 1)) =
               IF 0 > size - 1 THEN 0 ELSE (size - 1) - 0 + 1
    BY Zenon, <2>1, FS_Interval
  <2> QED
    BY <1>1, <2>2
<1>8. f \in Surjection(C, 0..(size - 1))
  <2> HIDE DEF f, size
  <2>1. size = Cardinality(C)
    BY Zenon DEF size
  <2> QED
    BY Zenon, <1>6, <1>7, <2>1, FS_Injection
<1>9. \A i \in 1..size : \E n \in C : Rank(R, C, n) = i - 1
  <2> SUFFICES ASSUME NEW i \in 1..size PROVE \E n \in C : f[n] = i - 1
    OBVIOUS
  <2>1. i - 1 \in 0..(size - 1)
    BY <1>1
  <2> QED
    BY Zenon, <1>8, <2>1 DEF Surjection
<1> QED
  BY Zenon, <1>1, <1>2, <1>5, <1>9 DEF Placed

\* The sorted list of a set of IDs has its elements, the smallest first.
LEMMA InOrderFacts ==
  ASSUME NEW ids \in SUBSET Nat, IsFiniteSet(ids)
  PROVE  /\ Cardinality(ids) \in Nat /\ DOMAIN InOrder(ids) = 1..Cardinality(ids)
         /\ \A i \in 1..Cardinality(ids) : InOrder(ids)[i] \in ids
         /\ \A id \in ids : \E i \in 1..Cardinality(ids) : InOrder(ids)[i] = id
         /\ \A id \in ids : (\A x \in ids : id <= x) =>
                Cardinality(ids) >= 1 /\ InOrder(ids)[1] = id
<1> DEFINE R == {p \in ids \X ids : p[1] < p[2]}
           size == Cardinality(ids)
           Below(id) == Cardinality({other \in ids : other < id})
<1>1. \A m, n \in ids : m \in Nat /\ n \in Nat /\ (<<m, n>> \in R <=> m < n)
  OBVIOUS
<1>2. \A n \in ids : Rank(R, ids, n) = Below(n)
  <2> SUFFICES ASSUME NEW n \in ids
               PROVE  {m \in ids : <<m, n>> \in R} = {other \in ids : other < n}
    BY Zenon DEF Rank
  <2> QED
    BY Zenon, <1>1
<1>3. Placed(R, ids)
  <2> HIDE DEF R
  <2>1. Ordered(R, ids)
    BY <1>1 DEF Ordered
  <2> QED
    BY Zenon, <2>1, Ranks
<1>4. /\ \A n \in ids : Below(n) \in 0..(size - 1)
      /\ \A m, n \in ids : Below(m) = Below(n) => m = n
      /\ \A i \in 1..size : \E n \in ids : Below(n) = i - 1
  <2> HIDE DEF Below, R
  <2> QED
    BY Zenon, <1>2, <1>3 DEF Placed
<1>5. DOMAIN InOrder(ids) = 1..size
  BY Zenon DEF InOrder
<1>6. \A i \in 1..size : InOrder(ids)[i] \in ids /\ Below(InOrder(ids)[i]) = i - 1
  <2> SUFFICES ASSUME NEW i \in 1..size
               PROVE  InOrder(ids)[i] \in ids /\ Below(InOrder(ids)[i]) = i - 1
    OBVIOUS
  <2>1. InOrder(ids)[i] = CHOOSE id \in ids : Below(id) = i - 1
    BY Zenon DEF InOrder
  <2> HIDE DEF Below, size
  <2>2. \E n \in ids : Below(n) = i - 1
    BY Zenon, <1>4
  <2> QED
    BY Zenon, <2>1, <2>2
<1>7. ASSUME NEW id \in ids PROVE InOrder(ids)[Below(id) + 1] = id /\ Below(id) + 1 \in 1..size
  <2> HIDE DEF Below, size
  <2>1. Below(id) + 1 \in 1..size /\ (Below(id) + 1) - 1 = Below(id)
    BY <1>3, <1>4 DEF Placed, size
  <2> QED
    BY Zenon, <1>4, <1>6, <2>1
<1>8. ASSUME NEW id \in ids, \A x \in ids : id <= x PROVE Below(id) = 0
  <2>1. {other \in ids : other < id} = {}
    <3> SUFFICES ASSUME NEW other \in ids, other < id PROVE FALSE
      BY Zenon
    <3>1. id <= other /\ id \in Int /\ other \in Int
      BY <1>8
    <3> QED
      BY <3>1
  <2> QED
    BY Zenon, <2>1, FS_EmptySet
<1> QED
  <2> HIDE DEF Below
  <2> QED
    BY <1>3, <1>5, <1>6, <1>7, <1>8 DEF Placed

\* The elements of S stay in a list, and so does its head.
LEMMA OnlyFacts ==
  ASSUME NEW T, NEW list \in Seq(T), NEW S
  PROVE  /\ Only(list, S) \in Seq(T)
         /\ Range(Only(list, S)) = Range(list) \cap S
         /\ list # <<>> /\ list[1] \in S =>
                Only(list, S) # <<>> /\ Only(list, S)[1] = list[1]
<1> DEFINE ids == {i \in DOMAIN list : list[i] \in S}
           at == InOrder(ids)
           size == Cardinality(ids)
<1>1. Len(list) \in Nat /\ DOMAIN list = 1..Len(list) /\ \A i \in DOMAIN list : list[i] \in T
  OBVIOUS
<1>2. ids \in SUBSET Nat /\ IsFiniteSet(ids)
  <2>1. ids \in SUBSET (1..Len(list)) /\ IsFiniteSet(1..Len(list))
    BY <1>1, FS_Interval
  <2> HIDE DEF ids
  <2>2. IsFiniteSet(ids)
    BY Zenon, <2>1, FS_Subset
  <2>3. ids \in SUBSET Nat
    BY <1>1, <2>1
  <2> QED
    BY Zenon, <2>2, <2>3
<1>3. \A i \in ids : i \in DOMAIN list /\ list[i] \in S
  OBVIOUS
<1>4. \A i \in DOMAIN list : list[i] \in S => i \in ids
  OBVIOUS
<1>5. Only(list, S) = [k \in DOMAIN at |-> list[at[k]]]
  BY Zenon DEF Only
<1> HIDE DEF ids
<1>6. /\ size \in Nat /\ DOMAIN at = 1..size
      /\ \A i \in 1..size : at[i] \in ids
      /\ \A id \in ids : \E i \in 1..size : at[i] = id
      /\ \A id \in ids : (\A x \in ids : id <= x) => size >= 1 /\ at[1] = id
  BY Zenon, <1>2, InOrderFacts
<1> HIDE DEF at, size
<1>7. Only(list, S) = [k \in 1..size |-> list[at[k]]]
  BY Zenon, <1>5, <1>6
<1>8. Only(list, S) \in Seq(T) /\ Len(Only(list, S)) = size /\ DOMAIN Only(list, S) = 1..size
  <2>1. \A k \in 1..size : list[at[k]] \in T
    BY Zenon, <1>1, <1>3, <1>6
  <2> QED
    BY <1>6, <1>7, <2>1
<1>9. Range(Only(list, S)) = Range(list) \cap S
  <2>1. \A k \in 1..size : Only(list, S)[k] \in Range(list) \cap S
    BY Zenon, <1>3, <1>6, <1>7 DEF Range
  <2>2. ASSUME NEW i \in DOMAIN list, list[i] \in S PROVE list[i] \in Range(Only(list, S))
    <3>1. PICK k \in 1..size : at[k] = i
      BY Zenon, <1>4, <1>6, <2>2
    <3> QED
      BY Zenon, <1>7, <1>8, <3>1 DEF Range
  <2> QED
    BY Zenon, <1>8, <2>1, <2>2 DEF Range
<1>10. ASSUME list # <<>>, list[1] \in S
       PROVE  Only(list, S) # <<>> /\ Only(list, S)[1] = list[1]
  <2>1. 1 \in DOMAIN list
    BY <1>1, <1>10
  <2>2. 1 \in ids /\ \A x \in ids : 1 <= x
    BY <1>1, <1>3, <1>4, <1>10, <2>1
  <2>3. size >= 1 /\ at[1] = 1
    BY Zenon, <1>6, <2>2
  <2>4. 1 \in 1..size
    BY <1>6, <2>3
  <2>5. Only(list, S)[1] = list[1]
    BY <1>7, <2>3, <2>4
  <2> QED
    BY <1>8, <2>4, <2>5
<1> QED
  BY Zenon, <1>8, <1>9, <1>10

\* The least loaded candidates are candidates.
LEMMA LeastLoadedFacts ==
  ASSUME NEW C \in SUBSET Nat, IsFiniteSet(C), NEW k \in Int,
         NEW counts, \A n \in C : counts[n] \in Int, NEW T, C \subseteq T
  PROVE  LeastLoaded(C, counts, k) \in Seq(T)
<1> DEFINE Before(m, n) == counts[m] < counts[n] \/ (counts[m] = counts[n] /\ m < n)
           R == {p \in C \X C : Before(p[1], p[2])}
           Place(n) == Cardinality({m \in C : Before(m, n)})
           size == Cardinality(C)
           length == IF k < size THEN k ELSE size
<1>1. \A m, n \in C : <<m, n>> \in R <=> Before(m, n)
  OBVIOUS
<1>2. Ordered(R, C)
  <2> HIDE DEF R
  <2>1. \A m \in C : m \in Int /\ counts[m] \in Int
    OBVIOUS
  <2>2. \A m, n, o \in C : Before(m, n) /\ Before(n, o) => Before(m, o)
    BY <2>1
  <2>3. \A m \in C : ~Before(m, m)
    BY <2>1
  <2>4. \A m, n \in C : m # n => Before(m, n) \/ Before(n, m)
    BY <2>1
  <2> HIDE DEF Before
  <2> QED
    BY Zenon, <1>1, <2>2, <2>3, <2>4 DEF Ordered
<1>3. Placed(R, C)
  <2> HIDE DEF R
  <2> QED
    BY Zenon, <1>2, Ranks
<1>4. \A n \in C : Rank(R, C, n) = Place(n)
  <2> SUFFICES ASSUME NEW n \in C
               PROVE  {m \in C : <<m, n>> \in R} = {m \in C : Before(m, n)}
    BY Zenon DEF Rank
  <2> HIDE DEF Before, R
  <2> QED
    BY Zenon, <1>1
<1>5. LeastLoaded(C, counts, k) =
          [i \in 1..length |-> CHOOSE n \in C : Place(n) = i - 1]
  BY Zenon DEF LeastLoaded
<1> HIDE DEF Place, R
<1>6. size \in Nat /\ length \in Int /\ length <= size
  BY <1>3 DEF Placed
<1>7. \A i \in 1..size : \E n \in C : Place(n) = i - 1
  BY Zenon, <1>3, <1>4 DEF Placed
<1> HIDE DEF size
<1>8. \A i \in 1..length : i \in 1..size
  BY <1>6
<1> HIDE DEF length
<1> DEFINE Chosen(i) == CHOOSE n \in C : Place(n) = i - 1
<1>9. \A i \in 1..length : Chosen(i) \in T
  BY Zenon, <1>7, <1>8
<1> HIDE DEF Chosen
<1>10. CASE length >= 0
  <2>1. LeastLoaded(C, counts, k) = [i \in 1..length |-> Chosen(i)]
    BY Zenon, <1>5 DEF Chosen
  <2> QED
    BY <1>6, <1>9, <1>10, <2>1
<1>11. CASE length < 0
  <2>1. 1..length = {} /\ 1..0 = {}
    BY <1>6, <1>11
  <2>2. LeastLoaded(C, counts, k) = [i \in 1..0 |-> Chosen(i)]
    BY Zenon, <1>5, <2>1 DEF Chosen
  <2> QED
    BY <2>2
<1> QED
  BY <1>6, <1>10, <1>11

\* Nodes are taken out of a list, and a list is cut.
LEMMA MinusFacts ==
  ASSUME NEW T, NEW list \in Seq(T), NEW kept
  PROVE  /\ Minus(list, kept) \in Seq(T)
         /\ Range(Minus(list, kept)) = Range(list) \ Range(kept)
         /\ list # <<>> /\ list[1] \notin Range(kept) =>
                Minus(list, kept) # <<>> /\ Minus(list, kept)[1] = list[1]
<1> DEFINE S == Range(list) \ Range(kept)
<1>1. Minus(list, kept) = Only(list, S)
  BY Zenon DEF Minus
<1>2. list # <<>> => list[1] \in Range(list)
  BY DEF Range
<1>3. list # <<>> /\ list[1] \notin Range(kept) => list[1] \in S
  BY Zenon, <1>2
<1>4. Range(list) \cap S = S
  OBVIOUS
<1> HIDE DEF S
<1>5. /\ Only(list, S) \in Seq(T)
      /\ Range(Only(list, S)) = Range(list) \cap S
      /\ list # <<>> /\ list[1] \in S =>
             Only(list, S) # <<>> /\ Only(list, S)[1] = list[1]
  BY OnlyFacts
<1> QED
  BY Zenon, <1>1, <1>3, <1>4, <1>5 DEF S

\* What is left of a list that is cut to its first k members.
LEMMA FirstKFacts ==
  ASSUME NEW T, NEW list \in Seq(T), NEW k \in Int
  PROVE  /\ FirstK(list, k) \in Seq(T)
         /\ Range(FirstK(list, k)) \subseteq Range(list)
         /\ list # <<>> /\ k > 0 => FirstK(list, k) # <<>> /\ FirstK(list, k)[1] = list[1]
<1> DEFINE n == IF k < Len(list) THEN k ELSE Len(list)
<1>1. Len(list) \in Nat /\ n \in Int /\ n <= Len(list)
  OBVIOUS
<1>2. FirstK(list, k) = SubSeq(list, 1, n)
  BY Zenon DEF FirstK
<1>3. list # <<>> /\ k > 0 => n >= 1
  OBVIOUS
<1> HIDE DEF n
<1>4. SubSeq(list, 1, n) \in Seq(T)
  BY <1>1
<1>5. /\ \A i \in 1..Len(SubSeq(list, 1, n)) : i \in 1..Len(list) /\ SubSeq(list, 1, n)[i] = list[i]
      /\ n >= 1 => Len(SubSeq(list, 1, n)) = n
  BY <1>1
<1> QED
  BY <1>1, <1>2, <1>3, <1>4, <1>5 DEF Range
-----------------------------------------------------------------------------
(* The state. *)

\* No segment, or the one there is, in the order of the IDs.
LEMMA OneInOrder ==
  /\ InOrder({}) \in Seq(Nat) /\ Len(InOrder({})) = 0
  /\ InOrder({Segment}) \in Seq(Nat) /\ Len(InOrder({Segment})) = 1
  /\ InOrder({Segment})[1] = Segment
<1>1. {} \in SUBSET Nat /\ IsFiniteSet({}) /\ Cardinality({}) = 0
  BY Zenon, FS_EmptySet
<1>2. {Segment} \in SUBSET Nat /\ IsFiniteSet({Segment}) /\ Cardinality({Segment}) = 1
  BY FS_Singleton DEF Segment
<1>3. InOrder({}) \in Seq(Nat) /\ Len(InOrder({})) = 0
  BY <1>1 DEF InOrder
<1>4. DOMAIN InOrder({Segment}) = 1..1 /\ \A i \in 1..1 : InOrder({Segment})[i] \in {Segment}
  BY Zenon, <1>2, InOrderFacts
<1>5. InOrder({Segment}) = [i \in 1..1 |-> Segment]
  <2>1. InOrder({Segment}) = [i \in 1..1 |-> InOrder({Segment})[i]]
    BY <1>2 DEF InOrder
  <2> QED
    BY Zenon, <1>4, <2>1
<1>6. InOrder({Segment}) \in Seq(Nat) /\ Len(InOrder({Segment})) = 1
  <2>1. \A n \in Nat : [i \in 1..n |-> Segment] \in Seq(Nat) /\ Len([i \in 1..n |-> Segment]) = n
    BY <1>2
  <2> QED
    BY Zenon, <1>5, <2>1
<1> QED
  BY <1>3, <1>4, <1>6

\* A plan without commands for a state.
NoPlan(s) == [cmds |-> <<>>, counts |-> CountSegmentsPerNode(s)]

\* The reconciler looks at the one segment there is.
LEMMA OneOpenSegment ==
  ASSUME NEW s, DOMAIN s.open = {Segment}, DOMAIN s.closed = {},
         NEW sizes, NEW reachable, NEW expired
  PROVE  ReconcileSegments(s, sizes, reachable, expired) =
             ReconcileOpenSegment(s, NoPlan(s), Segment, sizes, reachable).cmds
<1> DEFINE open == InOrder(DOMAIN s.open)
           closed == InOrder(DOMAIN s.closed)
           F(f) == [i \in 0..Len(open) |->
                      IF i = 0 THEN [cmds |-> <<>>, counts |-> CountSegmentsPerNode(s)]
                      ELSE ReconcileOpenSegment(s, f[i - 1], open[i], sizes, reachable)]
           G(o, f) == [i \in 0..Len(closed) |->
                      IF i = 0 THEN o
                      ELSE ReconcileClosedSegment(s, f[i - 1], closed[i], expired)]
           Open == CHOOSE f : f = F(f)
           Closed1 == CHOOSE f : f = G(Open[Len(open)], f)
<1>1. ReconcileSegments(s, sizes, reachable, expired) = Closed1[Len(closed)].cmds
  BY Zenon DEF ReconcileSegments
<1>2. Len(open) = 1 /\ open[1] = Segment /\ Len(closed) = 0
  BY Zenon, OneInOrder
<1> HIDE DEF open, closed
<1> DEFINE P == ReconcileOpenSegment(s, NoPlan(s), Segment, sizes, reachable)
           h == [i \in 0..1 |-> IF i = 0 THEN NoPlan(s) ELSE P]
<1>3. h = F(h)
  BY <1>2 DEF NoPlan
<1>4. Open = F(Open)
  <2> HIDE DEF F, h
  <2> QED
    BY Zenon, <1>3
<1>5. Open[1] = P
  <2> HIDE DEF Open
  <2>1. Open[0] = NoPlan(s)
    BY <1>2, <1>4 DEF NoPlan
  <2> QED
    BY <1>2, <1>4, <2>1
<1> HIDE DEF Open
<1>6. Closed1 = G(P, Closed1)
  <2> DEFINE c == [i \in 0..0 |-> P]
  <2>1. c = G(P, c)
    BY <1>2
  <2> HIDE DEF c, G, P
  <2>2. Closed1 = CHOOSE f : f = G(P, f)
    BY Zenon, <1>2, <1>5
  <2> QED
    BY Zenon, <2>1, <2>2
<1>7. Closed1[0] = P
  <2> HIDE DEF Closed1, P
  <2> QED
    BY <1>2, <1>6
<1> QED
  <2> HIDE DEF Closed1
  <2> QED
    BY Zenon, <1>1, <1>2, <1>7

\* The same for the closed segment.
LEMMA OneClosedSegment ==
  ASSUME NEW s, DOMAIN s.open = {}, DOMAIN s.closed = {Segment},
         NEW sizes, NEW reachable, NEW expired
  PROVE  ReconcileSegments(s, sizes, reachable, expired) =
             ReconcileClosedSegment(s, NoPlan(s), Segment, expired).cmds
<1> DEFINE open == InOrder(DOMAIN s.open)
           closed == InOrder(DOMAIN s.closed)
           F(f) == [i \in 0..Len(open) |->
                      IF i = 0 THEN [cmds |-> <<>>, counts |-> CountSegmentsPerNode(s)]
                      ELSE ReconcileOpenSegment(s, f[i - 1], open[i], sizes, reachable)]
           G(o, f) == [i \in 0..Len(closed) |->
                      IF i = 0 THEN o
                      ELSE ReconcileClosedSegment(s, f[i - 1], closed[i], expired)]
           Open == CHOOSE f : f = F(f)
           Closed1 == CHOOSE f : f = G(Open[Len(open)], f)
<1>1. ReconcileSegments(s, sizes, reachable, expired) = Closed1[Len(closed)].cmds
  BY Zenon DEF ReconcileSegments
<1>2. Len(open) = 0 /\ Len(closed) = 1 /\ closed[1] = Segment
  BY Zenon, OneInOrder
<1> HIDE DEF open, closed
<1> DEFINE P == ReconcileClosedSegment(s, NoPlan(s), Segment, expired)
           h == [i \in 0..1 |-> IF i = 0 THEN NoPlan(s) ELSE P]
           o == [i \in 0..0 |-> NoPlan(s)]
<1>3. o = F(o)
  BY <1>2 DEF NoPlan
<1>4. Open = F(Open)
  <2> HIDE DEF F, o
  <2> QED
    BY Zenon, <1>3
<1>5. Open[0] = NoPlan(s)
  <2> HIDE DEF Open
  <2> QED
    BY <1>2, <1>4 DEF NoPlan
<1> HIDE DEF Open
<1>6. Closed1 = G(NoPlan(s), Closed1)
  <2>1. h = G(NoPlan(s), h)
    BY <1>2
  <2> HIDE DEF h, G
  <2>2. Closed1 = CHOOSE f : f = G(NoPlan(s), f)
    BY Zenon, <1>2, <1>5
  <2> QED
    BY Zenon, <2>1, <2>2
<1>7. Closed1[1] = P
  <2> HIDE DEF Closed1
  <2>1. Closed1[0] = NoPlan(s)
    BY <1>2, <1>6
  <2> QED
    BY <1>2, <1>6, <2>1
<1> QED
  <2> HIDE DEF Closed1
  <2> QED
    BY Zenon, <1>1, <1>2, <1>7

\* The places of the nodes are counted.
LEMMA CountsFacts ==
  ASSUME NEW s, IsFiniteSet(DOMAIN s.open), IsFiniteSet(DOMAIN s.closed)
  PROVE  \A n \in DOMAIN s.nodes : CountSegmentsPerNode(s)[n] \in Int
<1> DEFINE A(segments, n) == {id \in DOMAIN segments : segments[id].primary = n}
           B(segments, n) == {id \in DOMAIN segments : n \in Range(segments[id].replicating)}
           D(segments, n) == {id \in DOMAIN segments : n \in Range(segments[id].done)}
           Places(segments, n) == Cardinality(A(segments, n)) + Cardinality(B(segments, n))
                                    + Cardinality(D(segments, n))
<1>1. ASSUME NEW segments, IsFiniteSet(DOMAIN segments), NEW n PROVE Places(segments, n) \in Int
  <2>1. /\ A(segments, n) \in SUBSET DOMAIN segments
        /\ B(segments, n) \in SUBSET DOMAIN segments
        /\ D(segments, n) \in SUBSET DOMAIN segments
    OBVIOUS
  <2> HIDE DEF A, B, D
  <2>2. IsFiniteSet(A(segments, n)) /\ IsFiniteSet(B(segments, n)) /\ IsFiniteSet(D(segments, n))
    BY Zenon, <1>1, <2>1, FS_Subset
  <2>3. /\ Cardinality(A(segments, n)) \in Nat /\ Cardinality(B(segments, n)) \in Nat
        /\ Cardinality(D(segments, n)) \in Nat
    BY Zenon, <2>2, FS_CardinalityType
  <2> QED
    BY <2>3
<1>2. CountSegmentsPerNode(s) = [n \in DOMAIN s.nodes |-> Places(s.open, n) + Places(s.closed, n)]
  BY Zenon DEF CountSegmentsPerNode
<1> HIDE DEF Places
<1>3. \A n : Places(s.open, n) \in Int /\ Places(s.closed, n) \in Int
  BY Zenon, <1>1
<1> QED
  BY <1>2, <1>3

\* The live nodes are some of the nodes.
LEMMA AliveFacts ==
  ASSUME NEW s, DOMAIN s.nodes = Nodes, NEW S
  PROVE  /\ AliveNodes(s) \subseteq Nodes
         /\ AliveNodes(s) \ S \in SUBSET Nat /\ IsFiniteSet(AliveNodes(s) \ S)
<1>1. AliveNodes(s) \subseteq Nodes
  BY Zenon DEF AliveNodes
<1>2. AliveNodes(s) \ S \in SUBSET Nodes
  BY Zenon, <1>1
<1>3. IsFiniteSet(Nodes) /\ Nodes \subseteq Nat
  BY Zenon, ReplicationAssumption
<1>4. IsFiniteSet(AliveNodes(s) \ S)
  BY Zenon, <1>2, <1>3, FS_Subset
<1> QED
  BY Zenon, <1>1, <1>2, <1>3, <1>4

\* What Server.Loop finds of the topic in the state.
TopicKnown(namespaces) ==
    /\ DefaultNamespace \in DOMAIN namespaces
    /\ "topic" \in DOMAIN namespaces[DefaultNamespace].topics
    /\ namespaces[DefaultNamespace].topics["topic"].retention = FALSE
    /\ namespaces[DefaultNamespace].topics["topic"].replicationFactor = DefaultReplicationFactor

\* The segment has been opened, and all nodes are alive.
LEMMA OpenedFacts ==
  /\ StateSound(Opened) /\ TopicKnown(Opened.namespaces)
  /\ ~IsClosed(View(Opened)) /\ View(Opened).primary = 1 /\ Apart(View(Opened))
  /\ \A n \in Nodes : Alive(Opened, n)
<1> DEFINE topic == [type |-> "direct", shards |-> 1, retention |-> FALSE,
                     replicationFactor |-> DefaultReplicationFactor]
           topics == Put(Empty, "topic", topic)
           namespaces == Put(Empty, DefaultNamespace, [topics |-> topics, groups |-> Empty])
           nodes == [n \in Nodes |-> "alive"]
           empty == [EmptyState EXCEPT !.namespaces = namespaces, !.nodes = nodes]
           cmds == OpenSegment(empty, 1, TOPIC, DefaultNamespace, "topic", Segment)
<1>1. Opened = Do(empty, cmds[1])
  BY Zenon DEF Opened
<1>2. /\ empty \in [namespaces : {namespaces}, open : {Empty}, closed : {Empty},
                    nodes : {nodes}, current : {0}]
      /\ empty.namespaces = namespaces /\ empty.open = Empty /\ empty.closed = Empty
      /\ empty.nodes = nodes /\ empty.current = 0
  <2> HIDE DEF namespaces, nodes
  <2> QED
    BY Zenon DEF EmptyState
<1>3. /\ DOMAIN topics = {"topic"} /\ topics["topic"] = topic
      /\ DOMAIN Empty = {}
  BY Zenon DEF Put, Empty
<1> HIDE DEF topics
<1>4. /\ DOMAIN namespaces = {DefaultNamespace}
      /\ namespaces[DefaultNamespace].topics = topics
      /\ namespaces[DefaultNamespace].groups = Empty
  BY Zenon DEF Put, Empty
<1> HIDE DEF namespaces, nodes, empty
<1> DEFINE segment == [type |-> TOPIC, ns |-> DefaultNamespace, name |-> "topic"]
           slot == Slot(empty, 1, TOPIC, DefaultNamespace, "topic",
                        Shards(empty, TOPIC, DefaultNamespace, "topic"))
           replicas == LeastLoaded(AliveNodes(empty) \ {1}, CountSegmentsPerNode(empty),
                                   ReplicationFactor(empty, segment) - 1)
           commits == WithNewSegment(empty, DefaultNamespace, "topic", Segment)
           create == CreateSegment(Segment, TOPIC, DefaultNamespace, "topic",
                                   slot.generation, slot.shard, 1, replicas)
<1>5. /\ 1 \in DOMAIN empty.nodes
      /\ HasOwner(empty, segment)
      /\ MayOpen(empty, 1, TOPIC, DefaultNamespace, "topic")
  <2>1. 1 \in DOMAIN empty.nodes
    BY Zenon, <1>2, ReplicationAssumption DEF nodes
  <2>2. HasOwner(empty, segment)
    BY Zenon, <1>2, <1>3, <1>4 DEF HasOwner, TopicExists, NamespaceExists
  <2>3. FindOpenSegmentsFor(empty, TOPIC, DefaultNamespace, "topic") = {}
    BY Zenon, <1>2, <1>3 DEF FindOpenSegmentsFor
  <2>4. Shards(empty, TOPIC, DefaultNamespace, "topic") = 1
    BY <1>2, <1>3, <1>4 DEF Shards, GetTopic
  <2> QED
    BY Zenon, <2>1, <2>2, <2>3, <2>4, FS_EmptySet DEF MayOpen
<1>6. cmds = <<create>> \o commits
  BY Zenon, <1>5 DEF OpenSegment
<1>7. commits \in Seq({commits[i] : i \in DOMAIN commits})
  <2> DEFINE bound == AsList({g \in DOMAIN empty.namespaces[DefaultNamespace].groups :
                        "topic" \in empty.namespaces[DefaultNamespace].groups[g].bindings})
  <2>1. {g \in DOMAIN empty.namespaces[DefaultNamespace].groups :
            "topic" \in empty.namespaces[DefaultNamespace].groups[g].bindings} = {}
    BY Zenon, <1>2, <1>3, <1>4
  <2>2. bound = AsList({})
    BY Zenon, <2>1
  <2>3. DOMAIN bound = 1..0
    <3>1. Cardinality({}) = 0
      BY Zenon, FS_EmptySet
    <3>2. [i \in 1..0 |-> i] \in Injection(1..0, {})
      BY DEF Injection, IsInjective
    <3>3. AsList({}) \in Injection(1..0, {})
      BY Zenon, <3>1, <3>2 DEF AsList
    <3> HIDE DEF bound
    <3> QED
      BY Zenon, <2>2, <3>3 DEF Injection
  <2>4. DOMAIN commits = 1..0
    BY Zenon, <2>3 DEF WithNewSegment
  <2>5. commits = [i \in DOMAIN commits |-> commits[i]]
    BY Zenon DEF WithNewSegment
  <2> HIDE DEF commits
  <2> QED
    BY <2>4, <2>5
<1>8. cmds[1] = create
  <2> HIDE DEF create, commits
  <2> QED
    BY <1>6, <1>7
<1>9. replicas \in Seq(Nodes) /\ 1 \notin Range(replicas)
  <2> DEFINE C == AliveNodes(empty) \ {1}
             k == ReplicationFactor(empty, segment) - 1
             counts == CountSegmentsPerNode(empty)
  <2>1. DOMAIN empty.nodes = Nodes
    BY Zenon, <1>2 DEF nodes
  <2>2. C \in SUBSET Nat /\ IsFiniteSet(C) /\ C \subseteq Nodes
    BY Zenon, <2>1, AliveFacts
  <2>3. k \in Int
    BY <1>2, <1>3, <1>4, ReplicationAssumption DEF ReplicationFactor, GetTopic
  <2>4. \A n \in C : counts[n] \in Int
    <3>1. IsFiniteSet(DOMAIN empty.open) /\ IsFiniteSet(DOMAIN empty.closed)
      BY Zenon, <1>2, <1>3, FS_EmptySet
    <3> QED
      BY Zenon, <2>1, <2>2, <3>1, CountsFacts
  <2> HIDE DEF C, k, counts
  <2>5. LeastLoaded(C, counts, k) \in Seq(C)
    BY Zenon, <2>2, <2>3, <2>4, LeastLoadedFacts
  <2>6. LeastLoaded(C, counts, k) \in Seq(Nodes) /\ Range(LeastLoaded(C, counts, k)) \subseteq C
    BY Zenon, <2>2, <2>5, RangeFacts
  <2> QED
    BY Zenon, <2>6 DEF C, k, counts
<1> HIDE DEF slot, replicas, cmds
<1> DEFINE new == create.segment
           t == [empty EXCEPT !.current = Segment, !.open = Put(Empty, Segment, new)]
<1>10. Opened = t
  <2>1. Do(empty, create) = doOpenSegment(empty, create)
    BY Zenon DEF Do, CreateSegment
  <2>2. create.id = Segment /\ Segment > 0
    BY DEF CreateSegment, Segment
  <2> HIDE DEF create
  <2> QED
    BY Zenon, <1>1, <1>2, <1>8, <2>1, <2>2 DEF doOpenSegment
<1>11. /\ new = [type |-> TOPIC, ns |-> DefaultNamespace, name |-> "topic",
                 generation |-> slot.generation, shard |-> slot.shard,
                 primary |-> 1, replicating |-> replicas, done |-> <<>>, size |-> 0]
  BY Zenon DEF CreateSegment
<1> HIDE DEF new
<1>12. DOMAIN Put(Empty, Segment, new) = {Segment} /\ Put(Empty, Segment, new)[Segment] = new
         /\ Put(Empty, Segment, new) = [id \in {Segment} |-> new]
  BY Zenon, <1>3 DEF Put
<1>13. /\ t.open = [id \in {Segment} |-> new] /\ t.closed = Empty /\ t.nodes = nodes
       /\ t.namespaces = namespaces /\ t.current = Segment
       /\ t \in [namespaces : {namespaces}, open : {t.open}, closed : {Empty},
                 nodes : {nodes}, current : {Segment}]
  BY Zenon, <1>2, <1>12
<1> HIDE DEF t
<1>14. View(Opened) = new
  BY Zenon, <1>10, <1>13 DEF View, GetSegment
<1>15. new \in SegmentRec
  <2>1. new.generation = slot.generation /\ new.shard = slot.shard
    BY Zenon, <1>11
  <2>2. 1 \in Nodes /\ <<>> \in Seq(Nodes)
    BY ReplicationAssumption
  <2> QED
    BY <1>9, <1>11, <1>14, <2>1, <2>2 DEF SegmentRec
<1>16. StateSound(Opened)
  <2>1. t.open \in [{Segment} -> SegmentRec] /\ t.open[Segment] = new
    BY Zenon, <1>13, <1>15
  <2>2. new.primary \in Nodes /\ new.done = <<>>
    BY Zenon, <1>11, ReplicationAssumption
  <2>3. nodes \in [Nodes -> {"alive", "dead"}]
    BY Zenon DEF nodes
  <2>4. Opened.namespaces = namespaces
    BY Zenon, <1>10, <1>13
  <2> QED
    BY Zenon, <1>3, <1>10, <1>13, <2>1, <2>2, <2>3, <2>4 DEF StateSound
<1>17. TopicKnown(Opened.namespaces)
  BY <1>3, <1>4, <1>10, <1>13 DEF TopicKnown
<1>18. View(Opened).primary = 1 /\ ~IsClosed(View(Opened))
  BY <1>11, <1>14, ReplicationAssumption DEF IsClosed, NoNode
<1>19. \A n \in Nodes : Alive(Opened, n)
  BY Zenon, <1>10, <1>13 DEF Alive, nodes
<1>20. Apart(View(Opened))
  <2>1. new.primary = 1 /\ new.replicating = replicas /\ new.done = <<>> /\ Range(<<>>) = {}
    BY <1>11 DEF Range
  <2> QED
    BY Zenon, <1>9, <1>14, <2>1 DEF Apart
<1> QED
  BY Zenon, <1>16, <1>17, <1>18, <1>19, <1>20
-----------------------------------------------------------------------------
(* The leader's plan. *)

\* One command is planned, or none.
LEMMA PlannedOne ==
  ASSUME NEW s
  PROVE  /\ NoPlan(s).cmds = <<>>
         /\ \A cmd, counts : Planned(NoPlan(s), cmd, counts).cmds = <<cmd>>
BY DEF NoPlan, Planned

\* The segments of a state are finitely many.
LEMMA OneIsFinite == IsFiniteSet({}) /\ IsFiniteSet({Segment})
BY Zenon, FS_EmptySet, FS_Singleton

\* The segment's topic exists.
LEMMA SegmentOwned ==
  ASSUME NEW s, StateSound(s), NEW segment \in SegmentRec
  PROVE  /\ HasOwner(s, segment) /\ segment.type # OFFSET_COMMITS
         /\ ReplicationFactor(s, segment) = DefaultReplicationFactor
         /\ GetTopic(s, segment.ns, segment.name).retention = FALSE
<1>1. /\ segment.type = TOPIC /\ segment.ns = DefaultNamespace /\ segment.name = "topic"
  BY Zenon DEF SegmentRec
<1>2. TopicKnown(s.namespaces)
  BY Zenon, OpenedFacts DEF StateSound
<1> QED
  BY Zenon, <1>1, <1>2 DEF TopicKnown, HasOwner, TopicExists, NamespaceExists,
       ReplicationFactor, GetTopic, TOPIC, OFFSET_COMMITS

\* A segment whose primary is alive keeps it.
LEMMA AlivePrimaryPlan ==
  ASSUME NEW s, StateSound(s), Apart(View(s)), ~IsClosed(View(s))
  PROVE  PlanFor(ReconcileAlivePrimary(s, NoPlan(s), Segment).cmds, s)
<1> DEFINE segment == s.open[Segment]
           factor == ReplicationFactor(s, segment)
           alive == AliveOf(s, segment.replicating)
           kept == FirstK(alive, factor - 1)
           candidates == AliveNodes(s) \ ({segment.primary} \cup Range(alive))
           added == LeastLoaded(candidates, CountSegmentsPerNode(s), factor - 1 - Len(alive))
           plan1 == ReconcileAlivePrimary(s, NoPlan(s), Segment)
<1>1. /\ DOMAIN s.open = {Segment} /\ DOMAIN s.closed = {} /\ View(s) = segment
      /\ segment \in SegmentRec /\ segment.primary \in Nodes
  BY Zenon, StateViewed
<1>2. factor \in Nat
  BY Zenon, <1>1, SegmentOwned, ReplicationAssumption
<1>3. segment.replicating \in Seq(Nodes)
  BY Zenon, <1>1 DEF SegmentRec
<1>4. alive \in Seq(Nodes) /\ Range(alive) \subseteq Range(segment.replicating)
  BY <1>3, OnlyFacts DEF AliveOf
<1>5. added \in Seq(Nodes) /\ Range(added) \subseteq candidates
  <2>1. DOMAIN s.nodes = Nodes
    BY Zenon DEF StateSound
  <2>2. candidates \in SUBSET Nat /\ IsFiniteSet(candidates) /\ candidates \subseteq Nodes
    BY Zenon, <2>1, AliveFacts
  <2>3. \A n \in candidates : CountSegmentsPerNode(s)[n] \in Int
    <3>1. IsFiniteSet(DOMAIN s.open) /\ IsFiniteSet(DOMAIN s.closed)
      BY Zenon, <1>1, OneIsFinite
    <3> HIDE DEF candidates
    <3> QED
      BY Zenon, <2>1, <2>2, <3>1, CountsFacts
  <2>4. factor - 1 - Len(alive) \in Int
    BY <1>2, <1>4
  <2> HIDE DEF candidates, alive, factor
  <2>5. added \in Seq(candidates)
    BY Zenon, <2>2, <2>3, <2>4, LeastLoadedFacts
  <2> HIDE DEF added
  <2> QED
    BY Zenon, <2>2, <2>5, RangeFacts
<1>6. kept \in Seq(Nodes) /\ Range(kept) \subseteq Range(alive)
  <2> HIDE DEF alive, factor
  <2>1. factor - 1 \in Int
    BY <1>2
  <2> QED
    BY Zenon, <1>4, <2>1, FirstKFacts
<1>7. \/ plan1.cmds = <<>>
      \/ plan1.cmds = <<UpdateOpenNodes(Segment, segment.primary, kept)>>
      \/ plan1.cmds = <<UpdateOpenNodes(Segment, segment.primary, alive \o added)>>
  <2> DEFINE keep == UpdateOpenNodes(Segment, segment.primary, kept)
             add == UpdateOpenNodes(Segment, segment.primary, alive \o added)
             fewer == Counted(NoPlan(s).counts, <<>>,
                        IF factor > 1 THEN Minus(segment.replicating, kept) ELSE <<>>)
             more == Counted(NoPlan(s).counts, added, <<>>)
             many == 1 + Len(alive) > factor
             few == 1 + Len(alive) < factor /\ candidates # {}
  <2>1. NoPlan(s).counts = CountSegmentsPerNode(s)
    BY Zenon DEF NoPlan
  <2>2. plan1 = CASE many -> Planned(NoPlan(s), keep, fewer)
                  [] few -> Planned(NoPlan(s), add, more)
                  [] OTHER -> NoPlan(s)
    BY Zenon, <2>1 DEF ReconcileAlivePrimary
  <2> HIDE DEF plan1, keep, add, fewer, more, many, few
  <2>3. \/ plan1 = Planned(NoPlan(s), keep, fewer)
        \/ plan1 = Planned(NoPlan(s), add, more)
        \/ plan1 = NoPlan(s)
    BY <2>2
  <2>4. \/ plan1.cmds = <<>> \/ plan1.cmds = <<keep>> \/ plan1.cmds = <<add>>
    BY Zenon, <2>3, PlannedOne
  <2> QED
    BY Zenon, <2>4 DEF keep, add
<1> HIDE DEF segment, kept, alive, added, plan1
<1>8. alive \o added \in Seq(Nodes) /\ Range(alive \o added) = Range(alive) \cup Range(added)
  <2>1. alive \in Seq(Nodes) /\ added \in Seq(Nodes)
    BY Zenon, <1>4, <1>5
  <2> QED
    BY <2>1, CatFacts, Zenon
<1>9. segment.primary \notin Range(kept) /\ segment.primary \notin Range(alive \o added)
  BY Zenon, <1>1, <1>4, <1>5, <1>6, <1>8 DEF Apart
<1> QED
  BY Zenon, <1>1, <1>6, <1>7, <1>8, <1>9 DEF PlanFor, plan1

\* A segment whose primary is not gets a live replica for its primary.
LEMMA DeadPrimaryPlan ==
  ASSUME NEW s, StateSound(s), ~IsClosed(View(s)), ~Alive(s, View(s).primary),
         NEW sizes, NEW reachable
  PROVE  PlanFor(ReconcileDeadPrimary(s, NoPlan(s), Segment, sizes, reachable).cmds, s)
<1> DEFINE alive == AliveOf(s, s.open[Segment].replicating)
           Best(i) == /\ sizes[alive[i]] > -1
                      /\ \A j \in DOMAIN alive :
                           \/ sizes[alive[j]] < sizes[alive[i]]
                           \/ sizes[alive[j]] = sizes[alive[i]] /\ j >= i
           promoted == alive[CHOOSE i \in DOMAIN alive : Best(i)]
           cmd == UpdateOpenNodes(Segment, promoted, Minus(alive, <<promoted>>))
           plan1 == ReconcileDeadPrimary(s, NoPlan(s), Segment, sizes, reachable)
<1>1. View(s) = s.open[Segment] /\ View(s) \in SegmentRec
  BY Zenon, StateViewed
<1>2. s.open[Segment].replicating \in Seq(Nodes)
  BY Zenon, <1>1 DEF SegmentRec
<1>3. alive \in Seq(Nodes)
  BY Zenon, <1>2, OnlyFacts DEF AliveOf
<1>4. plan1 = IF /\ Range(alive) \subseteq reachable
                 /\ \E i \in DOMAIN alive : Best(i)
              THEN Planned(NoPlan(s), cmd, NoPlan(s).counts)
              ELSE NoPlan(s)
  BY Zenon DEF ReconcileDeadPrimary
<1> HIDE DEF alive, Best, plan1
<1>5. CASE plan1 = NoPlan(s)
  BY Zenon, <1>5, PlannedOne DEF PlanFor, plan1
<1>6. CASE plan1 = Planned(NoPlan(s), cmd, NoPlan(s).counts) /\ \E i \in DOMAIN alive : Best(i)
  <2>1. (CHOOSE i \in DOMAIN alive : Best(i)) \in DOMAIN alive
    BY Zenon, <1>6
  <2>2. promoted \in Nodes
    BY <1>3, <2>1
  <2> HIDE DEF promoted
  <2>3. /\ Minus(alive, <<promoted>>) \in Seq(Nodes)
        /\ promoted \notin Range(Minus(alive, <<promoted>>))
    <3>1. promoted \in Range(<<promoted>>)
      BY DEF Range
    <3> QED
      BY <1>3, <3>1, MinusFacts
  <2>4. plan1.cmds = <<cmd>>
    BY Zenon, <1>6, PlannedOne
  <2> QED
    BY Zenon, <2>2, <2>3, <2>4 DEF PlanFor, plan1
<1> QED
  BY Zenon, <1>4, <1>5, <1>6

\* A closed segment keeps those of the nodes that are done, the first of them in
\* the first place if it is alive.
LEMMA ClosedPlan ==
  ASSUME NEW s, StateSound(s), Apart(View(s)), IsClosed(View(s))
  PROVE  PlanFor(ReconcileClosedReplicas(s, NoPlan(s), Segment).cmds, s)
<1> DEFINE segment == s.closed[Segment]
           factor == ReplicationFactor(s, segment)
           done == AliveOf(s, segment.done)
           replicating == AliveOf(s, segment.replicating)
           keptDone == FirstK(done, factor)
           kept == FirstK(replicating, factor - Len(keptDone))
           candidates == AliveNodes(s) \ (Range(done) \cup Range(replicating))
           added == LeastLoaded(candidates, NoPlan(s).counts,
                                factor - Len(done) - Len(replicating))
           plan1 == ReconcileClosedReplicas(s, NoPlan(s), Segment)
<1>1. /\ DOMAIN s.open = {} /\ DOMAIN s.closed = {Segment} /\ View(s) = segment
      /\ segment \in SegmentRec
  BY Zenon, StateViewed
<1>2. factor \in Nat /\ factor > 0
  <2>1. factor = DefaultReplicationFactor
    BY Zenon, <1>1, SegmentOwned
  <2> HIDE DEF factor
  <2> QED
    BY <2>1, ReplicationAssumption
<1>3. segment.replicating \in Seq(Nodes) /\ segment.done \in Seq(Nodes)
  BY Zenon, <1>1 DEF SegmentRec
<1>4. replicating \in Seq(Nodes) /\ Range(replicating) \subseteq Range(segment.replicating)
  BY <1>3, OnlyFacts DEF AliveOf
<1>5. /\ done \in Seq(Nodes) /\ Range(done) \subseteq Range(segment.done)
      /\ segment.done # <<>> /\ Alive(s, segment.done[1]) =>
             done # <<>> /\ done[1] = segment.done[1]
  <2>1. segment.done # <<>> /\ Alive(s, segment.done[1]) => segment.done[1] \in AliveNodes(s)
    <3>1. segment.done # <<>> => segment.done[1] \in Nodes
      <4> HIDE DEF segment
      <4> QED
        BY <1>3
    <3>2. DOMAIN s.nodes = Nodes
      BY Zenon DEF StateSound
    <3> QED
      BY Zenon, <3>1, <3>2 DEF AliveNodes
  <2>2. done = Only(segment.done, AliveNodes(s))
    BY Zenon DEF AliveOf
  <2> HIDE DEF segment, done
  <2>3. /\ done \in Seq(Nodes) /\ Range(done) = Range(segment.done) \cap AliveNodes(s)
        /\ segment.done # <<>> /\ segment.done[1] \in AliveNodes(s) =>
               done # <<>> /\ done[1] = segment.done[1]
    BY ZenonT(30), <1>3, <2>2, OnlyFacts
  <2> QED
    BY Zenon, <2>1, <2>3
<1>6. added \in Seq(Nodes) /\ Range(added) \cap Range(done) = {}
  <2>1. DOMAIN s.nodes = Nodes
    BY Zenon DEF StateSound
  <2>2. candidates \in SUBSET Nat /\ IsFiniteSet(candidates) /\ candidates \subseteq Nodes
    BY Zenon, <2>1, AliveFacts
  <2>3. \A n \in candidates : NoPlan(s).counts[n] \in Int
    <3>1. IsFiniteSet(DOMAIN s.open) /\ IsFiniteSet(DOMAIN s.closed)
      BY Zenon, <1>1, OneIsFinite
    <3> HIDE DEF candidates
    <3> QED
      BY Zenon, <2>1, <2>2, <3>1, CountsFacts DEF NoPlan
  <2>4. factor - Len(done) - Len(replicating) \in Int
    BY <1>2, <1>4, <1>5
  <2>5. candidates \cap Range(done) = {}
    OBVIOUS
  <2> HIDE DEF candidates, done, replicating, factor
  <2>6. added \in Seq(candidates)
    BY Zenon, <2>2, <2>3, <2>4, LeastLoadedFacts
  <2> HIDE DEF added
  <2>7. added \in Seq(Nodes) /\ Range(added) \subseteq candidates
    BY Zenon, <2>2, <2>6, RangeFacts
  <2> QED
    BY Zenon, <2>5, <2>7
<1> HIDE DEF factor, done, replicating, candidates, added, segment
<1>7. /\ keptDone \in Seq(Nodes) /\ Range(keptDone) \subseteq Range(done)
      /\ done # <<>> => keptDone # <<>> /\ keptDone[1] = done[1]
  <2>1. factor \in Int /\ factor > 0 /\ done \in Seq(Nodes)
    BY <1>2, <1>5
  <2> QED
    BY Zenon, <2>1, FirstKFacts
<1> HIDE DEF keptDone
<1>8. kept \in Seq(Nodes) /\ Range(kept) \subseteq Range(replicating)
  BY <1>2, <1>4, <1>7, FirstKFacts
<1> HIDE DEF kept
<1>9. \/ plan1.cmds = <<>>
      \/ plan1.cmds = <<UpdateClosedNodes(Segment, keptDone, kept)>>
      \/ plan1.cmds = <<UpdateClosedNodes(Segment, done, replicating \o added)>>
  <2> DEFINE keep == UpdateClosedNodes(Segment, keptDone, kept)
             add == UpdateClosedNodes(Segment, done, replicating \o added)
             fewer == Counted(NoPlan(s).counts, <<>>,
                        IF Len(keptDone) < factor
                        THEN Minus(segment.replicating, kept) ELSE <<>>)
             more == Counted(NoPlan(s).counts, added, <<>>)
             none == done = <<>>
             many == done # <<>> /\ Len(done) + Len(replicating) > factor
             few == /\ done # <<>>
                    /\ Len(done) + Len(replicating) < factor
                    /\ candidates # {}
  <2>1. plan1 = CASE none -> NoPlan(s)
                  [] many -> Planned(NoPlan(s), keep, fewer)
                  [] few -> Planned(NoPlan(s), add, more)
                  [] OTHER -> NoPlan(s)
    BY Zenon DEF ReconcileClosedReplicas, factor, done, replicating, candidates, added,
                 segment, keptDone, kept
  <2> HIDE DEF plan1, keep, add, fewer, more, many, few, none
  <2>2. \/ plan1 = Planned(NoPlan(s), keep, fewer)
        \/ plan1 = Planned(NoPlan(s), add, more)
        \/ plan1 = NoPlan(s)
    BY <2>1
  <2>3. \/ plan1.cmds = <<>> \/ plan1.cmds = <<keep>> \/ plan1.cmds = <<add>>
    BY Zenon, <2>2, PlannedOne
  <2> QED
    BY Zenon, <2>3 DEF keep, add
<1>10. /\ replicating \o added \in Seq(Nodes)
       /\ Range(replicating \o added) = Range(replicating) \cup Range(added)
  <2>1. replicating \in Seq(Nodes) /\ added \in Seq(Nodes)
    BY Zenon, <1>4, <1>6
  <2> QED
    BY <2>1, CatFacts, Zenon
<1> HIDE DEF plan1
<1>12. /\ Range(keptDone) \cap Range(kept) = {}
       /\ Range(done) \cap Range(replicating \o added) = {}
  BY Zenon, <1>1, <1>4, <1>5, <1>6, <1>7, <1>8, <1>10 DEF Apart
<1>11. /\ Range(keptDone) \subseteq Range(View(s).done) /\ Range(done) \subseteq Range(View(s).done)
       /\ View(s).done # <<>> /\ Alive(s, View(s).done[1]) =>
              /\ done # <<>> /\ done[1] = View(s).done[1]
              /\ keptDone # <<>> /\ keptDone[1] = View(s).done[1]
  BY Zenon, <1>1, <1>5, <1>7
<1> QED
  BY Zenon, <1>5, <1>7, <1>8, <1>9, <1>10, <1>11, <1>12 DEF PlanFor, plan1

\* What the tick of the leader decides.
LEMMA PlanIsSound ==
  ASSUME NEW s, StateSound(s), Apart(View(s)), NEW sizes, NEW reachable
  PROVE  PlanFor(ReconcileSegments(s, sizes, reachable, {}), s)
<1>1. CASE ~IsClosed(View(s))
  <2>1. /\ DOMAIN s.open = {Segment} /\ DOMAIN s.closed = {}
        /\ View(s) = s.open[Segment] /\ View(s) \in SegmentRec
    BY Zenon, <1>1, StateViewed
  <2>2. ReconcileSegments(s, sizes, reachable, {}) =
            ReconcileOpenSegment(s, NoPlan(s), Segment, sizes, reachable).cmds
    BY Zenon, <2>1, OneOpenSegment
  <2>3. HasOwner(s, s.open[Segment])
    BY Zenon, <2>1, SegmentOwned
  <2>4. CASE Alive(s, s.open[Segment].primary)
    BY Zenon, <1>1, <2>2, <2>3, <2>4, AlivePrimaryPlan DEF ReconcileOpenSegment
  <2>5. CASE ~Alive(s, s.open[Segment].primary)
    BY Zenon, <1>1, <2>1, <2>2, <2>3, <2>5, DeadPrimaryPlan DEF ReconcileOpenSegment
  <2> QED
    BY Zenon, <2>4, <2>5
<1>2. CASE IsClosed(View(s))
  <2>1. /\ DOMAIN s.open = {} /\ DOMAIN s.closed = {Segment}
        /\ View(s) = s.closed[Segment] /\ View(s) \in SegmentRec
    BY Zenon, <1>2, StateViewed
  <2>2. ReconcileSegments(s, sizes, reachable, {}) =
            ReconcileClosedSegment(s, NoPlan(s), Segment, {}).cmds
    BY <2>1, OneClosedSegment
  <2>3. HasOwner(s, s.closed[Segment]) /\ s.closed[Segment].type # OFFSET_COMMITS
    BY Zenon, <2>1, SegmentOwned
  <2>4. ~Expired(s, Segment, {})
    BY Zenon DEF Expired
  <2>5. ReconcileClosedSegment(s, NoPlan(s), Segment, {}) =
            ReconcileClosedReplicas(s, NoPlan(s), Segment)
    BY Zenon, <2>3, <2>4 DEF ReconcileClosedSegment
  <2> QED
    BY Zenon, <1>2, <2>2, <2>5, ClosedPlan
<1> QED
  BY Zenon, <1>1, <1>2
-----------------------------------------------------------------------------
(* The leader and its reconciler. *)

\* The leader decides.
LEMMA LeaderTickStep ==
  ASSUME RepInv, LeaderTick
  PROVE  RepInv'
<1> DEFINE sizes == [n \in Nodes |-> IF file[n] = NoFile THEN -1 ELSE Len(file[n])]
<1>1. /\ UNCHANGED <<MaxSize, state, sealed, local, behind, handled, file, task, closing,
                     chosen, published, acked, up, failed, cut>>
      /\ plan' = ReconcileSegments(state, sizes, up, {})
  BY Zenon DEF LeaderTick, copies
<1> HIDE DEF sizes
<1>2. RepType /\ CopiesSound /\ TasksSound /\ FailedKnown /\ Driven
  BY Zenon DEF RepInv
<1>3. Quiet
  BY Zenon, <1>1, <1>2, FilesSame DEF Quiet
<1>4. RepType'
  BY Zenon, <1>1, <1>2 DEF RepType
<1>5. TasksSound' /\ Driven' /\ FailedKnown'
  BY <1>1, <1>2 DEF TasksSound, TaskOk, Driven, Closed, IsReplica, FailedKnown
<1>6. PlanSound'
  <2>1. StateSound(state) /\ Apart(View(state))
    BY Zenon, <1>2 DEF RepType, CopiesSound
  <2>2. PlanFor(ReconcileSegments(state, sizes, up, {}), state)
    BY Zenon, <2>1, PlanIsSound
  <2> QED
    BY Zenon, <1>1, <2>2 DEF PlanSound
<1>7. /\ CopiesSound' /\ ClosingSound' /\ SealedFull' /\ PrimarySound'
      /\ ChosenSound' /\ AckedSound' /\ DoneExact'
  BY Zenon, <1>1, <1>3, CalmStep
<1> QED
  BY Zenon, <1>4, <1>5, <1>6, <1>7 DEF RepInv
-----------------------------------------------------------------------------
(* The commands that change the segment. *)

\* SegmentReplicaClose: a replica becomes done.
LEMMA ReplicaClosedStep ==
  ASSUME RepInv, NEW n \in Nodes, NEW kind \in Kinds, TaskCloses(n, kind)
  PROVE  RepInv'
<1> DEFINE old == View(state)
           done == Append(Minus(old.done, <<n>>), n)
           replicating == Minus(old.replicating, <<n>>)
<1>1. /\ UNCHANGED <<MaxSize, sealed, plan, local, handled, file, closing,
                     chosen, published, acked, up, failed, cut>>
      /\ At(n, kind, "close") /\ plan = <<>> /\ Closed /\ task[n][kind].held = sealed
      /\ state' = Do(state, ReplicaClosed(state, n, Segment)) /\ behind' = Nodes
      /\ task' = [task EXCEPT ![n][kind] = NoTask]
  BY Zenon DEF TaskCloses, Intact, Apply
<1>2. RepType /\ CopiesSound /\ TasksSound /\ PrimarySound /\ ClosingSound /\ AckedSound
      /\ ChosenSound /\ DoneExact /\ SealedFull
  BY Zenon DEF RepInv
<1>3. StateSound(state) /\ IsClosed(View(state))
  BY Zenon, <1>1, <1>2 DEF RepType, Closed
<1>4. old = state.closed[Segment] /\ old \in SegmentRec
  BY Zenon, <1>3, StateViewed
<1>5. old.done \in Seq(Nodes) /\ old.replicating \in Seq(Nodes)
  BY Zenon, <1>4 DEF SegmentRec
<1>6. ReplicaClosed(state, n, Segment) = UpdateClosedNodes(Segment, done, replicating)
  BY Zenon, <1>4 DEF ReplicaClosed
<1> HIDE DEF old
<1>7. Range(<<n>>) = {n}
  BY DEF Range
<1>8. /\ Minus(old.done, <<n>>) \in Seq(Nodes)
      /\ Range(Minus(old.done, <<n>>)) = Range(old.done) \ {n}
      /\ old.done # <<>> /\ old.done[1] # n =>
             Minus(old.done, <<n>>) # <<>> /\ Minus(old.done, <<n>>)[1] = old.done[1]
      /\ replicating \in Seq(Nodes)
      /\ Range(replicating) = Range(old.replicating) \ {n}
  BY <1>5, <1>7, MinusFacts
<1>9. /\ done \in Seq(Nodes) /\ Range(done) = Range(old.done) \cup {n}
      /\ old.done # <<>> /\ old.done[1] # n => done # <<>> /\ done[1] = old.done[1]
  <2> DEFINE kept == Minus(old.done, <<n>>)
  <2>1. kept \in Seq(Nodes) /\ <<n>> \in Seq(Nodes) /\ done = kept \o <<n>>
    BY <1>8
  <2>2. kept # <<>> => done # <<>> /\ done[1] = kept[1]
    BY <1>8
  <2> HIDE DEF kept, done
  <2>3. done \in Seq(Nodes) /\ Range(done) = Range(kept) \cup Range(<<n>>)
    BY ZenonT(30), <2>1, CatFacts
  <2> QED
    BY Zenon, <1>7, <1>8, <2>2, <2>3 DEF kept
<1> HIDE DEF done, replicating
<1>10. /\ StateSound(state') /\ state'.nodes = state.nodes
       /\ IsClosed(View(state')) /\ View(state').done = done
       /\ View(state').replicating = replicating /\ Closed'
  <2>1. state' = Do(state, UpdateClosedNodes(Segment, done, replicating))
    BY Zenon, <1>1, <1>6
  <2>2. done \in Seq(Nodes) /\ replicating \in Seq(Nodes)
    BY Zenon, <1>8, <1>9
  <2>3. /\ StateSound(state') /\ state'.nodes = state.nodes
        /\ IsClosed(View(state')) /\ View(state').done = done
        /\ View(state').replicating = replicating
    BY <1>3, <2>1, <2>2, ClosedNodesUpdated
  <2> QED
    BY Zenon, <2>3 DEF Closed
<1>11. Apart(View(state'))
  <2>1. Range(replicating) \subseteq Nodes /\ NoNode \notin Nodes
    BY Zenon, <1>8, RangeFacts, ReplicationAssumption
  <2>2. Range(old.done) \cap Range(old.replicating) = {}
    BY Zenon, <1>2 DEF CopiesSound, Apart, old
  <2> QED
    BY Zenon, <1>8, <1>9, <1>10, <2>1, <2>2 DEF Apart, IsClosed
<1>12. TaskSet(n, kind, NoTask)
  BY Zenon, <1>1, <1>2, OneTask
<1>13. RepType'
  BY Zenon, <1>1, <1>2, <1>10, <1>12 DEF RepType, TaskSet
<1>14. CopiesSound' /\ FailedKnown' /\ PlanSound' /\ Driven'
  BY Zenon, <1>1, <1>10, <1>11, AppliedStep
<1>15. TasksSound'
  <2>1. \A m \in Nodes : \A k \in Kinds : TaskFollows(m, k)
    BY Zenon, <1>12 DEF TaskFollows, TaskSet
  <2>2. FilesGrow
    BY Zenon, <1>1, <1>2, FilesSame
  <2> QED
    BY Zenon, <1>1, <1>2, <1>13, <2>1, <2>2, TasksStep
<1>16. ClosingSound' /\ AckedSound' /\ SealedFull' /\ ChosenSound'
  BY Zenon, <1>1, <1>2, <1>10
     DEF ClosingSound, ClosingOk, AckedSound, AckedOk, SealedFull, ChosenSound, PublisherOk
<1>17. IsClosed(local[n]) /\ (n \in cut \/ file[n] = sealed)
  <2>1. task[n][kind] # NoTask /\ task[n][kind].pc = "close"
    BY Zenon, <1>1, <1>2, TaskFacts
  <2>2. TaskOk(n, kind, task[n][kind]) /\ Len(sealed) >= MaxSize
    BY Zenon, <1>1, <1>2 DEF TasksSound, SealedFull
  <2> QED
    BY Zenon, <1>1, <2>1, <2>2 DEF TaskOk
\* Who takes itself for the primary is not the replica.
<1>18. PrimarySound'
  <2> SUFFICES ASSUME NEW m \in Nodes, local[m].primary = m, m \notin failed
               PROVE  done # <<>> /\ done[1] = m
    BY Zenon, <1>1, <1>10 DEF PrimarySound
  <2>1. m # n
    BY Zenon, <1>17, ReplicationAssumption DEF IsClosed
  <2>2. old.done # <<>> /\ old.done[1] = m
    BY Zenon, <1>1, <1>2 DEF PrimarySound, old
  <2> QED
    BY Zenon, <1>9, <2>1, <2>2
<1>19. DoneExact'
  BY Zenon, <1>1, <1>2, <1>9, <1>10, <1>17 DEF DoneExact, IsDone, old
<1> QED
  BY Zenon, <1>13, <1>14, <1>15, <1>16, <1>18, <1>19 DEF RepInv
-----------------------------------------------------------------------------
(* The invariant. *)

\* The segment as it was opened.
LEMMA InitRep ==
  ASSUME Init
  PROVE  RepInv
<1>1. /\ StateSound(Opened) /\ Apart(View(Opened)) /\ ~IsClosed(View(Opened))
      /\ \A n \in Nodes : Alive(Opened, n)
  BY Zenon, OpenedFacts
<1>2. View(Opened) \in SegmentRec /\ View(Opened).done = <<>> /\ Range(<<>>) = {}
  BY <1>1, StateViewed DEF Range
<1>3. /\ MaxSize \in Nat \ {0} /\ state = Opened /\ sealed = <<>> /\ plan = <<>>
      /\ local = [n \in Nodes |-> View(Opened)] /\ behind = {}
      /\ handled = [n \in Nodes |-> FALSE] /\ file = [n \in Nodes |-> NoFile]
      /\ task = [n \in Nodes |-> [kind \in Kinds |-> NoTask]]
      /\ closing = [n \in Nodes |-> NoClosing] /\ chosen = {} /\ published = 0 /\ acked = {}
      /\ up = Nodes /\ failed = {} /\ cut = {}
  BY Zenon, ReplicationAssumption DEF Init
<1>4. NoClosing \in ClosingRec /\ <<>> \in Seq(Message)
  <2>1. <<>> \in Seq(Message) /\ {} \in SUBSET Message
    OBVIOUS
  <2> QED
    BY Zenon, <2>1 DEF NoClosing, ClosingRec
<1>5. RepType
  <2>1. StateSound(state) /\ sealed \in Seq(Message) /\ local \in [Nodes -> SegmentRec]
    BY Zenon, <1>1, <1>2, <1>3, <1>4
  <2>2. /\ handled \in [Nodes -> BOOLEAN] /\ file \in [Nodes -> Seq(Message) \cup {NoFile}]
        /\ task \in [Nodes -> [Kinds -> TaskRec \cup {NoTask}]]
        /\ closing \in [Nodes -> ClosingRec]
    BY Zenon, <1>3, <1>4
  <2> QED
    BY Zenon, <1>3, <2>1, <2>2 DEF RepType
<1>6. ~Closed /\ CopiesSound
  BY Zenon, <1>1, <1>3 DEF CopiesSound, Closed
<1>7. TasksSound /\ PlanSound /\ ClosingSound
  BY Zenon, <1>3 DEF TasksSound, TaskOk, PlanSound, PlanFor, ClosingSound, ClosingOk
<1>8. SealedFull /\ FailedKnown /\ AckedSound /\ Driven
  BY Zenon, <1>1, <1>3, <1>6 DEF SealedFull, FailedKnown, AckedSound, Driven
<1>9. PrimarySound /\ ChosenSound
  BY Zenon, <1>3, <1>6 DEF PrimarySound, ChosenSound
<1>10. DoneExact
  BY Zenon, <1>2, <1>3 DEF DoneExact, IsDone
<1> QED
  BY Zenon, <1>5, <1>6, <1>7, <1>8, <1>9, <1>10 DEF RepInv

\* Nothing happens.
LEMMA StutterRep ==
  ASSUME RepInv, UNCHANGED vars
  PROVE  RepInv'
<1>1. /\ UNCHANGED <<MaxSize, state, sealed, plan, local, behind, handled, file, task, closing,
                     chosen, published, acked, up, failed, cut>>
  BY Zenon DEF vars, leader, copies
<1>2. RepType /\ TasksSound /\ FailedKnown /\ Driven
  BY Zenon DEF RepInv
<1>3. Quiet
  BY Zenon, <1>1, <1>2, FilesSame DEF Quiet
<1>4. RepType' /\ FailedKnown'
  BY Zenon, <1>1, <1>2 DEF RepType, FailedKnown
<1>5. TasksSound' /\ Driven'
  BY <1>1, <1>2 DEF TasksSound, TaskOk, Driven, Closed, IsReplica
<1> QED
  BY Zenon, <1>1, <1>3, <1>4, <1>5, QuietInv

\* The steps of a replication.
LEMMA TaskRep ==
  ASSUME RepInv, NEW n \in Nodes, NEW kind \in Kinds, TaskStep(n, kind)
  PROVE  RepInv'
<1>1. \/ TaskCompares(n, kind) \/ TaskTruncates(n, kind) \/ TaskReceives(n, kind)
      \/ TaskWrites(n, kind) \/ TaskSums(n, kind)
      \/ TaskBreaks(n, kind) \/ TaskRefused(n, kind) \/ TaskCloses(n, kind)
  BY Zenon DEF TaskStep
<1> QED
  BY Zenon, <1>1, ComparesStep, TruncatesStep, ReceivesStep, WritesStep, SumsStep, BreaksStep,
     ReplicaClosedStep

\* Every step keeps the invariant.
LEMMA NextRep ==
  ASSUME RepInv, [Next]_vars
  PROVE  RepInv'
<1>1. CASE LeaderTick \/ LeaderApplies \/ LeaderLost
  BY Zenon, <1>1, LeaderTickStep, OpenApplies, ClosedApplies, LeaderLostStep
<1>2. ASSUME NEW n \in Nodes,
             Publish(n) \/ MemberEvent(n) \/ Crash(n) \/ Restart(n) \/ Suspect(n)
      PROVE  RepInv'
  BY Zenon, <1>2, PublishStep, StatusStep, CrashStep, RestartStep
<1>3. ASSUME NEW n \in Nodes, NodeStep(n)
      PROVE  RepInv'
  <2>1. CASE PublishCloses(n)
    BY Zenon, <2>1, SegmentClosedStep, NotClosedStep
  <2>2. CASE Learn(n) \/ Tick(n)
    BY Zenon, <2>2, LearnStep, TickStep
  <2>3. CASE \E kind \in Kinds : TaskStep(n, kind)
    BY Zenon, <2>3, TaskRep
  <2> QED
    BY Zenon, <1>3, <2>1, <2>2, <2>3 DEF NodeStep
<1>4. CASE UNCHANGED vars
  BY Zenon, <1>4, StutterRep
<1> QED
  BY Zenon, <1>1, <1>2, <1>3, <1>4 DEF Next

\* RepInv is an invariant of the replication.
THEOREM RepInvariant == Spec => []RepInv
<1>1. Init => RepInv
  BY Zenon, InitRep
<1>2. RepInv /\ [Next]_vars => RepInv'
  BY Zenon, NextRep
<1> QED
  BY <1>1, <1>2, PTL DEF Spec

\* A node that the leader counts among the done ones has the content that was
\* closed, byte for byte, unless a replication truncated its file late.
THEOREM DoneNodesAreExact == Spec => []DoneExact
<1>1. RepInv => DoneExact
  BY Zenon DEF RepInv
<1> QED
  BY <1>1, RepInvariant, PTL

\* A message whose Publish succeeded stays in the segment, open on its primary or
\* closed, as long as the node that took it does not fail.
THEOREM AckedMessagesAreKept == Spec => []AckedKept
<1>1. ASSUME RepInv PROVE AckedKept
  <2> SUFFICES ASSUME NEW m \in acked, m[1] \notin failed \cup cut
               PROVE  m \in Range(IF Closed THEN sealed
                                  ELSE OpenFile(state.open[Segment].primary))
    BY Zenon DEF AckedKept
  <2>1. AckedOk(m)
    BY Zenon, <1>1 DEF RepInv, AckedSound
  <2>2. ~Closed => View(state) = state.open[Segment]
    BY Zenon, <1>1, StateViewed DEF RepInv, RepType, Closed
  <2> QED
    BY Zenon, <2>1, <2>2 DEF AckedOk, OpenFile
<1> QED
  BY <1>1, RepInvariant, PTL

\* A replica of a closed segment is never forgotten and never waits for its source:
\* the Loop of its node has yet to look at the state, or a replication is under
\* way that can go on.
THEOREM ReplicasAreDriven == Spec => []ReplicasDriven
<1>1. ASSUME RepInv PROVE ReplicasDriven
  <2> SUFFICES ASSUME NEW n \in up, Closed, IsReplica(n), n \notin behind, handled[n]
               PROVE  task[n]["closed"] # NoTask /\ ~Blocked(task[n]["closed"])
    BY Zenon DEF ReplicasDriven
  <2> DEFINE t == task[n]["closed"]
  <2>1. n \in Nodes /\ "closed" \in Kinds
    BY Zenon, <1>1 DEF RepInv, RepType, Kinds
  <2>2. t # NoTask
    BY Zenon, <1>1, <2>1 DEF RepInv, Driven
  <2>3. t \in TaskRec /\ TaskOk(n, "closed", t)
    BY <1>1, <2>1, <2>2 DEF RepInv, RepType, TasksSound
  <2>4. t.src \in Nodes /\ t.size \in Nat /\ t.end \in Nat
    BY Zenon, <2>3 DEF TaskRec
  <2> HIDE DEF t
  <2>5. t.pc = "copy" /\ t.valid =>
            file[t.src] # NoFile /\ t.end <= Len(file[t.src])
    BY Zenon, <2>2, <2>3 DEF TaskOk
  <2>6. file[t.src] # NoFile => Len(file[t.src]) \in Nat
    BY <1>1, <2>4 DEF RepInv, RepType
  <2>7. ~Blocked(t)
    BY <2>4, <2>5, <2>6 DEF Blocked
  <2> QED
    BY Zenon, <2>2, <2>7 DEF t
<1> QED
  BY <1>1, RepInvariant, PTL
=============================================================================
