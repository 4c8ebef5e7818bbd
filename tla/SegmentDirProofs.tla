--------------------------- MODULE SegmentDirProofs ---------------------------
(***************************************************************************)
(* ReferencesCounted and PlacedDataKept of SegmentDir, for any number of   *)
(* segments, goroutines, messages, commits and restarts.                   *)
(*                                                                         *)
(* The inductive invariant adds two facts.  What the cluster places on     *)
(* this node while garbage is collected is in the snapshot, or in          *)
(* `missed'.  And a segment that is not placed here counts no messages, so *)
(* that it begins with none when it is placed here again.                  *)
(***************************************************************************)
EXTENDS SegmentDir, FiniteSetTheorems, TLAPS

DirType ==
    /\ states \in Seq(SUBSET Ids) /\ states # <<>>
    /\ applied \in 1 .. Len(states)
    /\ file \in [Ids -> Nat \cup {NoFile}]
    /\ rc \in [Ids -> Nat \cup {NotOpened}]
    /\ idle \in [Ids -> BOOLEAN]
    /\ userPc \in [Users -> {"idle", "opening", "using"}]
    /\ using \in [Users -> Ids \cup {NoSegment}]
    /\ \A u \in Users : userPc[u] # "idle" => using[u] \in Ids
    /\ stored \in [Ids -> Nat]
    /\ gcPc \in {"idle", "listing"}

Snapshot ==
    gcPc = "listing" => \A id \in Placed \ missed : id \in active

AllInFile ==
    /\ \A id \in Ids \ Placed : stored[id] = 0
    /\ \A id \in Placed \ missed : stored[id] = 0 \/ file[id] >= stored[id]

DirInv == DirType /\ ReferencesCounted /\ Snapshot /\ AllInFile

-----------------------------------------------------------------------------
(* The users of a file are finitely many, and none exactly if there are    *)
(* zero of them.                                                           *)
LEMMA UsersFinite ==
    ASSUME NEW id \in Ids
    PROVE  /\ IsFiniteSet(UsersOf(id))
           /\ Cardinality(UsersOf(id)) \in Nat
           /\ Cardinality(UsersOf(id)) = 0 <=> UsersOf(id) = {}
  <1>1. UsersOf(id) \subseteq Users
    BY Zenon DEF UsersOf
  <1>2. IsFiniteSet(UsersOf(id))
    BY Zenon, <1>1, FS_Subset, DirAssumption
  <1> QED
    BY Zenon, <1>2, FS_CardinalityType, FS_EmptySet

(* Whoever starts to use the file is one more, whoever releases it one     *)
(* less; the other files keep theirs.                                      *)
LEMMA UsersOneMore ==
    ASSUME DirType, NEW u \in Users, userPc[u] = "opening",
           userPc' = [userPc EXCEPT ![u] = "using"], using' = using
    PROVE  /\ Cardinality(UsersOf(using[u])') = Cardinality(UsersOf(using[u])) + 1
           /\ UsersOf(using[u])' # {}
           /\ \A id \in Ids \ {using[u]} : UsersOf(id)' = UsersOf(id)
  <1>1. using[u] \in Ids
    BY Zenon DEF DirType
  <1>2. UsersOf(using[u])' = UsersOf(using[u]) \cup {u} /\ u \notin UsersOf(using[u])
    BY Zenon DEF UsersOf, DirType
  <1>3. \A id \in Ids \ {using[u]} : UsersOf(id)' = UsersOf(id)
    BY Zenon DEF UsersOf, DirType
  <1> QED
    BY Zenon, <1>1, <1>2, <1>3, UsersFinite, FS_AddElement

\* A user who releases a file is one user less.
LEMMA UsersOneLess ==
    ASSUME DirType, NEW u \in Users, userPc[u] = "using", NEW id \in Ids, using[u] = id,
           NEW pc, pc # "using", userPc' = [userPc EXCEPT ![u] = pc],
           NEW other, using' = [using EXCEPT ![u] = other]
    PROVE  /\ Cardinality(UsersOf(id)') = Cardinality(UsersOf(id)) - 1
           /\ UsersOf(id) # {}
           /\ \A x \in Ids \ {id} : UsersOf(x)' = UsersOf(x)
  <1>1. userPc'[u] = pc /\ \A v \in Users \ {u} : userPc'[v] = userPc[v] /\ using'[v] = using[v]
    BY Zenon DEF DirType
  <1>2. UsersOf(id)' = UsersOf(id) \ {u} /\ u \in UsersOf(id)
    BY Zenon, <1>1 DEF UsersOf
  <1>3. \A x \in Ids \ {id} : UsersOf(x)' = UsersOf(x)
    BY Zenon, <1>1 DEF UsersOf
  <1>4. Cardinality(UsersOf(id) \ {u}) = Cardinality(UsersOf(id)) - 1
    BY Zenon, <1>2, UsersFinite, FS_RemoveElement
  <1> QED
    BY Zenon, <1>2, <1>3, <1>4

(* A file that is closed or removed has no users. *)
LEMMA UnusedHasNoUsers ==
    ASSUME DirType, ReferencesCounted, NEW id \in Ids, rc[id] <= 0
    PROVE  UsersOf(id) = {}
  <1>1. rc[id] \in Nat \cup {-1}
    BY Zenon DEF DirType, NotOpened
  <1> QED
    BY <1>1, UsersFinite DEF ReferencesCounted, Opened, NotOpened
-----------------------------------------------------------------------------
\* The directory as it is opened.
LEMMA InitDir == Init => DirInv
  <1> SUFFICES ASSUME Init PROVE DirInv
    OBVIOUS
  <1>1. DirType
    <2>1. states \in Seq(SUBSET Ids) /\ states # <<>> /\ applied \in 1 .. Len(states)
      BY DEF Init
    <2> QED
      BY Zenon, <2>1 DEF Init, DirType, NoFile, NotOpened
  <1>2. \A id \in Ids : UsersOf(id) = {}
    BY Zenon DEF Init, UsersOf
  <1>3. ReferencesCounted
    BY Zenon, <1>2 DEF Init, ReferencesCounted, Opened, NotOpened
  <1>4. Placed = {}
    BY DEF Init, Placed
  <1> QED
    BY Zenon, <1>1, <1>3, <1>4 DEF Init, DirInv, Snapshot, AllInFile

(* What a commit leaves placed on this node. *)
LEMMA PlacedNow ==
    ASSUME DirType
    PROVE  /\ Placed \subseteq Ids
           /\ \A id \in Ids : Placed \cup {id} \in SUBSET Ids /\ Placed \ {id} \in SUBSET Ids
           /\ \A id \in Ids : Place(id) => Placed' = Placed \cup {id}
           /\ \A id \in Ids : Displace(id) => Placed' = Placed \ {id}
           /\ states' = states => Placed' = Placed
  <1>1. Len(states) \in 1 .. Len(states)
    BY DEF DirType
  <1>2. Placed \subseteq Ids
    BY <1>1 DEF DirType, Placed
  <1>3. ASSUME NEW S \in SUBSET Ids, states' = Append(states, S) PROVE Placed' = S
    BY <1>3 DEF DirType, Placed
  <1>4. states' = states => Placed' = Placed
    BY DEF Placed
  <1>5. \A id \in Ids : Placed \cup {id} \in SUBSET Ids /\ Placed \ {id} \in SUBSET Ids
    BY <1>2
  <1>6. ASSUME NEW id \in Ids, Place(id) PROVE Placed' = Placed \cup {id}
    <2> DEFINE S == Placed \cup {id}
    <2>1. S \in SUBSET Ids /\ states' = Append(states, S)
      BY Zenon, <1>5, <1>6 DEF Place
    <2> HIDE DEF S
    <2>2. Placed' = S
      BY Zenon, <1>3, <2>1
    <2> QED
      BY Zenon, <2>2 DEF S
  <1>7. ASSUME NEW id \in Ids, Displace(id) PROVE Placed' = Placed \ {id}
    <2> DEFINE S == Placed \ {id}
    <2>1. S \in SUBSET Ids /\ states' = Append(states, S)
      BY Zenon, <1>5, <1>7 DEF Displace
    <2> HIDE DEF S
    <2>2. Placed' = S
      BY Zenon, <1>3, <2>1
    <2> QED
      BY Zenon, <2>2 DEF S
  <1> QED
    BY Zenon, <1>2, <1>4, <1>5, <1>6, <1>7

\* Every step keeps the types.
LEMMA TypeStep == DirInv /\ [Next]_vars => DirType'
  <1> SUFFICES ASSUME DirInv, [Next]_vars PROVE DirType'
    OBVIOUS
  <1> USE DEF DirInv, DirType, NoFile, NotOpened
  <1>1. ASSUME NEW id \in Ids, Place(id) \/ Displace(id) PROVE DirType'
    <2>1. PICK S \in SUBSET Ids : states' = Append(states, S)
      BY Zenon, <1>1, PlacedNow DEF Place, Displace
    <2>2. /\ states' \in Seq(SUBSET Ids) /\ states' # <<>>
          /\ applied \in 1 .. Len(states')
      BY <2>1
    <2>3. stored' \in [Ids -> Nat] /\ applied' = applied
      BY <1>1 DEF Place, Displace, dirVars, userVars, gcVars
    <2> QED
      BY Zenon, <1>1, <2>2, <2>3 DEF Place, Displace, dirVars, userVars, gcVars
  <1>2. CASE Apply
    <2>1. applied' \in 1 .. Len(states')
      BY <1>2 DEF Apply
    <2> QED
      BY Zenon, <1>2, <2>1 DEF Apply, dirVars, userVars, gcVars, history
  <1>3. ASSUME NEW id \in Ids, CloseIdle(id) PROVE DirType'
    BY Zenon, <1>3 DEF CloseIdle, stateVars, userVars, gcVars, history
  <1>4. ASSUME NEW u \in Users, NEW id \in Ids, Choose(u, id) PROVE DirType'
    BY Zenon, <1>4 DEF Choose, Opens, stateVars, dirVars, gcVars, history
  <1>5. ASSUME NEW u \in Users, Open(u) PROVE DirType'
    <2>1. using[u] \in Ids
      BY Zenon, <1>5 DEF Open
    <2>2. file' \in [Ids -> Nat \cup {NoFile}] /\ rc' \in [Ids -> Nat \cup {NotOpened}]
      BY <1>5, <2>1 DEF Open, Opening
    <2> QED
      BY Zenon, <1>5, <2>1, <2>2 DEF Open, stateVars, gcVars, history
  <1>6. ASSUME NEW u \in Users, Write(u) PROVE DirType'
    <2>1. using[u] \in Ids /\ file[using[u]] \in Nat
      BY Zenon, <1>6 DEF Write, ReferencesCounted, UsersOf
    <2>2. file' \in [Ids -> Nat \cup {NoFile}] /\ stored' \in [Ids -> Nat]
      BY <1>6, <2>1 DEF Write
    <2> QED
      BY Zenon, <1>6, <2>2 DEF Write, stateVars, userVars, gcVars
  <1>7. ASSUME NEW u \in Users, userPc[u] = "using", Releasing(using[u])
        PROVE  rc' \in [Ids -> Nat \cup {NotOpened}] /\ idle' \in [Ids -> BOOLEAN]
    <2>1. using[u] \in Ids /\ UsersOf(using[u]) # {}
      BY Zenon, <1>7 DEF UsersOf
    <2>2. rc[using[u]] \in Nat /\ rc[using[u]] # 0
      BY Zenon, <2>1, UsersFinite DEF ReferencesCounted, Opened
    <2> QED
      BY <1>7, <2>1, <2>2 DEF Releasing
  <1>8. ASSUME NEW u \in Users, Release(u) PROVE DirType'
    BY Zenon, <1>7, <1>8 DEF Release, Releasing, stateVars, gcVars, history
  <1>9. ASSUME NEW u \in Users, NEW id \in Ids, Rotate(u, id) PROVE DirType'
    BY Zenon, <1>7, <1>9 DEF Rotate, Opens, Releasing, stateVars, gcVars, history
  <1>10. CASE Gc
    BY Zenon, <1>10
       DEF Gc, GcStart, GcList, GcRemove, GcEnd, stateVars, dirVars, userVars, gcVars, history
  <1>11. CASE Restart
    <2>1. applied' \in 1 .. Len(states')
      BY <1>11 DEF Restart
    <2> QED
      BY Zenon, <1>11, <2>1 DEF Restart
  <1>12. CASE UNCHANGED vars
    BY Zenon, <1>12 DEF vars, stateVars, dirVars, userVars, gcVars, history
  <1> QED
    BY Zenon, <1>1, <1>2, <1>3, <1>4, <1>5, <1>6, <1>8, <1>9, <1>10, <1>11, <1>12 DEF Next

(* What a step that moves no user and no file leaves alone. *)
LEMMA CountsUnchanged ==
    ASSUME ReferencesCounted, UNCHANGED <<file, rc, idle, using>>,
           \A u \in Users : userPc'[u] = "using" <=> userPc[u] = "using"
    PROVE  ReferencesCounted'
  <1>1. \A id \in Ids : UsersOf(id)' = UsersOf(id)
    BY Zenon DEF UsersOf
  <1> QED
    BY Zenon, <1>1 DEF ReferencesCounted, Opened

(* A file without users may be closed, and removed. *)
LEMMA CountsClosed ==
    ASSUME DirType, ReferencesCounted, NEW id \in Ids, rc[id] <= 0,
           rc' = [rc EXCEPT ![id] = NotOpened], idle' = [idle EXCEPT ![id] = FALSE],
           \A x \in Ids \ {id} : file'[x] = file[x],
           UNCHANGED <<userPc, using>>
    PROVE  ReferencesCounted'
  <1>1. \A x \in Ids : UsersOf(x)' = UsersOf(x)
    BY Zenon DEF UsersOf
  <1>2. UsersOf(id) = {}
    BY Zenon, UnusedHasNoUsers
  <1> SUFFICES ASSUME NEW x \in Ids
               PROVE  /\ UsersOf(x)' # {} => file'[x] # NoFile
                      /\ IF rc'[x] # NotOpened
                         THEN rc'[x] = Cardinality(UsersOf(x)') /\ (idle'[x] <=> rc'[x] = 0)
                         ELSE UsersOf(x)' = {}
    BY Zenon DEF ReferencesCounted, Opened
  <1>3. CASE x = id
    BY Zenon, <1>1, <1>2, <1>3 DEF DirType
  <1>4. CASE x # id
    BY Zenon, <1>1, <1>4 DEF DirType, ReferencesCounted, Opened
  <1> QED
    BY Zenon, <1>3, <1>4

\* Every step keeps the reference counts equal to the numbers of users.
LEMMA CountsStep == DirInv /\ [Next]_vars => ReferencesCounted'
  <1> SUFFICES ASSUME DirInv, [Next]_vars PROVE ReferencesCounted'
    OBVIOUS
  <1> USE DEF DirInv
  <1>1. ASSUME NEW id \in Ids, Place(id) PROVE ReferencesCounted'
    BY Zenon, <1>1, CountsUnchanged DEF Place, dirVars, userVars
  <1>2. CASE Apply \/ \E id \in Ids : Displace(id)
    BY Zenon, <1>2, CountsUnchanged DEF Apply, Displace, dirVars, userVars
  <1>3. ASSUME NEW id \in Ids, CloseIdle(id) PROVE ReferencesCounted'
    <2>1. rc[id] <= 0
      BY <1>3 DEF CloseIdle, Closable, ReferencesCounted
    <2> QED
      BY Zenon, <1>3, <2>1, CountsClosed DEF CloseIdle, userVars
  <1>4. ASSUME NEW u \in Users, NEW id \in Ids, Choose(u, id) PROVE ReferencesCounted'
    <2>1. \A x \in Ids : UsersOf(x)' = UsersOf(x)
      BY Zenon, <1>4 DEF Choose, Opens, UsersOf, DirType
    <2> QED
      BY Zenon, <1>4, <2>1 DEF Choose, dirVars, ReferencesCounted, Opened
  <1>5. ASSUME NEW u \in Users, Open(u) PROVE ReferencesCounted'
    <2>1. PICK id \in Ids : id = using[u]
      BY Zenon, <1>5 DEF Open, DirType
    <2>2. /\ Cardinality(UsersOf(id)') = Cardinality(UsersOf(id)) + 1
          /\ UsersOf(id)' # {}
          /\ \A x \in Ids \ {id} : UsersOf(x)' = UsersOf(x)
      BY Zenon, <1>5, <2>1, UsersOneMore DEF Open
    <2>3. rc'[id] = Cardinality(UsersOf(id)) + 1 /\ rc'[id] # NotOpened /\ rc'[id] # 0
      <3>1. rc'[id] = Opening(id)
        BY Zenon, <1>5, <2>1 DEF Open, DirType
      <3>2. IF rc[id] = NotOpened THEN UsersOf(id) = {} ELSE rc[id] = Cardinality(UsersOf(id))
        BY Zenon DEF ReferencesCounted, Opened
      <3> QED
        BY <3>1, <3>2, UsersFinite DEF Opening, NotOpened
    <2>4. idle'[id] = FALSE /\ file'[id] # NoFile
      BY <1>5, <2>1 DEF Open, DirType, NoFile
    <2>5. \A x \in Ids \ {id} : file'[x] = file[x] /\ rc'[x] = rc[x] /\ idle'[x] = idle[x]
      BY Zenon, <1>5, <2>1 DEF Open, DirType
    <2> QED
      BY <2>1, <2>2, <2>3, <2>4, <2>5 DEF ReferencesCounted, Opened
  <1>6. ASSUME NEW u \in Users, Write(u) PROVE ReferencesCounted'
    <2>1. \A x \in Ids : UsersOf(x)' = UsersOf(x)
      BY Zenon, <1>6 DEF Write, userVars, UsersOf
    <2>2. using[u] \in Ids /\ file[using[u]] \in Nat
      BY Zenon, <1>6 DEF Write, ReferencesCounted, UsersOf, DirType
    <2>3. \A x \in Ids : file'[x] = NoFile => file[x] = NoFile
      BY <1>6, <2>2 DEF Write, DirType, NoFile
    <2> QED
      BY Zenon, <1>6, <2>1, <2>3 DEF Write, ReferencesCounted, Opened
  <1>7. ASSUME NEW u \in Users, userPc[u] = "using", Releasing(using[u]),
               NEW pc, pc # "using", userPc' = [userPc EXCEPT ![u] = pc],
               NEW other, using' = [using EXCEPT ![u] = other]
        PROVE  ReferencesCounted'
    <2>1. PICK id \in Ids : id = using[u]
      BY Zenon, <1>7 DEF DirType
    <2>2. /\ Cardinality(UsersOf(id)') = Cardinality(UsersOf(id)) - 1
          /\ UsersOf(id) # {}
          /\ \A x \in Ids \ {id} : UsersOf(x)' = UsersOf(x)
      BY Zenon, <1>7, <2>1, UsersOneLess
    <2>3. rc[id] = Cardinality(UsersOf(id)) /\ rc[id] \in Nat /\ rc[id] # 0 /\ file[id] # NoFile
      BY Zenon, <2>1, <2>2, UsersFinite DEF ReferencesCounted, Opened
    <2>4. rc'[id] = rc[id] - 1 /\ idle'[id] = (rc[id] <= 1) /\ file' = file
      BY Zenon, <1>7, <2>1 DEF Releasing, DirType
    <2>5. \A x \in Ids \ {id} : rc'[x] = rc[x] /\ idle'[x] = idle[x]
      BY Zenon, <1>7, <2>1 DEF Releasing, DirType
    <2>6. rc'[id] = Cardinality(UsersOf(id)') /\ rc'[id] # NotOpened
      BY <2>2, <2>3, <2>4 DEF NotOpened
    <2>7. idle'[id] <=> rc'[id] = 0
      <3>1. (rc[id] <= 1) <=> (rc'[id] = 0)
        BY <2>3, <2>4
      <3> QED
        BY <3>1, <2>4, Zenon
    <2> QED
      BY <2>1, <2>2, <2>3, <2>4, <2>5, <2>6, <2>7 DEF ReferencesCounted, Opened
  <1>8. ASSUME NEW id \in Ids, GcRemove(id) PROVE ReferencesCounted'
    <2>1. CASE Removable(id)
      BY Zenon, <1>8, <2>1, CountsClosed DEF GcRemove, Removable, userVars, DirType
    <2>2. CASE ~Removable(id)
      BY Zenon, <1>8, <2>2, CountsUnchanged DEF GcRemove, dirVars, userVars
    <2> QED
      BY Zenon, <2>1, <2>2
  <1>9. CASE GcStart \/ GcEnd \/ \E id \in Ids : GcList(id)
    BY Zenon, <1>9, CountsUnchanged DEF GcStart, GcEnd, GcList, dirVars, userVars
  <1>10. CASE Restart
    <2>1. \A x \in Ids : UsersOf(x)' = {}
      BY Zenon, <1>10 DEF Restart, UsersOf
    <2> QED
      BY Zenon, <1>10, <2>1 DEF Restart, ReferencesCounted, Opened
  <1>11. ASSUME NEW u \in Users, Release(u) PROVE ReferencesCounted'
    BY Zenon, <1>7, <1>11 DEF Release
  <1>12. ASSUME NEW u \in Users, NEW id \in Ids, Rotate(u, id) PROVE ReferencesCounted'
    BY Zenon, <1>7, <1>12 DEF Rotate, Opens
  <1>13. CASE UNCHANGED vars
    BY Zenon, <1>13, CountsUnchanged DEF vars, dirVars, userVars
  <1> QED
    BY Zenon, <1>1, <1>2, <1>3, <1>4, <1>5, <1>6, <1>8, <1>9, <1>10, <1>11, <1>12, <1>13 DEF Next, Gc

-----------------------------------------------------------------------------
(* What is placed here during a garbage collection, or was not yet known   *)
(* to the node when it began, goes to `missed'.                            *)
LEMMA SnapshotStep ==
    ASSUME DirInv, [Next]_vars
    PROVE  Snapshot'
  <1> USE DEF DirInv
  <1>1. ASSUME NEW i \in Ids, Place(i) PROVE Snapshot'
    <2>1. Placed' = Placed \cup {i}
      BY Zenon, <1>1, PlacedNow DEF Place
    <2> QED
      BY Zenon, <1>1, <2>1 DEF Place, Snapshot, gcVars
  <1>2. ASSUME NEW i \in Ids, Displace(i) PROVE Snapshot'
    <2>1. Placed' = Placed \ {i}
      BY Zenon, <1>2, PlacedNow DEF Displace
    <2> QED
      BY Zenon, <1>2, <2>1 DEF Displace, Snapshot, gcVars
  <1>3. CASE GcStart
    BY Zenon, <1>3, PlacedNow DEF GcStart, Snapshot, stateVars
  <1>4. ASSUME states' = states, missed' = missed, gcPc' = gcPc, active' = active
        PROVE  Snapshot'
    BY Zenon, <1>4, PlacedNow DEF Snapshot
  <1>5. CASE GcEnd \/ Restart
    BY Zenon, <1>5 DEF GcEnd, Restart, Snapshot
  <1> QED
    BY Zenon, <1>1, <1>2, <1>3, <1>4, <1>5
       DEF Next, Gc, Apply, CloseIdle, Choose, Open, Write, Release, Rotate, GcList, GcRemove,
           vars, stateVars, gcVars, history

(* A file grows with the messages that are counted, and none goes that the *)
(* snapshot of the garbage collection places here.                         *)
LEMMA AllInFileStep ==
    ASSUME DirInv, [Next]_vars
    PROVE  AllInFile'
  <1> USE DEF DirInv
  <1>1. ASSUME NEW i \in Ids, Place(i) PROVE AllInFile'
    <2>1. Placed' = Placed \cup {i} /\ i \notin Placed
      BY Zenon, <1>1, PlacedNow DEF Place
    <2> QED
      BY Zenon, <1>1, <2>1 DEF Place, AllInFile, dirVars
  <1>2. ASSUME NEW i \in Ids, Displace(i) PROVE AllInFile'
    <2>1. Placed' = Placed \ {i}
      BY Zenon, <1>2, PlacedNow DEF Displace
    <2>2. stored'[i] = 0 /\ \A x \in Ids \ {i} : stored'[x] = stored[x]
      BY Zenon, <1>2 DEF Displace, DirType
    <2>3. missed' = missed \ {i} /\ file' = file
      BY Zenon, <1>2 DEF Displace, dirVars
    <2>4. \A x \in Ids \ Placed' : stored'[x] = 0
      BY Zenon, <2>1, <2>2 DEF AllInFile
    <2>5. \A x \in Placed' \ missed' : x \in Ids \ {i} /\ x \in Placed \ missed
      BY Zenon, <2>1, <2>3, PlacedNow
    <2> QED
      BY Zenon, <2>2, <2>3, <2>4, <2>5 DEF AllInFile
  <1>3. ASSUME NEW u \in Users, Open(u) PROVE AllInFile'
    <2>1. PICK i \in Ids : i = using[u]
      BY Zenon, <1>3 DEF Open, DirType
    <2>2. /\ Placed' = Placed /\ missed' = missed /\ stored' = stored
          /\ file'[i] = IF file[i] = NoFile THEN 0 ELSE file[i]
          /\ \A x \in Ids \ {i} : file'[x] = file[x]
      BY Zenon, <1>3, <2>1, PlacedNow DEF Open, DirType, stateVars, history
    <2>3. file'[i] >= file[i]
      BY <2>1, <2>2 DEF DirType, NoFile
    <2>4. \A x \in Ids : stored[x] \in Nat /\ file[x] \in Int /\ file'[x] \in Int /\ file'[x] >= file[x]
      BY <2>2, <2>3 DEF DirType, NoFile
    <2> QED
      BY <2>2, <2>4, PlacedNow DEF AllInFile
  <1>4. ASSUME NEW u \in Users, Write(u) PROVE AllInFile'
    <2>1. PICK i \in Ids : i = using[u] /\ file[i] \in Nat
      BY Zenon, <1>4 DEF Write, ReferencesCounted, UsersOf, DirType
    <2>2. /\ Placed' = Placed /\ missed' = missed
          /\ file'[i] = file[i] + 1
          /\ \A x \in Ids \ {i} : file'[x] = file[x] /\ stored'[x] = stored[x]
          /\ stored'[i] = IF i \in Placed THEN stored[i] + 1 ELSE stored[i]
      BY Zenon, <1>4, <2>1, PlacedNow DEF Write, DirType, stateVars
    <2>3. stored[i] \in Nat
      BY DEF DirType
    <2>4. ASSUME i \in Placed \ missed PROVE file'[i] >= stored'[i]
      BY <2>1, <2>2, <2>3, <2>4 DEF AllInFile
    <2> QED
      BY Zenon, <2>2, <2>4, PlacedNow DEF AllInFile
  <1>5. ASSUME NEW i \in Ids, GcRemove(i) PROVE AllInFile'
    <2>1. Removable(i) => i \notin Placed \ missed
      BY Zenon, <1>5 DEF GcRemove, Removable, Snapshot
    <2>2. Placed' = Placed /\ missed' = missed /\ stored' = stored
      BY Zenon, <1>5, PlacedNow DEF GcRemove, stateVars, history
    <2>3. \A x \in Placed \ missed : file'[x] = file[x]
      BY Zenon, <1>5, <2>1, PlacedNow DEF GcRemove, dirVars, DirType
    <2> QED
      BY Zenon, <2>2, <2>3 DEF AllInFile
  <1>6. CASE GcStart
    BY Zenon, <1>6, PlacedNow DEF GcStart, AllInFile, stateVars, dirVars
  <1>7. CASE GcEnd \/ Restart
    <2>1. Placed' = Placed /\ missed' = Robbed /\ stored' = stored /\ file' = file
      BY Zenon, <1>7, PlacedNow DEF GcEnd, Restart, stateVars, dirVars
    <2>2. \A x \in Ids : file[x] \in Int /\ stored[x] \in Int
      BY DEF DirType, NoFile
    <2>3. \A x \in Placed \cap missed : x \notin Robbed => file[x] >= stored[x]
      BY <2>2, PlacedNow DEF Robbed
    <2> QED
      BY Zenon, <2>1, <2>3 DEF AllInFile
  <1>8. ASSUME states' = states, missed' = missed, file' = file, stored' = stored PROVE AllInFile'
    BY Zenon, <1>8, PlacedNow DEF AllInFile
  <1> QED
    BY Zenon, <1>1, <1>2, <1>3, <1>4, <1>5, <1>6, <1>7, <1>8
       DEF Next, Gc, Apply, CloseIdle, Choose, Release, Releasing, Rotate, GcList,
           vars, stateVars, dirVars, history

-----------------------------------------------------------------------------
(* The invariant holds of every behaviour.                                 *)
LEMMA DirInvariant == Spec => []DirInv
  <1>1. DirInv /\ [Next]_vars => DirInv'
    <2> SUFFICES ASSUME DirInv, [Next]_vars PROVE DirInv'
      OBVIOUS
    <2>1. DirType'
      BY Zenon, TypeStep DEF DirInv
    <2>2. ReferencesCounted'
      BY Zenon, CountsStep DEF DirInv
    <2> QED
      BY Zenon, <2>1, <2>2, SnapshotStep, AllInFileStep DEF DirInv
  <1> QED
    BY InitDir, <1>1, PTL DEF Spec

(* The reference count of a file is the number of goroutines that use it,  *)
(* for any number of files and goroutines: no interleaving of Open,        *)
(* Release, the idle timer, the garbage collection and restarts closes or  *)
(* removes a file in use.                                                  *)
THEOREM FilesInUseKept == Spec => []ReferencesCounted
  <1>1. DirInv => ReferencesCounted
    BY Zenon DEF DirInv
  <1> QED
    BY <1>1, DirInvariant, PTL

(* A segment that the cluster places on this node keeps every message that *)
(* was written to it, rotations to segments the node does not know of yet  *)
(* and restarts on an old state included, unless a garbage collection went *)
(* by a state of this node that did not have the segment: this is all the  *)
(* lag of the state behind server_loop.go:240 costs.                       *)
THEOREM PlacedSegmentsKept == Spec => []PlacedDataKept
  <1>1. DirInv => PlacedDataKept
    BY DEF DirInv, AllInFile, PlacedDataKept, DirType
  <1> QED
    BY <1>1, DirInvariant, PTL
=============================================================================
