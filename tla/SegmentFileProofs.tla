--------------------------- MODULE SegmentFileProofs ---------------------------
(***************************************************************************)
(* Proofs about SegmentFile, for any messages, any number of readers and   *)
(* every size of the file.                                                 *)
(***************************************************************************)
EXTENDS SegmentFile, SequenceTheorems, TLAPS

Iterator ==
    [start : Nat, term : Nat, offset : Nat, endOffset : Nat,
     wait : BOOLEAN, closed : BOOLEAN]

FileType ==
    /\ disk \in Seq(Data \cup Pieces)
    /\ stored \in Seq(Data)
    /\ opened \in BOOLEAN
    /\ offset \in Nat /\ term \in Nat
    /\ it \in [Readers -> Iterator]
    /\ got \in [Readers -> Seq(Data)]
    /\ pc \in [Readers -> {"none", "idle", "reading", "locking", "preparing",
                           "waiting", "ended"}]

(* An open file holds what was written.  One that is closed may hold a     *)
(* piece of one more message.                                              *)
DiskHolds ==
    IF opened THEN disk = stored /\ offset = Len(disk)
    ELSE disk = stored \/ \E piece \in Pieces : disk = Append(stored, piece)

(* The iterator is in use, and nothing has cut the file since it was made. *)
Reads(r) == pc[r] \notin {"none", "ended"} /\ it[r].term = term

(* Iterators are of this term or an earlier one, of an earlier one if the  *)
(* file was closed after they were made.                                   *)
TermsPassed ==
    \A r \in Readers : pc[r] \notin {"none", "ended"} =>
        it[r].term <= term /\ (it[r].term = term => opened)

(* A reader of this term is inside of its section.                         *)
SectionsSound ==
    \A r \in Readers :
        /\ pc[r] = "none" => got[r] = <<>>
        /\ Reads(r) =>
            /\ it[r].start <= it[r].offset
            /\ it[r].offset <= it[r].endOffset
            /\ it[r].endOffset <= Len(disk)
            /\ got[r] = SubSeq(disk, it[r].start + 1, it[r].offset)

(* Who waits, or is about to with the mutex in its hands, is up to date.   *)
Waits == \A r \in Readers : pc[r] \in {"preparing", "waiting"} => UpToDate(r)

FileInv == FileType /\ DiskHolds /\ TermsPassed /\ SectionsSound /\ Waits

-----------------------------------------------------------------------------
(* Sequences.                                                              *)

(* What was read of a file stays as it is when the file grows.             *)
LEMMA SectionOfLonger ==
    ASSUME NEW S, NEW s \in Seq(S), NEW e \in S, NEW m \in Nat, NEW n \in Nat, n <= Len(s)
    PROVE  SubSeq(Append(s, e), m + 1, n) = SubSeq(s, m + 1, n)
  <1> DEFINE a == SubSeq(Append(s, e), m + 1, n)
             b == SubSeq(s, m + 1, n)
  <1>1. \A i \in (m + 1)..n : s[i] \in S /\ Append(s, e)[i] = s[i]
    BY AppendProperties, ElementOfSeq, LenProperties
  <1>2. /\ a \in Seq(S) /\ b \in Seq(S)
        /\ Len(a) = Len(b)
        /\ \A i \in 1..(n - m) : a[i] = Append(s, e)[m + i] /\ b[i] = s[m + i]
        /\ Len(a) = IF m + 1 <= n THEN n - m ELSE 0
    BY <1>1, SubSeqProperties
  <1>3. \A i \in 1..Len(a) : a[i] = b[i]
    BY <1>1, <1>2
  <1> QED
    BY Zenon, <1>2, <1>3, SeqEqual

(* Reading on appends the next message.                                    *)
LEMMA SectionReadOn ==
    ASSUME NEW S, NEW s \in Seq(S), NEW m \in Nat, NEW n \in Nat, m <= n, n < Len(s)
    PROVE  SubSeq(s, m + 1, n + 1) = Append(SubSeq(s, m + 1, n), s[n + 1])
  <1>1. s[n + 1] \in S /\ \A i \in (m + 1)..n : s[i] \in S
    BY ElementOfSeq, LenProperties
  <1>2. SubSeq(s, m + 1, n) \in Seq(S)
    BY <1>1, SubSeqProperties
  <1>3. SubSeq(s, m + 1, n + 1) = SubSeq(s, m + 1, n) \o <<s[n + 1]>>
    <2>1. m + 1 \in 1..Len(s) /\ n + 1 \in (m + 1)..Len(s) /\ (n + 1) - 1 = n
      BY LenProperties
    <2> QED
      BY Zenon, <2>1, SubSeqRecursiveSecond
  <1> QED
    BY Zenon, <1>1, <1>2, <1>3, AppendIsConcat

(* A prefix is of the same type, and as long as it says.                   *)
LEMMA PrefixType ==
    ASSUME NEW S, NEW s \in Seq(S), NEW n \in 0..Len(s)
    PROVE  SubSeq(s, 1, n) \in Seq(S) /\ Len(SubSeq(s, 1, n)) = n
  <1>1. \A i \in 1..n : s[i] \in S
    BY ElementOfSeq, LenProperties
  <1> QED
    BY <1>1, SubSeqProperties, LenProperties

(* Open finds the messages before an incomplete one.                       *)
LEMMA ScannedIsStored ==
    ASSUME disk \in Seq(Data \cup Pieces), stored \in Seq(Data),
           disk = stored \/ \E piece \in Pieces : disk = Append(stored, piece)
    PROVE  Scanned = stored
  <1> DEFINE Whole(n) == /\ \A k \in 1..n : disk[k] \notin Pieces
                         /\ n < Len(disk) => disk[n + 1] \in Pieces
  <1>1. stored \in Seq(Data \cup Pieces)
    BY Zenon, SeqMonotonic
  <1>2. /\ Len(stored) \in Nat /\ Len(disk) \in Nat
        /\ \A k \in 1..Len(stored) : stored[k] \in Data
    BY Zenon, LenProperties, ElementOfSeq
  <1>3. /\ \/ Len(disk) = Len(stored)
           \/ Len(disk) = Len(stored) + 1 /\ disk[Len(stored) + 1] \in Pieces
        /\ \A k \in 1..Len(stored) : disk[k] = stored[k]
    <2>1. CASE disk = stored
      BY Zenon, <2>1
    <2>2. ASSUME NEW piece \in Pieces, disk = Append(stored, piece) PROVE <1>3
      BY <1>1, <1>2, <2>2, AppendProperties
    <2> QED
      BY Zenon, <2>1, <2>2
  <1>4. \A d \in Data : d \notin Pieces
    BY Zenon, FileAssumption DEF Pieces
  <1>5. \A n \in 0..Len(disk) : Whole(n) <=> n = Len(stored)
    BY <1>2, <1>3, <1>4
  <1> HIDE DEF Whole
  <1>6. (CHOOSE n \in 0..Len(disk) : Whole(n)) = Len(stored)
    BY <1>2, <1>3, <1>5
  <1>7. Scanned = SubSeq(disk, 1, Len(stored))
    BY Zenon, <1>6 DEF Scanned, Whole
  <1>8. SubSeq(disk, 1, Len(stored)) = SubSeq(stored, 1, Len(stored))
    <2>1. CASE disk = stored
      BY Zenon, <2>1
    <2>2. ASSUME NEW piece \in Pieces, disk = Append(stored, piece) PROVE <1>8
      BY <1>1, <1>2, <2>2, SectionOfLonger, 0 + 1 = 1
    <2> QED
      BY Zenon, <2>1, <2>2
  <1> QED
    BY Zenon, <1>7, <1>8, SubSeqFull

-----------------------------------------------------------------------------
(* What the steps keep, part by part.                                      *)

\* A broadcast leaves no reader asleep, and moves nobody else.
LEMMA WakeFacts ==
    ASSUME FileType
    PROVE  /\ Wake(pc) \in [Readers -> {"none", "idle", "reading", "locking", "preparing",
                                        "waiting", "ended"}]
           /\ \A r \in Readers :
                /\ Wake(pc)[r] # "waiting"
                /\ Wake(pc)[r] \in {"none", "ended", "preparing"} <=>
                       pc[r] \in {"none", "ended", "preparing"}
                /\ \A p \in {"none", "ended", "preparing"} : Wake(pc)[r] = p <=> pc[r] = p
  BY Zenon DEF Wake, FileType

\* The file as it is created.
LEMMA InitFile == Init => FileInv
  <1> SUFFICES ASSUME Init PROVE FileInv
    OBVIOUS
  <1> USE DEF Init
  <1>1. FileType
    BY Zenon, EmptySeq DEF FileType, Iterator, NoIterator
  <1>2. DiskHolds
    BY Zenon DEF DiskHolds
  <1>3. TermsPassed /\ SectionsSound /\ Waits
    BY Zenon DEF TermsPassed, SectionsSound, Reads, Waits
  <1> QED
    BY Zenon, <1>1, <1>2, <1>3 DEF FileInv

(* Types.                                                                  *)
LEMMA TypeStep ==
    ASSUME FileInv, [Next]_vars
    PROVE  FileType'
  <1> USE DEF FileInv
  <1>1. ASSUME NEW d \in Data, Write(d) PROVE FileType'
    <2>1. disk' \in Seq(Data \cup Pieces) /\ stored' \in Seq(Data)
      BY Zenon, <1>1, AppendProperties DEF Write, FileType
    <2> QED
      BY <1>1, <2>1, WakeFacts DEF Write, FileType
  <1>2. ASSUME NEW n \in 0..MaxSize, Truncate(n) PROVE FileType'
    <2>1. n \in 0..Len(disk) /\ n \in 0..Len(stored)
      BY <1>2, FileAssumption DEF Truncate, DiskHolds, FileType
    <2>2. disk' \in Seq(Data \cup Pieces) /\ stored' \in Seq(Data)
      BY Zenon, <1>2, <2>1, PrefixType DEF Truncate, FileType
    <2> QED
      BY <1>2, <2>2, WakeFacts, FileAssumption DEF Truncate, NextTerm, FileType
  <1>3. CASE Close
    <2>1. opened' \in BOOLEAN
      BY Zenon, <1>3 DEF Close
    <2>2. /\ term' \in Nat
          /\ UNCHANGED <<disk, offset, stored, it, got>>
          /\ pc' = Wake(pc)
      BY <1>3 DEF Close, NextTerm, FileType
    <2> QED
      BY Zenon, <2>1, <2>2, WakeFacts DEF FileType
  <1>4. CASE Crash
    <2>1. \A piece \in Pieces : Append(disk, piece) \in Seq(Data \cup Pieces)
      BY Zenon, AppendProperties DEF FileType
    <2>2. disk' \in Seq(Data \cup Pieces)
      BY Zenon, <1>4, <2>1 DEF Crash, FileType
    <2> QED
      BY Zenon, <1>4, <2>2, EmptySeq DEF Crash, FileType, Iterator, NoIterator
  <1>5. CASE Open
    <2>1. Scanned = stored
      BY Zenon, <1>5, ScannedIsStored DEF Open, DiskHolds, FileType
    <2>2. stored \in Seq(Data \cup Pieces) /\ Len(stored) \in Nat
      BY Zenon, SeqMonotonic, LenProperties DEF FileType
    <2> QED
      BY Zenon, <1>5, <2>1, <2>2, EmptySeq DEF Open, FileType, Iterator, NoIterator
  <1>6. ASSUME NEW r \in Readers, NEW o \in 0..MaxSize, NEW wait \in BOOLEAN, ReadAt(r, o, wait)
        PROVE  FileType'
    BY <1>6, FileAssumption DEF ReadAt, FileType, Iterator, fileVars
  <1>7. ASSUME NEW r \in Readers, NextRead(r) PROVE FileType'
    <2>1. PICK d \in Data \cup {NoData} :
            IF d = NoData
            THEN /\ pc' = [pc EXCEPT ![r] = "ended"]
                 /\ it' = [it EXCEPT ![r].closed = TRUE]
                 /\ UNCHANGED got
            ELSE /\ pc' = [pc EXCEPT ![r] = "idle"]
                 /\ it' = [it EXCEPT ![r].offset = @ + 1]
                 /\ got' = [got EXCEPT ![r] = Append(@, d)]
      BY Zenon, <1>7 DEF NextRead
    <2>2. CASE d = NoData
      <3>1. [it[r] EXCEPT !.closed = TRUE] \in Iterator
        BY Zenon DEF FileType, Iterator
      <3> QED
        BY Zenon, <1>7, <2>1, <2>2, <3>1 DEF NextRead, FileType, fileVars
    <2>3. CASE d # NoData
      <3>1. Append(got[r], d) \in Seq(Data)
        BY Zenon, <2>3, AppendProperties DEF FileType
      <3>2. it' \in [Readers -> Iterator]
        <4>1. it[r].offset + 1 \in Nat
          BY DEF FileType, Iterator
        <4>2. [it[r] EXCEPT !.offset = it[r].offset + 1] \in Iterator
          BY Zenon, <4>1 DEF FileType, Iterator
        <4>3. it' = [it EXCEPT ![r] = [it[r] EXCEPT !.offset = it[r].offset + 1]]
          BY Zenon, <2>1, <2>3
        <4> QED
          BY Zenon, <4>2, <4>3 DEF FileType
      <3>3. got' \in [Readers -> Seq(Data)]
        BY Zenon, <2>1, <2>3, <3>1 DEF FileType
      <3> QED
        BY Zenon, <1>7, <2>1, <2>3, <3>2, <3>3 DEF NextRead, FileType, fileVars
    <2> QED
      BY Zenon, <2>2, <2>3
  <1>8. ASSUME NEW r \in Readers,
               \/ NextEnter(r) \/ NextEof(r) \/ NextWaitLock(r)
               \/ NextCheck(r) \/ NextWait(r) \/ NextContinue(r)
        PROVE  FileType'
    <2>1. /\ [it[r] EXCEPT !.closed = TRUE] \in Iterator
          /\ [it[r] EXCEPT !.endOffset = offset] \in Iterator
      BY Zenon DEF FileType, Iterator
    <2>2. CASE NextContinue(r)
      BY Zenon, <2>1, <2>2 DEF NextContinue, FileType, fileVars
    <2>3. CASE NextEof(r)
      BY Zenon, <2>1, <2>3 DEF NextEof, FileType, fileVars
    <2> QED
      BY Zenon, <1>8, <2>2, <2>3 DEF NextEnter, NextWaitLock, NextCheck, NextWait, FileType, fileVars
  <1>9. ASSUME NEW r \in Readers, CloseIterator(r) PROVE FileType'
    <2>1. [it[r] EXCEPT !.closed = TRUE] \in Iterator
      BY Zenon DEF FileType, Iterator
    <2> QED
      BY Zenon, <1>9, <2>1, WakeFacts DEF CloseIterator, FileType, fileVars
  <1>10. CASE UNCHANGED vars
    BY Zenon, <1>10 DEF vars, fileVars, FileType
  <1> QED
    BY Zenon, <1>1, <1>2, <1>3, <1>4, <1>5, <1>6, <1>7, <1>8, <1>9, <1>10 DEF Next, NextStep

(* Only an open file is written or cut, and Open leaves what was stored.   *)
LEMMA DiskStep ==
    ASSUME FileInv, [Next]_vars
    PROVE  DiskHolds'
  <1> USE DEF FileInv
  <1>1. ASSUME NEW d \in Data, Write(d) PROVE DiskHolds'
    BY <1>1, AppendProperties DEF Write, DiskHolds, FileType
  <1>2. ASSUME NEW n \in 0..MaxSize, Truncate(n) PROVE DiskHolds'
    <2>1. n \in 0..Len(disk)
      BY <1>2, FileAssumption DEF Truncate, DiskHolds, FileType
    <2>2. Len(SubSeq(disk, 1, n)) = n
      BY Zenon, <2>1, PrefixType DEF FileType
    <2> QED
      BY Zenon, <1>2, <2>2 DEF Truncate, DiskHolds
  <1>3. CASE Close \/ Crash
    BY Zenon, <1>3 DEF Close, Crash, DiskHolds
  <1>4. CASE Open
    <2>1. Scanned = stored
      BY Zenon, <1>4, ScannedIsStored DEF Open, DiskHolds, FileType
    <2> QED
      BY Zenon, <1>4, <2>1 DEF Open, DiskHolds
  <1>5. ASSUME UNCHANGED fileVars PROVE DiskHolds'
    BY Zenon, <1>5 DEF fileVars, DiskHolds
  <1> QED
    BY Zenon, <1>1, <1>2, <1>3, <1>4, <1>5
       DEF Next, NextStep, vars, ReadAt, NextEnter, NextRead, NextEof, NextWaitLock,
           NextCheck, NextWait, NextContinue, CloseIterator

(* An iterator is made in the term of an open file; terms only grow while  *)
(* iterators are in use.                                                   *)
LEMMA TermsStep ==
    ASSUME FileInv, [Next]_vars
    PROVE  TermsPassed'
  <1> USE DEF FileInv
  <1>1. ASSUME NEW d \in Data, Write(d) PROVE TermsPassed'
    BY Zenon, <1>1, WakeFacts DEF Write, TermsPassed
  <1>2. CASE Close \/ \E n \in 0..MaxSize : Truncate(n)
    <2>1. term' = term + 1 /\ pc' = Wake(pc) /\ UNCHANGED it
      BY Zenon, <1>2 DEF Close, Truncate, NextTerm
    <2> QED
      BY <2>1, WakeFacts DEF TermsPassed, FileType, Iterator
  <1>3. CASE Crash \/ Open
    BY Zenon, <1>3 DEF Crash, Open, TermsPassed
  <1>4. ASSUME NEW r \in Readers, NEW o \in 0..MaxSize, NEW wait \in BOOLEAN, ReadAt(r, o, wait)
        PROVE  TermsPassed'
    BY <1>4 DEF ReadAt, FileType, Iterator, fileVars, TermsPassed
  <1>5. ASSUME NEW r \in Readers, NextStep(r) \/ CloseIterator(r) PROVE TermsPassed'
    <2>1. /\ UNCHANGED <<term, opened>>
          /\ \/ UNCHANGED it
             \/ it' = [it EXCEPT ![r].closed = TRUE]
             \/ it' = [it EXCEPT ![r].offset = @ + 1]
             \/ it' = [it EXCEPT ![r].endOffset = offset]
      BY Zenon, <1>5 DEF NextStep, NextEnter, NextRead, NextEof, NextWaitLock, NextCheck, NextWait,
                  NextContinue, CloseIterator, fileVars
    <2>3. \A q \in Readers : it'[q].term = it[q].term
      <3>1. CASE UNCHANGED it
        BY Zenon, <3>1
      <3>2. CASE it' = [it EXCEPT ![r].closed = TRUE]
        BY Zenon, <3>2 DEF FileType, Iterator
      <3>3. CASE it' = [it EXCEPT ![r].offset = @ + 1]
        BY Zenon, <3>3 DEF FileType, Iterator
      <3>4. CASE it' = [it EXCEPT ![r].endOffset = offset]
        BY Zenon, <3>4 DEF FileType, Iterator
      <3> QED
        BY Zenon, <2>1, <3>1, <3>2, <3>3, <3>4
    <2>2. \A q \in Readers : pc'[q] \notin {"none", "ended"} => pc[q] \notin {"none", "ended"}
      BY Zenon, <1>5, WakeFacts DEF NextStep, NextEnter, NextRead, NextEof, NextWaitLock, NextCheck,
                  NextWait, NextContinue, CloseIterator, FileType
    <2> QED
      BY Zenon, <2>1, <2>2, <2>3 DEF TermsPassed
  <1>6. CASE UNCHANGED vars
    BY Zenon, <1>6 DEF vars, fileVars, TermsPassed
  <1> QED
    BY Zenon, <1>1, <1>2, <1>3, <1>4, <1>5, <1>6 DEF Next

(* Who waits is told of every change: of the end of the file, which only a *)
(* writer without a preparing reader changes, and of the term.             *)
LEMMA WaitsStep ==
    ASSUME FileInv, [Next]_vars
    PROVE  Waits'
  <1> USE DEF FileInv
  <1>1. CASE \/ \E d \in Data : Write(d)
             \/ \E n \in 0..MaxSize : Truncate(n)
             \/ Close
    <2>1. pc' = Wake(pc) /\ MutexFree
      BY Zenon, <1>1 DEF Write, Truncate, Close
    <2> QED
      BY Zenon, <2>1, WakeFacts DEF MutexFree, Waits
  <1>2. CASE Crash \/ Open
    BY Zenon, <1>2 DEF Crash, Open, Waits
  <1>3. ASSUME NEW r \in Readers, NEW o \in 0..MaxSize, NEW wait \in BOOLEAN, ReadAt(r, o, wait)
        PROVE  Waits'
    BY Zenon, <1>3 DEF ReadAt, FileType, fileVars, Waits, UpToDate
  <1>4. ASSUME NEW r \in Readers, NextStep(r) PROVE Waits'
    <2>1. UNCHANGED <<term, offset>>
          /\ \A q \in Readers \ {r} : it'[q] = it[q] /\ pc'[q] = pc[q]
      BY Zenon, <1>4 DEF NextStep, NextEnter, NextRead, NextEof, NextWaitLock, NextCheck, NextWait,
                  NextContinue, FileType, fileVars
    <2>2. pc'[r] \in {"preparing", "waiting"} => UpToDate(r) /\ it'[r] = it[r]
      BY Zenon, <1>4 DEF NextStep, NextEnter, NextRead, NextEof, NextWaitLock, NextCheck, NextWait,
                  NextContinue, FileType, Waits
    <2> QED
      BY Zenon, <2>1, <2>2 DEF Waits, UpToDate
  <1>5. ASSUME NEW r \in Readers, CloseIterator(r) PROVE Waits'
    <2>1. UNCHANGED <<term, offset>>
          /\ \A q \in Readers : it'[q].term = it[q].term /\ it'[q].endOffset = it[q].endOffset
      BY Zenon, <1>5 DEF CloseIterator, FileType, Iterator, fileVars
    <2> QED
      BY Zenon, <1>5, <2>1, WakeFacts DEF CloseIterator, Waits, UpToDate
  <1>6. CASE UNCHANGED vars
    BY Zenon, <1>6 DEF vars, fileVars, Waits, UpToDate
  <1> QED
    BY Zenon, <1>1, <1>2, <1>3, <1>4, <1>5, <1>6 DEF Next

(* A section is read in order and is not cut while its iterator is of the  *)
(* file's term.                                                            *)
LEMMA SectionsStep ==
    ASSUME FileInv, [Next]_vars
    PROVE  SectionsSound'
  <1> USE DEF FileInv
  <1>1. ASSUME NEW d \in Data, Write(d) PROVE SectionsSound'
    <2> SUFFICES ASSUME NEW q \in Readers
                 PROVE  /\ pc'[q] = "none" => got'[q] = <<>>
                        /\ Reads(q)' =>
                            /\ it[q].start <= it[q].offset
                            /\ it[q].offset <= it[q].endOffset
                            /\ it[q].endOffset <= Len(disk')
                            /\ got[q] = SubSeq(disk', it[q].start + 1, it[q].offset)
      BY Zenon, <1>1 DEF Write, SectionsSound
    <2>1. (pc'[q] = "none" => pc[q] = "none") /\ (Reads(q)' => Reads(q))
      BY Zenon, <1>1, WakeFacts DEF Write, Reads
    <2>2. disk' = Append(disk, d) /\ Len(disk') = Len(disk) + 1 /\ d \in Data \cup Pieces
      BY <1>1, AppendProperties DEF Write, FileType
    <2>3. it[q].start \in Nat /\ it[q].offset \in Nat /\ it[q].endOffset \in Nat /\ Len(disk) \in Nat
      BY Zenon, LenProperties DEF FileType, Iterator
    <2>4. \A m, n \in Nat : n <= Len(disk) =>
            SubSeq(disk', m + 1, n) = SubSeq(disk, m + 1, n)
      <3>1. disk \in Seq(Data \cup Pieces)
        BY Zenon DEF FileType
      <3> QED
        BY <2>2, <3>1, SectionOfLonger
    <2>5. /\ pc[q] = "none" => got[q] = <<>>
          /\ Reads(q) =>
              /\ it[q].start <= it[q].offset
              /\ it[q].offset <= it[q].endOffset
              /\ it[q].endOffset <= Len(disk)
              /\ got[q] = SubSeq(disk, it[q].start + 1, it[q].offset)
      BY Zenon DEF SectionsSound
    <2>6. UNCHANGED got
      BY Zenon, <1>1 DEF Write
    <2> QED
      BY SMTT(30), <2>1, <2>2, <2>3, <2>4, <2>5, <2>6
  <1>2. CASE Close \/ \E n \in 0..MaxSize : Truncate(n)
    <2>1. term' = term + 1 /\ pc' = Wake(pc) /\ UNCHANGED <<it, got>>
      BY Zenon, <1>2 DEF Close, Truncate, NextTerm
    <2>2. \A q \in Readers : ~Reads(q)'
      BY <2>1, WakeFacts DEF TermsPassed, FileType, Iterator, Reads
    <2> QED
      BY Zenon, <2>1, <2>2, WakeFacts DEF SectionsSound
  <1>3. CASE Crash \/ Open
    BY Zenon, <1>3 DEF Crash, Open, SectionsSound, Reads
  <1>4. ASSUME NEW r \in Readers, NEW o \in 0..MaxSize, NEW wait \in BOOLEAN, ReadAt(r, o, wait)
        PROVE  SectionsSound'
    <2>1. SubSeq(disk, o + 1, o) = <<>>
      <3>1. o \in Nat
        BY FileAssumption
      <3>2. \A i \in (o + 1)..o : disk[i] \in Data \cup Pieces
        BY <3>1
      <3>3. SubSeq(disk, o + 1, o) \in Seq(Data \cup Pieces) /\ Len(SubSeq(disk, o + 1, o)) = 0
        BY <3>1, <3>2, SubSeqProperties
      <3> QED
        BY Zenon, <3>3, EmptySeq
    <2>2. offset = Len(disk)
      BY Zenon, <1>4 DEF ReadAt, DiskHolds
    <2> QED
      BY SMTT(30), <1>4, <2>1, <2>2, FileAssumption DEF ReadAt, FileType, Iterator, fileVars, SectionsSound, Reads
  <1>5. ASSUME NEW r \in Readers, NextRead(r) PROVE SectionsSound'
    <2>1. UNCHANGED fileVars
          /\ \A q \in Readers \ {r} : it'[q] = it[q] /\ pc'[q] = pc[q] /\ got'[q] = got[q]
      BY Zenon, <1>5 DEF NextRead, FileType
    <2>2. PICK d \in Data \cup {NoData} :
            /\ it[r].term = term => d = disk[it[r].offset + 1]
            /\ IF d = NoData
               THEN /\ pc' = [pc EXCEPT ![r] = "ended"]
                    /\ it' = [it EXCEPT ![r].closed = TRUE]
                    /\ UNCHANGED got
               ELSE /\ pc' = [pc EXCEPT ![r] = "idle"]
                    /\ it' = [it EXCEPT ![r].offset = @ + 1]
                    /\ got' = [got EXCEPT ![r] = Append(@, d)]
      BY Zenon, <1>5 DEF NextRead
    <2>3. pc'[r] # "none" /\ (Reads(r)' => d # NoData)
      BY Zenon, <2>2 DEF FileType, Reads
    <2>4. ASSUME Reads(r)'
          PROVE  /\ it'[r].start <= it'[r].offset
                 /\ it'[r].offset <= it'[r].endOffset
                 /\ it'[r].endOffset <= Len(disk)
                 /\ got'[r] = SubSeq(disk, it'[r].start + 1, it'[r].offset)
      <3>1. /\ it'[r].start = it[r].start
            /\ it'[r].term = it[r].term
            /\ it'[r].offset = it[r].offset + 1
            /\ it'[r].endOffset = it[r].endOffset
            /\ got'[r] = Append(got[r], d)
        BY <2>2, <2>3, <2>4 DEF FileType, Iterator
      <3>2. Reads(r) /\ d = disk[it[r].offset + 1]
        BY Zenon, <1>5, <2>1, <2>2, <2>4, <3>1 DEF NextRead, Reads, fileVars
      <3>3. it[r].start \in Nat /\ it[r].offset \in Nat /\ it[r].endOffset \in Nat /\ Len(disk) \in Nat
        BY Zenon, LenProperties DEF FileType, Iterator
      <3>4. it[r].start <= it[r].offset /\ it[r].offset < it[r].endOffset /\ it[r].endOffset <= Len(disk)
        BY Zenon, <1>5, <3>2, <3>3 DEF NextRead, SectionsSound
      <3>5. SubSeq(disk, it[r].start + 1, it[r].offset + 1)
                = Append(SubSeq(disk, it[r].start + 1, it[r].offset), disk[it[r].offset + 1])
        <4>1. disk \in Seq(Data \cup Pieces)
          BY Zenon DEF FileType
        <4>2. \A m, n \in Nat : m <= n /\ n < Len(disk) =>
                SubSeq(disk, m + 1, n + 1) = Append(SubSeq(disk, m + 1, n), disk[n + 1])
          BY Zenon, <4>1, SectionReadOn
        <4>3. it[r].offset < Len(disk)
          BY <3>3, <3>4
        <4> QED
          BY Zenon, <3>3, <3>4, <4>2, <4>3
      <3>6. got[r] = SubSeq(disk, it[r].start + 1, it[r].offset)
        BY Zenon, <3>2 DEF SectionsSound
      <3>7. got'[r] = SubSeq(disk, it[r].start + 1, it[r].offset + 1)
        BY Zenon, <3>1, <3>2, <3>5, <3>6
      <3>8. /\ it'[r].start <= it'[r].offset
            /\ it'[r].offset <= it'[r].endOffset
            /\ it'[r].endOffset <= Len(disk)
        BY <3>1, <3>3, <3>4
      <3>9. got'[r] = SubSeq(disk, it'[r].start + 1, it'[r].offset)
        BY Zenon, <3>1, <3>7
      <3> QED
        BY Zenon, <3>8, <3>9
    <2> QED
      BY Zenon, <2>1, <2>3, <2>4 DEF SectionsSound, Reads, fileVars
  <1>6. ASSUME NEW r \in Readers,
               \/ NextEnter(r) \/ NextEof(r) \/ NextWaitLock(r)
               \/ NextCheck(r) \/ NextWait(r)
        PROVE  SectionsSound'
    <2>1. UNCHANGED <<fileVars, got>>
          /\ \A q \in Readers \ {r} : it'[q] = it[q] /\ pc'[q] = pc[q]
      BY Zenon, <1>6 DEF NextEnter, NextEof, NextWaitLock, NextCheck, NextWait, FileType
    <2>2. /\ pc'[r] # "none"
          /\ pc'[r] # "ended" => pc[r] \notin {"none", "ended"} /\ it'[r] = it[r]
      BY Zenon, <1>6 DEF NextEnter, NextEof, NextWaitLock, NextCheck, NextWait, FileType
    <2> QED
      BY Zenon, <2>1, <2>2 DEF SectionsSound, Reads, fileVars
  <1>7. ASSUME NEW r \in Readers, NextContinue(r) PROVE SectionsSound'
    <2>1. UNCHANGED <<fileVars, got>>
          /\ \A q \in Readers \ {r} : it'[q] = it[q] /\ pc'[q] = pc[q]
      BY Zenon, <1>7 DEF NextContinue, FileType
    <2>2. /\ pc'[r] # "none"
          /\ it'[r].start = it[r].start /\ it'[r].offset = it[r].offset /\ it'[r].term = it[r].term
          /\ pc'[r] # "ended" => pc[r] = "locking" /\ it'[r].endOffset = offset
      BY <1>7 DEF NextContinue, FileType, Iterator
    <2>3. Reads(r)' => Reads(r) /\ offset = Len(disk)
      BY Zenon, <2>1, <2>2 DEF Reads, fileVars, TermsPassed, DiskHolds
    <2>4. it[r].offset \in Nat /\ it[r].endOffset \in Nat /\ Len(disk) \in Nat
      BY Zenon, LenProperties DEF FileType, Iterator
    <2> QED
      BY SMTT(30), <2>1, <2>2, <2>3, <2>4 DEF SectionsSound, Reads, fileVars
  <1>8. ASSUME NEW r \in Readers, CloseIterator(r) PROVE SectionsSound'
    <2>1. UNCHANGED <<fileVars, got>>
          /\ \A q \in Readers :
                /\ it'[q].start = it[q].start /\ it'[q].offset = it[q].offset
                /\ it'[q].endOffset = it[q].endOffset /\ it'[q].term = it[q].term
      BY Zenon, <1>8 DEF CloseIterator, FileType, Iterator
    <2>2. \A q \in Readers : (pc'[q] = "none" <=> pc[q] = "none") /\ (pc'[q] = "ended" <=> pc[q] = "ended")
      BY Zenon, <1>8, WakeFacts DEF CloseIterator
    <2> QED
      BY Zenon, <2>1, <2>2 DEF SectionsSound, Reads, fileVars
  <1>9. CASE UNCHANGED vars
    BY Zenon, <1>9 DEF vars, fileVars, SectionsSound, Reads
  <1> QED
    BY Zenon, <1>1, <1>2, <1>3, <1>4, <1>5, <1>6, <1>7, <1>8, <1>9 DEF Next, NextStep

-----------------------------------------------------------------------------
(* The invariant holds in every state: what an open file holds is what was *)
(* written, and readers of its term are inside of it.                      *)
THEOREM FileInvariant == Spec => []FileInv
  <1>1. FileInv /\ [Next]_vars => FileInv'
    BY Zenon, TypeStep, DiskStep, TermsStep, SectionsStep, WaitsStep DEF FileInv
  <1> QED
    BY InitFile, <1>1, PTL DEF Spec

(* Whatever crashes happen, and wherever a write was cut, the messages     *)
(* File.Write accepted are a prefix of the file, and all of it once Open   *)
(* has scanned it.                                                         *)
THEOREM WritesSurvive == Spec => []StoredExactly
  <1>1. FileInv => StoredExactly
    <2> SUFFICES ASSUME FileInv PROVE StoredExactly
      OBVIOUS
    <2>1. IsPrefix(stored, disk)
      <3>1. disk = stored \/ \E piece \in Pieces : disk = Append(stored, piece)
        BY Zenon DEF FileInv, DiskHolds
      <3>2. stored \in Seq(Data \cup Pieces) /\ Len(stored) \in Nat
        BY Zenon, SeqMonotonic, LenProperties DEF FileInv, FileType
      <3>3. Len(stored) <= Len(disk) /\ \A i \in 1..Len(stored) : disk[i] = stored[i]
        BY <3>1, <3>2, AppendProperties
      <3> QED
        BY <3>2, <3>3 DEF IsPrefix
    <2> QED
      BY Zenon, <2>1 DEF FileInv, DiskHolds, StoredExactly
  <1> QED
    BY <1>1, FileInvariant, PTL

(* An iterator of the file's term has returned the messages from its start *)
(* on, each once, whatever writers and other iterators did meanwhile.      *)
THEOREM IterationIsFaithful == Spec => []IteratorFaithful
  <1>1. FileInv => IteratorFaithful
    <2> SUFFICES ASSUME FileInv, NEW r \in Readers, Reads(r)
                 PROVE  /\ it[r].endOffset <= Len(disk)
                        /\ it[r].offset = it[r].start + Len(got[r])
                        /\ got[r] = SubSeq(disk, it[r].start + 1, it[r].offset)
      BY Zenon DEF IteratorFaithful, Reads
    <2> DEFINE m == it[r].start
               n == it[r].offset
    <2>1. m \in Nat /\ n \in Nat /\ Len(disk) \in Nat /\ it[r].endOffset \in Nat
          /\ disk \in Seq(Data \cup Pieces)
      BY Zenon, LenProperties DEF FileInv, FileType, Iterator
    <2>2. m <= n /\ n <= it[r].endOffset /\ it[r].endOffset <= Len(disk)
          /\ got[r] = SubSeq(disk, m + 1, n)
      BY Zenon DEF FileInv, SectionsSound
    <2>3. Len(SubSeq(disk, m + 1, n)) = n - m
      <3>1. \A i \in (m + 1)..n : disk[i] \in Data \cup Pieces
        BY <2>1, <2>2, ElementOfSeq
      <3>2. Len(SubSeq(disk, m + 1, n)) = IF m + 1 <= n THEN n - (m + 1) + 1 ELSE 0
        BY <2>1, <3>1, SubSeqProperties
      <3> QED
        BY <2>1, <2>2, <3>2
    <2> QED
      BY <2>1, <2>2, <2>3
  <1> QED
    BY <1>1, FileInvariant, PTL

(* No wakeup of an iterator that waits is lost: between the check of the   *)
(* loop and Cond.Wait nobody else has the mutex.                           *)
THEOREM NoWakeupIsLost == Spec => []WaitJustified
  <1>1. FileInv => WaitJustified
    BY Zenon DEF FileInv, Waits, WaitJustified
  <1> QED
    BY <1>1, FileInvariant, PTL

=============================================================================
