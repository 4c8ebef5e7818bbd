------------------------------ MODULE SegmentFile ------------------------------
(***************************************************************************)
(* A segment file and its iterators: mq/segments/file.go and iterator.go.  *)
(*                                                                         *)
(* Writers append under File.mutex; Iterator.Next runs without it, except  *)
(* when it waits for more data.  The process may crash in the middle of a  *)
(* write: Open then finds a file that ends in an incomplete message.       *)
(* Offsets count messages, the version byte being offset 0.                *)
(***************************************************************************)
EXTENDS Integers, Sequences, SequencesExt

CONSTANTS
    Data,           \* contents of messages
    Readers,        \* goroutines with an iterator
    MaxSize,        \* messages that fill the file
    MaxTerm,        \* bound: terms of one opened file
    MaxCrashes,     \* bound: crashes of the process
    NoData          \* what a read of a truncated range yields

ASSUME FileAssumption ==
    /\ MaxSize \in Nat \ {0}
    /\ MaxTerm \in Nat
    /\ MaxCrashes \in Nat
    /\ NoData \notin Data
    /\ Data \cap {"length", "data"} = {}

VARIABLES
    disk,           \* the file: messages, the last of which may be incomplete
    opened,         \* whether a File exists for it
    offset, term,   \* File.offset, File.term
    pc,             \* where the goroutine of an iterator is
    it,             \* the Iterator structs
    got,            \* history: the messages an iterator has returned
    stored,         \* history: the messages Write has accepted
    crashes

fileVars == <<disk, opened, offset, term, stored, crashes>>
vars == <<fileVars, pc, it, got>>

\* What a crash may leave of a message: a part of its length, or its length and a
\* part of its data.
Pieces == {"length", "data"}

NoIterator == [start |-> 0, term |-> 0, offset |-> 0, endOffset |-> 0,
               wait |-> FALSE, closed |-> FALSE]

\* Only a goroutine between its last check and Cond.Wait holds the mutex for
\* longer than one step.
MutexFree == \A r \in Readers : pc[r] # "preparing"

\* Mutant of Wake: nobody is notified.
WakeNobody(p) == p

\* sync.Cond.Broadcast reaches the goroutines that are on the notify list.
Wake(p) == [r \in Readers |-> IF p[r] = "waiting" THEN "locking" ELSE p[r]]

-----------------------------------------------------------------------------
(* File.                                                                   *)

IsFull == offset >= MaxSize

\* A write that fails is undone by Truncate and leaves everything as it was.
Write(d) ==
    /\ opened /\ MutexFree
    /\ ~IsFull
    /\ disk' = Append(disk, d)
    /\ stored' = Append(stored, d)
    /\ offset' = offset + 1
    /\ pc' = Wake(pc)
    /\ UNCHANGED <<opened, term, crashes, it, got>>

\* Mutant of NextTerm: iterators are not told.
SameTerm == term

NextTerm == term + 1

\* Truncate to the first n messages starts a new term, also when nothing is cut.
Truncate(n) ==
    /\ opened /\ MutexFree
    /\ term < MaxTerm
    /\ n <= offset
    /\ disk' = SubSeq(disk, 1, n)
    /\ stored' = SubSeq(stored, 1, n)
    /\ offset' = n
    /\ term' = NextTerm
    /\ pc' = Wake(pc)
    /\ UNCHANGED <<opened, crashes, it, got>>

\* The directory closes the file while iterators may still use it.
Close ==
    /\ opened /\ MutexFree
    /\ term < MaxTerm
    /\ opened' = FALSE
    /\ term' = NextTerm
    /\ pc' = Wake(pc)
    /\ UNCHANGED <<disk, offset, stored, crashes, it, got>>

\* The process stops; if it was writing, a piece of the message may be on disk.
Crash ==
    /\ opened
    /\ crashes < MaxCrashes
    /\ \/ UNCHANGED disk
       \/ ~IsFull /\ \E piece \in Pieces : disk' = Append(disk, piece)
    /\ opened' = FALSE
    /\ offset' = 0 /\ term' = 0
    /\ pc' = [r \in Readers |-> "none"]
    /\ it' = [r \in Readers |-> NoIterator]
    /\ got' = [r \in Readers |-> <<>>]
    /\ crashes' = crashes + 1
    /\ UNCHANGED stored

\* Mutant of Scanned: an incomplete message is taken for a complete one.
ScannedWithTail == disk

\* The messages the scan of Open passes before it meets an incomplete one.
Scanned ==
    SubSeq(disk, 1, CHOOSE n \in 0..Len(disk) :
        /\ \A k \in 1..n : disk[k] \notin Pieces
        /\ n < Len(disk) => disk[n + 1] \in Pieces)

\* Open cuts what is incomplete and starts with term 1.  It fails on a length that
\* cannot be decoded.  The iterators of an earlier File have ended.
Open ==
    /\ ~opened
    /\ \A r \in Readers : pc[r] \in {"none", "ended"}
    /\ ~Contains(disk, "length")
    /\ disk' = Scanned
    /\ opened' = TRUE
    /\ offset' = Len(Scanned)
    /\ term' = 1
    /\ pc' = [r \in Readers |-> "none"]
    /\ it' = [r \in Readers |-> NoIterator]
    /\ got' = [r \in Readers |-> <<>>]
    /\ UNCHANGED <<stored, crashes>>

ReadAt(r, o, wait) ==
    /\ opened /\ MutexFree
    /\ pc[r] = "none"
    /\ o <= offset
    /\ it' = [it EXCEPT ![r] =
           [start |-> o, term |-> term, offset |-> o, endOffset |-> offset,
            wait |-> wait, closed |-> FALSE]]
    /\ pc' = [pc EXCEPT ![r] = "idle"]
    /\ UNCHANGED <<fileVars, got>>

-----------------------------------------------------------------------------
(* Iterator.                                                               *)

\* The checks at the entry of Next.
NextEnter(r) ==
    /\ pc[r] = "idle"
    /\ pc' = [pc EXCEPT ![r] =
           IF it[r].closed \/ it[r].term # term THEN "ended" ELSE "reading"]
    /\ UNCHANGED <<fileVars, it, got>>

\* Next reads the section of the file it has set up.  Once the file was truncated
\* that section may be gone, may hold other messages, or be in the buffer still.
NextRead(r) ==
    /\ pc[r] = "reading"
    /\ it[r].offset < it[r].endOffset
    /\ \E d \in Data \cup {NoData} :
        /\ it[r].term = term => d = disk[it[r].offset + 1]
        /\ IF d = NoData
           THEN /\ pc' = [pc EXCEPT ![r] = "ended"]
                /\ it' = [it EXCEPT ![r].closed = TRUE]
                /\ UNCHANGED got
           ELSE /\ pc' = [pc EXCEPT ![r] = "idle"]
                /\ it' = [it EXCEPT ![r].offset = @ + 1]
                /\ got' = [got EXCEPT ![r] = Append(@, d)]
    /\ UNCHANGED fileVars

\* Mutant of AtEnd: an iterator that waits does not look whether the file is full.
NotWaiting(i) == ~i.wait

\* Whether the end of the section is the end of the iteration.
AtEnd(i) == ~i.wait \/ i.endOffset >= MaxSize

NextEof(r) ==
    /\ pc[r] = "reading"
    /\ it[r].offset = it[r].endOffset
    /\ AtEnd(it[r])
    /\ pc' = [pc EXCEPT ![r] = "ended"]
    /\ it' = [it EXCEPT ![r].closed = TRUE]
    /\ UNCHANGED <<fileVars, got>>

NextWaitLock(r) ==
    /\ pc[r] = "reading"
    /\ it[r].offset = it[r].endOffset
    /\ ~AtEnd(it[r])
    /\ pc' = [pc EXCEPT ![r] = "locking"]
    /\ UNCHANGED <<fileVars, it, got>>

UpToDate(r) == offset = it[r].endOffset /\ term = it[r].term

\* The loop of nextWait, up to the call of Cond.Wait.
NextCheck(r) ==
    /\ pc[r] = "locking" /\ MutexFree
    /\ UpToDate(r)
    /\ pc' = [pc EXCEPT ![r] = IF it[r].closed THEN "ended" ELSE "preparing"]
    /\ UNCHANGED <<fileVars, it, got>>

\* Cond.Wait joins the notify list and unlocks.
NextWait(r) ==
    /\ pc[r] = "preparing"
    /\ pc' = [pc EXCEPT ![r] = "waiting"]
    /\ UNCHANGED <<fileVars, it, got>>

\* The code after the loop: a new section, or ErrIteratorInvalid.
NextContinue(r) ==
    /\ pc[r] = "locking" /\ MutexFree
    /\ ~UpToDate(r)
    /\ IF term # it[r].term
       THEN /\ pc' = [pc EXCEPT ![r] = "ended"]
            /\ it' = [it EXCEPT ![r].closed = TRUE]
       ELSE /\ pc' = [pc EXCEPT ![r] = "reading"]
            /\ it' = [it EXCEPT ![r].endOffset = offset]
    /\ UNCHANGED <<fileVars, got>>

\* Iterator.Close is called by another goroutine and does not lock the mutex.
CloseIterator(r) ==
    /\ pc[r] \notin {"none", "ended"}
    /\ ~it[r].closed
    /\ it' = [it EXCEPT ![r].closed = TRUE]
    /\ pc' = Wake(pc)
    /\ UNCHANGED <<fileVars, got>>

-----------------------------------------------------------------------------
Init ==
    /\ disk = <<>> /\ stored = <<>>
    /\ opened = TRUE /\ offset = 0 /\ term = 1
    /\ pc = [r \in Readers |-> "none"]
    /\ it = [r \in Readers |-> NoIterator]
    /\ got = [r \in Readers |-> <<>>]
    /\ crashes = 0

NextStep(r) ==
    \/ NextEnter(r) \/ NextRead(r) \/ NextEof(r) \/ NextWaitLock(r)
    \/ NextCheck(r) \/ NextWait(r) \/ NextContinue(r)

Next ==
    \/ \E d \in Data : Write(d)
    \/ \E n \in 0..MaxSize : Truncate(n)
    \/ Close \/ Crash \/ Open
    \/ \E r \in Readers :
        \/ \E o \in 0..MaxSize, wait \in BOOLEAN : ReadAt(r, o, wait)
        \/ NextStep(r) \/ CloseIterator(r)

Spec == Init /\ [][Next]_vars

\* Goroutines inside Next run.
FairSpec == Spec /\ \A r \in Readers : WF_vars(NextStep(r))

-----------------------------------------------------------------------------
\* The messages Write accepted survive a crash, and what the crash left of another
\* one does not survive the next Open.
StoredExactly ==
    /\ IsPrefix(stored, disk)
    /\ opened => disk = stored /\ offset = Len(disk)

\* In the term it was made for an iterator returns the messages from its start
\* on, none skipped and none repeated, and never reads past the last one.
IteratorFaithful ==
    \A r \in Readers :
        pc[r] \notin {"none", "ended"} /\ it[r].term = term =>
            /\ it[r].endOffset <= Len(disk)
            /\ it[r].offset = it[r].start + Len(got[r])
            /\ got[r] = SubSeq(disk, it[r].start + 1, it[r].offset)

\* No iterator waits for a message that is there already, or in a term that is
\* over: writes, truncation and the closing of the file wake it.
WaitJustified == \A r \in Readers : pc[r] = "waiting" => UpToDate(r)

\* Whoever reads a file that is full comes to its end, unless the file is cut.
ReaderEnds ==
    \A r \in Readers :
        IsFull /\ pc[r] # "none" ~> pc[r] \in {"none", "ended"} \/ ~IsFull
=============================================================================
