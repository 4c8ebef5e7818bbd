------------------------------ MODULE SegmentDir ------------------------------
(***************************************************************************)
(* The directory of segment files of a node, mq/segments/dir.go, and the   *)
(* garbage collection of the node's loop, mq/server_loop.go.               *)
(*                                                                         *)
(* Publishers, consume tasks and replications open and release files;      *)
(* idle files are closed after a while; the loop removes the files of      *)
(* segments that the cluster state does not place on this node.  The state *)
(* it asks is this node's own, which follows the leader's at a distance.   *)
(***************************************************************************)
EXTENDS Integers, FiniteSets, Sequences

CONSTANTS
    Ids,            \* segment IDs
    NoSegment,      \* the ID zero, of no segment
    Users,          \* goroutines that use segment files
    MaxData,        \* bound: messages written to a segment
    MaxOpens,       \* bound: calls of Open
    MaxMoves,       \* bound: commits that place a segment here, or elsewhere
    MaxRestarts     \* bound: restarts of the node

ASSUME DirAssumption ==
    /\ MaxData \in Nat /\ MaxOpens \in Nat /\ MaxMoves \in Nat /\ MaxRestarts \in Nat
    /\ IsFiniteSet(Users) /\ NoSegment \notin Ids

VARIABLES
    states,         \* the segments placed on this node, after each commit
    applied,        \* the last commit that this node has applied
    file,           \* messages in a segment's file, NoFile without a file
    rc,             \* File.rc, NotOpened if the segment is not in fileMaps
    idle,           \* File.idle is set
    userPc, using,  \* where a goroutine is, and with which segment
    writer,         \* whether it writes
    opens,          \* how often a file was opened
    gcPc,           \* where the garbage collection is
    active, todo, infos,  \* what it has computed
    restarts,       \* how often the node was restarted
    stored,         \* history: messages written to a segment placed here
    missed          \* history: segments placed here that the garbage collection
                    \* does not know of, and those that it has robbed

stateVars == <<states, applied>>
dirVars == <<file, rc, idle>>
userVars == <<userPc, using, writer, opens>>
gcVars == <<gcPc, active, todo, infos>>
history == <<stored, missed>>
vars == <<stateVars, dirVars, userVars, gcVars, restarts, history>>

Placed == states[Len(states)]   \* by the leader's state
Known == states[applied]        \* by this node's state

NoFile == -1
NotOpened == -1
Opened == {id \in Ids : rc[id] # NotOpened}
Exists(id) == id \in Opened \/ file[id] # NoFile

-----------------------------------------------------------------------------
(* The cluster state.  A commit reaches the leader first.                  *)

\* The segment is opened, or the reconciler puts a replica of it here, perhaps
\* once more.
Place(id) ==
    /\ Len(states) <= MaxMoves
    /\ id \notin Placed
    /\ states' = Append(states, Placed \cup {id})
    /\ missed' = IF gcPc = "listing" /\ id \notin active THEN missed \cup {id} ELSE missed
    /\ UNCHANGED <<applied, dirVars, userVars, gcVars, restarts, stored>>

\* The segment is deleted, or another node takes this node's place.
Displace(id) ==
    /\ Len(states) <= MaxMoves
    /\ id \in Placed
    /\ states' = Append(states, Placed \ {id})
    /\ stored' = [stored EXCEPT ![id] = 0]
    /\ missed' = missed \ {id}
    /\ UNCHANGED <<applied, dirVars, userVars, gcVars, restarts>>

Apply ==
    /\ applied < Len(states)
    /\ applied' = applied + 1
    /\ UNCHANGED <<states, dirVars, userVars, gcVars, restarts, history>>

-----------------------------------------------------------------------------
(* Dir, used by goroutines.                                                *)

\* u is about to open a file.
Opens(u, id, writes) ==
    /\ opens < MaxOpens
    /\ userPc' = [userPc EXCEPT ![u] = "opening"]
    /\ using' = [using EXCEPT ![u] = id]
    /\ writer' = [writer EXCEPT ![u] = writes]
    /\ opens' = opens + 1

\* Publishers, consume tasks and replications take the segment from this node's
\* state.  SegmentRead and SegmentSum only look whether it exists.
Choose(u, id) ==
    /\ userPc[u] = "idle"
    /\ \/ id \in Known /\ \E writes \in BOOLEAN : Opens(u, id, writes)
       \/ Exists(id) /\ Opens(u, id, FALSE)
    /\ UNCHANGED <<stateVars, dirVars, gcVars, restarts, history>>

\* Mutant of Opening: the count of a file that is open already is not raised.
OpeningOnce(id) == IF rc[id] = NotOpened THEN 1 ELSE rc[id]

Opening(id) == IF rc[id] = NotOpened THEN 1 ELSE rc[id] + 1

\* Open creates a file that does not exist.
Open(u) ==
    LET id == using[u] IN
    /\ userPc[u] = "opening"
    /\ rc' = [rc EXCEPT ![id] = Opening(id)]
    /\ idle' = [idle EXCEPT ![id] = FALSE]
    /\ file' = [file EXCEPT ![id] = IF @ = NoFile THEN 0 ELSE @]
    /\ userPc' = [userPc EXCEPT ![u] = "using"]
    /\ UNCHANGED <<stateVars, using, writer, opens, gcVars, restarts, history>>

\* Nobody looks at the state again before a write.
Write(u) ==
    LET id == using[u] IN
    /\ userPc[u] = "using" /\ writer[u]
    /\ file[id] < MaxData /\ stored[id] < MaxData
    /\ file' = [file EXCEPT ![id] = @ + 1]
    /\ stored' = IF id \in Placed THEN [stored EXCEPT ![id] = @ + 1] ELSE stored
    /\ UNCHANGED <<stateVars, rc, idle, userVars, gcVars, restarts, missed>>

Releasing(id) ==
    /\ rc' = [rc EXCEPT ![id] = @ - 1]
    /\ idle' = [idle EXCEPT ![id] = rc[id] <= 1]
    /\ UNCHANGED file

Release(u) ==
    /\ userPc[u] = "using"
    /\ Releasing(using[u])
    /\ userPc' = [userPc EXCEPT ![u] = "idle"]
    /\ using' = [using EXCEPT ![u] = NoSegment]
    /\ writer' = [writer EXCEPT ![u] = FALSE]
    /\ UNCHANGED <<stateVars, opens, gcVars, restarts, history>>

\* The leader names the segment that follows a full one.  The writer goes on to
\* it whether or not this node's state has it.
Rotate(u, id) ==
    /\ userPc[u] = "using" /\ writer[u]
    /\ id \in Placed \ {using[u]}
    /\ Releasing(using[u])
    /\ Opens(u, id, TRUE)
    /\ UNCHANGED <<stateVars, gcVars, restarts, history>>

Closable(id) == id \in Opened /\ idle[id]

CloseIdle(id) ==
    /\ Closable(id)
    /\ rc' = [rc EXCEPT ![id] = NotOpened]
    /\ idle' = [idle EXCEPT ![id] = FALSE]
    /\ UNCHANGED <<stateVars, file, userVars, gcVars, restarts, history>>

-----------------------------------------------------------------------------
(* Garbage collection.                                                     *)

GcStart ==
    /\ gcPc = "idle"
    /\ gcPc' = "listing"
    /\ active' = Known
    /\ todo' = Ids
    /\ infos' = {}
    /\ missed' = missed \cup (Placed \ Known)
    /\ UNCHANGED <<stateVars, dirVars, userVars, restarts, stored>>

\* List visits the files one after the other.
GcList(id) ==
    /\ gcPc = "listing"
    /\ id \in todo
    /\ todo' = todo \ {id}
    /\ infos' = IF file[id] # NoFile /\ rc[id] <= 0 THEN infos \cup {id} ELSE infos
    /\ UNCHANGED <<stateVars, dirVars, userVars, gcPc, active, restarts, history>>

\* Mutant of Removable: nobody looks whether the segment is placed here.
NotInUse(id) == rc[id] <= 0

\* Mutant of Removable: a file that is open but unused is spared.
NotOpenedAndNotActive(id) == id \notin active /\ rc[id] = NotOpened

Removable(id) == id \notin active /\ rc[id] <= 0

\* Remove looks at the reference count again.
GcRemove(id) ==
    /\ gcPc = "listing" /\ todo = {}
    /\ id \in infos
    /\ infos' = infos \ {id}
    /\ IF Removable(id)
       THEN /\ file' = [file EXCEPT ![id] = NoFile]
            /\ rc' = [rc EXCEPT ![id] = NotOpened]
            /\ idle' = [idle EXCEPT ![id] = FALSE]
       ELSE UNCHANGED dirVars
    /\ UNCHANGED <<stateVars, userVars, gcPc, active, todo, restarts, history>>

\* The segments that a garbage collection did not know of, and that lost messages.
Robbed == {id \in missed : file[id] < stored[id]}

GcEnd ==
    /\ gcPc = "listing" /\ todo = {} /\ infos = {}
    /\ gcPc' = "idle" /\ active' = {}
    /\ missed' = Robbed
    /\ UNCHANGED <<stateVars, dirVars, userVars, todo, infos, restarts, stored>>

-----------------------------------------------------------------------------
\* Dir.Close closes every file, in use or not; the goroutines end with the node.
\* The node's state begins again with Raft's snapshot, at some commit that the
\* node had applied, and the log follows when the node hears from the leader.
Restart ==
    /\ restarts < MaxRestarts
    /\ restarts' = restarts + 1
    /\ rc' = [id \in Ids |-> NotOpened]
    /\ idle' = [id \in Ids |-> FALSE]
    /\ userPc' = [u \in Users |-> "idle"]
    /\ using' = [u \in Users |-> NoSegment]
    /\ writer' = [u \in Users |-> FALSE]
    /\ gcPc' = "idle" /\ active' = {} /\ todo' = {} /\ infos' = {}
    /\ applied' \in 1 .. applied
    /\ missed' = Robbed
    /\ UNCHANGED <<states, file, opens, stored>>

Init ==
    /\ states = <<{}>> /\ applied = 1
    /\ file = [id \in Ids |-> NoFile]
    /\ rc = [id \in Ids |-> NotOpened]
    /\ idle = [id \in Ids |-> FALSE]
    /\ userPc = [u \in Users |-> "idle"]
    /\ using = [u \in Users |-> NoSegment]
    /\ writer = [u \in Users |-> FALSE]
    /\ opens = 0
    /\ gcPc = "idle" /\ active = {} /\ todo = {} /\ infos = {}
    /\ restarts = 0
    /\ stored = [id \in Ids |-> 0] /\ missed = {}

Gc == GcStart \/ GcEnd \/ \E id \in Ids : GcList(id) \/ GcRemove(id)

Next ==
    \/ \E id \in Ids : Place(id) \/ Displace(id) \/ CloseIdle(id)
    \/ Apply
    \/ \E u \in Users, id \in Ids : Choose(u, id) \/ Rotate(u, id)
    \/ \E u \in Users : Open(u) \/ Write(u) \/ Release(u)
    \/ Gc
    \/ Restart

Spec == Init /\ [][Next]_vars

\* The loop collects garbage every ten seconds, a commit reaches every node that
\* is up, and who uses a file of a segment that left the node is cancelled and
\* releases it.
FairSpec ==
    /\ Spec
    /\ WF_vars(Gc) /\ WF_vars(Apply)
    /\ \A u \in Users : WF_vars(Open(u)) /\ WF_vars(Release(u))

-----------------------------------------------------------------------------
UsersOf(id) == {u \in Users : userPc[u] = "using" /\ using[u] = id}

\* The reference count is the number of goroutines that use the file: none of
\* them has it closed or removed under its hands, whatever the timer and the
\* garbage collection do, and an unused file is marked idle so that it is closed.
ReferencesCounted ==
    \A id \in Ids :
        /\ UsersOf(id) # {} => file[id] # NoFile
        /\ IF id \in Opened
           THEN rc[id] = Cardinality(UsersOf(id)) /\ (idle[id] <=> rc[id] = 0)
           ELSE UsersOf(id) = {}

\* A segment keeps what was written to it as long as the cluster places it on this
\* node, unless a garbage collection went by a state of this node that did not
\* have it: one from before the segment was placed here, which a writer that
\* rotates to it does not wait for, or the one a restart fell back to.  Closing
\* idle files, collecting and restarting lose nothing else.
PlacedDataKept ==
    \A id \in Placed \ missed : stored[id] > 0 => file[id] >= stored[id]

\* Open segments are never deleted from the node that holds them.
OpenSegmentsKept ==
    \A id \in Placed : stored[id] > 0 => file[id] # NoFile

\* The file of a segment that has left the node is removed in the end, unless the
\* segment comes back.
GarbageCollected ==
    \A id \in Ids : id \notin Placed ~> file[id] = NoFile \/ id \in Placed
=============================================================================
