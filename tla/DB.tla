--------------------------------- MODULE DB ---------------------------------
(***************************************************************************)
(* The stream manager of package cluster (type DB, src/cmd/esdb-reader.go *)
(* after "package cluster"), driven by the consensus log.                  *)
(*                                                                         *)
(* The log holds commands; entry i is applied with commit = i, one at a   *)
(* time, in order: Write(i, ts) or Rotate(i).  Entry 1 is the cluster's    *)
(* join command, which the DB ignores.  Rotate closes the current stream, *)
(* launches snapshot() (a goroutine calling TakeSnapshotFrom, which calls *)
(* DB.Save) and then setCurrent opens a new stream.  The process may crash *)
(* between any two steps; on restart NewDb runs Rotate(1, 0), consensus   *)
(* restores the latest snapshot with DB.Recovery and replays the log       *)
(* entries after the snapshot's index.                                    *)
(*                                                                         *)
(* A stream file is abstracted to its state and the commits of its events *)
(* (StreamFile models one file byte by byte).  A crash keeps the files.    *)
(***************************************************************************)
EXTENDS Naturals, Sequences, SequencesExt, FiniteSets

CONSTANTS
    MaxLog,              \* bound: length of the consensus log
    Timestamps,          \* event timestamps
    SnapshotBuffer,      \* DB.SnapshotBuffer
    MaxRestarts,         \* bound: process restarts
    SnapshotBeforeNext,  \* narrowed schedule: the goroutine finishes before the next entry
    SnapshotDuringApply  \* the goroutine may run inside Rotate (TRUE is the code's schedule)

ASSUME MaxLog \in Nat \ {0} /\ Timestamps \subseteq Nat /\ SnapshotBuffer \in Nat
ASSUME MaxRestarts \in Nat /\ SnapshotBeforeNext \in BOOLEAN /\ SnapshotDuringApply \in BOOLEAN

Commits == 1..MaxLog

VARIABLES
    files,       \* the stream directory: commit -> [st, evs]
    closed,      \* DB.closed, in the order addClosed appended
    current,     \* DB.current
    hasStream,   \* DB.stream # nil
    mostRecent,  \* DB.MostRecent
    streams,     \* DB.streams: commit -> events of the cached closed stream
    log,         \* the consensus log (entry i has commit i)
    applied,     \* index of the last entry applied to the DB
    snap,        \* the latest snapshot: its index and the bytes Save produced
    pending,     \* snapshot goroutines launched and not yet run (their index)
    rotating,    \* commit of a Rotate between Close and setCurrent, or 0
    restarts     \* ghost: restarts so far

vars == <<files, closed, current, hasStream, mostRecent, streams, log, applied,
          snap, pending, rotating, restarts>>

-----------------------------------------------------------------------------
NoFile    == [st |-> "none", evs |-> <<>>]
EmptyOpen == [st |-> "open", evs |-> <<>>]
NoSnap    == [index |-> 0, current |-> 0, mostRecent |-> 0, closed |-> <<>>]

\* Fault variant of AddClosed: no check for a commit already listed.
AddClosedNoDedup(cs, c) == Append(cs, c)

\* addClosed: append unless already present.
AddClosed(cs, c) == IF c \in Range(cs) THEN cs ELSE Append(cs, c)

\* snapshot(): the index handed to TakeSnapshotFrom.
SnapIndex(c) == IF c > SnapshotBuffer THEN c - SnapshotBuffer ELSE 0

\* retrieveStream(commit, false) as Rotate uses it: is the stream it
\* returns a closed one?  The current open stream, a cached closed stream,
\* or a file opened from disk (cached when it opens without error).
RetrievesClosed(c) ==
    IF current = c /\ hasStream THEN FALSE
    ELSE c \in DOMAIN streams \/ files[c].st = "closed"

\* The cache after retrieveStream(c, false) opened a closed file.
CacheAfterRetrieve(c) ==
    IF (current = c /\ hasStream) \/ c \in DOMAIN streams \/ files[c].st # "closed"
    THEN streams
    ELSE streams @@ (c :> files[c].evs)

-----------------------------------------------------------------------------
(* NewDb: Rotate(1, 0) on a fresh DB (current = 0, no stream).            *)
Init ==
    /\ files = [c \in Commits |-> IF c = 1 THEN EmptyOpen ELSE NoFile]
    /\ closed = <<>>
    /\ current = 1
    /\ hasStream = TRUE
    /\ mostRecent = 0
    /\ streams = [c \in {} |-> <<>>]
    /\ log = <<[type |-> "join"]>>
    /\ applied = 1
    /\ snap = NoSnap
    /\ pending = {}
    /\ rotating = 0
    /\ restarts = 0

(* The leader appends a command to the log.                                *)
Propose ==
    /\ Len(log) < MaxLog
    /\ \E cmd \in [type : {"write"}, ts : Timestamps] \cup {[type |-> "rotate"]} :
          log' = Append(log, cmd)
    /\ UNCHANGED <<files, closed, current, hasStream, mostRecent, streams, applied,
                   snap, pending, rotating, restarts>>

Applying(type) ==
    /\ rotating = 0 /\ applied < Len(log) /\ log[applied + 1].type = type
    /\ SnapshotBeforeNext => pending = {}

(* DB.Write, commit <= current: an old commit replayed, ignored.           *)
WriteOld ==
    /\ Applying("write")
    /\ applied + 1 =< current
    /\ applied' = applied + 1
    /\ UNCHANGED <<files, closed, current, hasStream, mostRecent, streams, log,
                   snap, pending, rotating, restarts>>

(* DB.Write with no open stream: only the mock offset grows.               *)
WriteMock ==
    /\ Applying("write")
    /\ applied + 1 > current /\ ~hasStream
    /\ applied' = applied + 1
    /\ UNCHANGED <<files, closed, current, hasStream, mostRecent, streams, log,
                   snap, pending, rotating, restarts>>

\* Fault variant of WriteAppend: MostRecent summed instead of maxed.
WriteAppendSumTs ==
    /\ Applying("write")
    /\ applied + 1 > current /\ hasStream
    /\ LET i == applied + 1 IN
       /\ files' = [files EXCEPT ![current].evs = Append(@, i)]
       /\ mostRecent' = mostRecent + log[i].ts
       /\ applied' = i
    /\ UNCHANGED <<closed, current, hasStream, streams, log, snap, pending,
                   rotating, restarts>>

(* DB.Write: append to the current stream, raise MostRecent.               *)
WriteAppend ==
    /\ Applying("write")
    /\ applied + 1 > current /\ hasStream
    /\ LET i == applied + 1 IN
       /\ files' = [files EXCEPT ![current].evs = Append(@, i)]
       /\ mostRecent' = Max({mostRecent, log[i].ts})
       /\ applied' = i
    /\ UNCHANGED <<closed, current, hasStream, streams, log, snap, pending,
                   rotating, restarts>>

(* DB.Rotate when the file of the commit is already closed: adopt it.      *)
RotateAdopt ==
    /\ Applying("rotate")
    /\ LET c == applied + 1 IN
       /\ RetrievesClosed(c)
       /\ closed' = AddClosed(closed, c)
       /\ hasStream' = FALSE
       /\ current' = c
       /\ streams' = CacheAfterRetrieve(c)
       /\ applied' = c
    /\ UNCHANGED <<files, mostRecent, log, snap, pending, rotating, restarts>>

\* Fault variant of RotateClose: the closed commit is not added to closed.
RotateCloseNoAdd ==
    /\ Applying("rotate")
    /\ LET c == applied + 1 IN
       /\ ~RetrievesClosed(c) /\ hasStream
       /\ files' = [files EXCEPT ![current].st = "closed"]
       /\ closed' = closed
       /\ pending' = pending \cup {SnapIndex(c)}
       /\ rotating' = c
    /\ UNCHANGED <<current, hasStream, mostRecent, streams, log, applied, snap, restarts>>

(* DB.Rotate: close the current stream, addClosed, launch the snapshot.   *)
RotateClose ==
    /\ Applying("rotate")
    /\ LET c == applied + 1 IN
       /\ ~RetrievesClosed(c) /\ hasStream
       /\ files' = [files EXCEPT ![current].st = "closed"]
       /\ closed' = AddClosed(closed, current)
       /\ pending' = pending \cup {SnapIndex(c)}
       /\ rotating' = c
    /\ UNCHANGED <<current, hasStream, mostRecent, streams, log, applied, snap, restarts>>

(* setCurrent(commit): remove any file at the path, create a new stream.   *)
SetCurrent(c) ==
    /\ files' = [files EXCEPT ![c] = EmptyOpen]
    /\ current' = c
    /\ hasStream' = TRUE

(* The rest of DB.Rotate after the close: setCurrent(commit).              *)
RotateSetCurrent ==
    /\ rotating # 0
    /\ SetCurrent(rotating)
    /\ applied' = rotating
    /\ rotating' = 0
    /\ UNCHANGED <<closed, mostRecent, streams, log, snap, pending, restarts>>

(* DB.Rotate with no stream open (after an adopt): setCurrent(commit).     *)
RotateNoStream ==
    /\ Applying("rotate")
    /\ LET c == applied + 1 IN
       /\ ~RetrievesClosed(c) /\ ~hasStream
       /\ SetCurrent(c)
       /\ applied' = c
    /\ UNCHANGED <<closed, mostRecent, streams, log, snap, pending, rotating, restarts>>

\* DB.Save: the state the snapshot blob records.
Save == [current |-> current, mostRecent |-> mostRecent, closed |-> closed]

(* The snapshot goroutine: TakeSnapshotFrom(index) stores what DB.Save    *)
(* returns now; a TakeSnapshotFrom(0) or one behind the latest snapshot   *)
(* stores nothing.                                                         *)
SnapshotGoroutine(x) ==
    /\ x \in pending
    /\ SnapshotDuringApply \/ rotating = 0
    /\ pending' = pending \ {x}
    /\ snap' = IF x > snap.index THEN [index |-> x] @@ Save ELSE snap
    /\ UNCHANGED <<files, closed, current, hasStream, mostRecent, streams, log,
                   applied, rotating, restarts>>

(* Crash and restart.  NewDb runs Rotate(1, 0) against the files on disk: *)
(* it adopts file 1 when closed, else setCurrent(1) recreates it.  With no  *)
(* snapshot, consensus replays the log from its start.                     *)
Adopt1     == files[1].st = "closed"
\* Fault variant of NewDbFiles: setCurrent opens file 1 without removing it.
NewDbFilesKeep == IF Adopt1 THEN files ELSE [files EXCEPT ![1].st = "open"]
NewDbFiles == IF Adopt1 THEN files ELSE [files EXCEPT ![1] = EmptyOpen]

Restarting ==
    /\ restarts < MaxRestarts
    /\ streams' = IF Adopt1 THEN (1 :> files[1].evs) ELSE [c \in {} |-> <<>>]
    /\ pending' = {}
    /\ rotating' = 0
    /\ restarts' = restarts + 1
    /\ UNCHANGED <<log, snap>>

RestartFresh ==
    /\ Restarting
    /\ snap.index = 0
    /\ files' = NewDbFiles
    /\ closed' = IF Adopt1 THEN <<1>> ELSE <<>>
    /\ current' = 1
    /\ hasStream' = ~Adopt1
    /\ mostRecent' = 0
    /\ applied' = 1

(* After NewDb, DB.Recovery of the latest snapshot: setCurrent(current),   *)
(* MostRecent restored, addClosed of every saved commit; consensus then    *)
(* replays the entries after the snapshot's index.                          *)
RestartRecover ==
    /\ Restarting
    /\ snap.index > 0
    /\ files' = [NewDbFiles EXCEPT ![snap.current] = EmptyOpen]
    /\ closed' = FoldLeft(AddClosed, IF Adopt1 THEN <<1>> ELSE <<>>, snap.closed)
    /\ current' = snap.current
    /\ hasStream' = TRUE
    /\ mostRecent' = snap.mostRecent
    /\ applied' = snap.index

Next ==
    \/ Propose
    \/ WriteOld \/ WriteMock \/ WriteAppend
    \/ RotateAdopt \/ RotateClose \/ RotateSetCurrent \/ RotateNoStream
    \/ \E x \in pending : SnapshotGoroutine(x)
    \/ RestartFresh \/ RestartRecover

Spec == Init /\ [][Next]_vars

-----------------------------------------------------------------------------
(* Properties.                                                             *)

TypeOK ==
    /\ files \in [Commits -> [st : {"none", "open", "closed"}, evs : Seq(Commits)]]
    /\ closed \in Seq(Commits) /\ current \in Commits /\ hasStream \in BOOLEAN
    /\ mostRecent \in {0} \cup Timestamps
    /\ DOMAIN streams \subseteq Commits
    /\ applied \in 1..Len(log) /\ pending \subseteq 0..MaxLog
    /\ rotating \in 0..MaxLog /\ restarts \in 0..MaxRestarts

\* The files a reader can reach: the closed list and the current commit.
Live == Range(closed) \cup {current}

\* Write entries already applied.
AppliedWrites == {i \in 1..applied : log[i].type = "write"}

(* No acknowledged event is lost: every write the DB has applied (or that *)
(* a restored snapshot covers) is in a file the DB lists, across crashes, *)
(* restarts, snapshot restores and log replay.                             *)
NoEventLost ==
    \A i \in AppliedWrites : \E c \in Live : i \in Range(files[c].evs)

(* No event is stored twice in the listed files, whatever replay after a  *)
(* restart re-applies.                                                     *)
NoEventDuplicated ==
    \A c1, c2 \in Live : \A p1 \in DOMAIN files[c1].evs, p2 \in DOMAIN files[c2].evs :
        files[c1].evs[p1] = files[c2].evs[p2] => c1 = c2 /\ p1 = p2

(* closed stays in ascending commit order, so closed[0], where a fresh     *)
(* Iterate starts (parseContinuation), is the oldest file.                *)
ClosedAscending == \A i \in 1..(Len(closed) - 1) : closed[i] < closed[i + 1]

=============================================================================
