------------------------------ MODULE DBReader ------------------------------
(***************************************************************************)
(* The read path of the stream manager (DB.Continuation, DB.Scan,          *)
(* DB.Iterate, prev, next, parseContinuation, buildContinuation in        *)
(* src/cmd/esdb-reader.go) driven by the paging loop of the HTTP reader   *)
(* (main, /events handler): each request passes the cursor the previous   *)
(* response returned and a page limit, and gets events and a new cursor.  *)
(*                                                                         *)
(* The writer is the apply path without crashes (DB models the crashes):  *)
(* Write appends an event to the current file, Rotate closes it and opens *)
(* the file of the rotate's commit, Compress merges closed files.  An     *)
(* event is named by its commit, so commit order is the order of events   *)
(* across files and inside a file.                                        *)
(* An offset inside a file is abstracted to an event position: offset k   *)
(* is the k-th event; 0 means "the tail" for a reverse scan and "the      *)
(* header" for a forward one.  One request runs atomically with respect   *)
(* to the writer.                                                         *)
(***************************************************************************)
EXTENDS Naturals, Sequences, SequencesExt, FiniteSets

CONSTANTS
    MaxCommit,   \* bound: commits the writer may apply
    Limits       \* page limits a client asks for

ASSUME MaxCommit \in Nat \ {0} /\ Limits \subseteq Nat \ {0}

Commits == 1..MaxCommit

VARIABLES
    files,       \* commit -> the events (commits) of its file, in file order
    indexed,     \* events that carry the scanned index name:value
    closed,      \* DB.closed
    current,     \* DB.current
    commit,      \* the next commit the log applies
    icur,        \* Iterate client: the cursor it holds
    iseen,       \* Iterate client: every event delivered so far
    ilast,       \* Iterate client: the newest event delivered before the last page
    ipage,       \* Iterate client: the events of the last page
    scur,        \* Scan client: the cursor it holds
    spage        \* Scan client: the events of the last page

vars == <<files, indexed, closed, current, commit, icur, iseen, ilast, ipage,
          scur, spage>>
writer == <<files, indexed, closed, current, commit>>

-----------------------------------------------------------------------------
(* Cursors.  buildContinuation formats "commit:offset", or "" for commit  *)
(* 0; parseContinuation reads it back.  A cursor is kept as the pair it    *)
(* encodes, and "" as Empty.                                              *)
Empty == <<0, 0>>

buildContinuation(c, o) == IF c > 0 THEN <<c, o>> ELSE Empty

\* The commit a fresh forward read starts at: closed[0], else current.
parseContinuation(cur, reverse) ==
    IF cur # Empty THEN cur
    ELSE IF ~reverse /\ Len(closed) > 0 THEN <<closed[1], 0>>
    ELSE <<current, 0>>

\* DB.prev: the largest closed commit below c, or 0.
Prev(c) == Max({0} \cup {x \in Range(closed) : x < c})

\* Fault variant of Next1: the current commit is not considered.
NextClosedOnly(c) ==
    LET above == {x \in Range(closed) : x > c}
    IN IF above = {} THEN 0 ELSE Min(above)

\* DB.next: the smallest closed commit, or current, above c; 0 if none.
Next1(c) ==
    LET above == {x \in Range(closed) \cup {current} : x > c}
    IN IF above = {} THEN 0 ELSE Min(above)

(* The stream files, as the stream package reads them.                     *)
\* The back pointer of the event at position k: the previous indexed one.
Back(c, k) == Max({0} \cup {j \in 1..(k - 1) : files[c][j] \in indexed})

\* IndexTail: the tail of the index: the in-memory tails of the open stream, the SST
\* of a closed one.
IndexTail(c) == Back(c, Len(files[c]) + 1)

\* Stream.ScanIndex from offset o (o > 0), stopping when the page holds L
\* events; the callback sets offset to the visited event's back pointer.
RECURSIVE ScanChain(_, _, _, _)
ScanChain(c, o, L, acc) ==
    IF o = 0 THEN [evs |-> acc, offset |-> 0, stopped |-> FALSE]
    ELSE LET acc2 == Append(acc, files[c][o]) IN
         IF Len(acc2) >= L
         THEN [evs |-> acc2, offset |-> Back(c, o), stopped |-> TRUE]
         ELSE ScanChain(c, Back(c, o), L, acc2)

\* Stream.Iterate from offset o: 0 starts after the header; on a stop it
\* returns the offset just past the event visited; at the end (the
\* sentinel of a closed file, EOF of an open one) it returns 0.
RECURSIVE IterChain(_, _, _, _)
IterChain(c, p, L, acc) ==
    IF p > Len(files[c]) THEN [evs |-> acc, offset |-> 0, stopped |-> FALSE]
    ELSE LET acc2 == Append(acc, files[c][p]) IN
         IF Len(acc2) >= L
         THEN [evs |-> acc2, offset |-> p + 1, stopped |-> TRUE]
         ELSE IterChain(c, p + 1, L, acc2)

-----------------------------------------------------------------------------
(* DB.Continuation: the current file's tail for the index, else the       *)
(* newest closed commit at offset 0.                                      *)
Continuation ==
    IF IndexTail(current) > 0 THEN buildContinuation(current, IndexTail(current))
    ELSE buildContinuation(Prev(MaxCommit + 1), 0)

(* DB.Scan's loop: ScanIndex on each commit from the newest down, until    *)
(* the scanner stops; between files offset resets to 0 (the tail).        *)
RECURSIVE ScanLoop(_, _, _, _)
ScanLoop(c, o, L, acc) ==
    IF c = 0 THEN [evs |-> acc, commit |-> 0, offset |-> o, stopped |-> FALSE]
    ELSE LET r == ScanChain(c, IF o = 0 THEN IndexTail(c) ELSE o, L, acc) IN
         IF r.stopped THEN [evs |-> r.evs, commit |-> c, offset |-> r.offset, stopped |-> TRUE]
         ELSE ScanLoop(Prev(c), 0, L, r.evs)

\* DB.Scan: the events of one call and the cursor it returns.
Scan(cur, L) ==
    LET s == parseContinuation(cur, TRUE)
        r == ScanLoop(s[1], s[2], L, <<>>)
        c == IF r.stopped /\ r.offset = 0 THEN Prev(r.commit) ELSE r.commit
    IN [evs |-> r.evs, cursor |-> buildContinuation(c, 0)]

\* Fault variant of IterLoop: the offset is not reset when moving on.
RECURSIVE IterLoopKeepOffset(_, _, _, _)
IterLoopKeepOffset(c, o, L, acc) ==
    IF c = 0 THEN [evs |-> acc, commit |-> 0, offset |-> o]
    ELSE LET r == IterChain(c, IF o = 0 THEN 1 ELSE o, L, acc) IN
         IF r.stopped THEN [evs |-> r.evs, commit |-> c, offset |-> r.offset]
         ELSE IterLoopKeepOffset(Next1(c), o, L, r.evs)

(* DB.Iterate's loop: Iterate on each commit from the oldest up, until    *)
(* the scanner stops; at the end of a file move to next(commit), offset 0. *)
RECURSIVE IterLoop(_, _, _, _)
IterLoop(c, o, L, acc) ==
    IF c = 0 THEN [evs |-> acc, commit |-> 0, offset |-> o]
    ELSE LET r == IterChain(c, IF o = 0 THEN 1 ELSE o, L, acc) IN
         IF r.stopped THEN [evs |-> r.evs, commit |-> c, offset |-> r.offset]
         ELSE IterLoop(Next1(c), 0, L, r.evs)

\* DB.Iterate: the events of one call and the cursor it returns.
Iterate(cur, L) ==
    LET s == parseContinuation(cur, FALSE)
        r == IterLoop(s[1], s[2], L, <<>>)
    IN [evs |-> r.evs, cursor |-> buildContinuation(r.commit, r.offset)]

-----------------------------------------------------------------------------
Init ==
    /\ files = [c \in Commits |-> <<>>]
    /\ indexed = {}
    /\ closed = <<>>
    /\ current = 1
    /\ commit = 2
    /\ icur = Empty /\ iseen = {} /\ ilast = 0 /\ ipage = <<>>
    /\ scur = Empty /\ spage = <<>>

(* DB.Write on the current stream; the event may carry the index.          *)
Write ==
    /\ commit =< MaxCommit
    /\ files' = [files EXCEPT ![current] = Append(@, commit)]
    /\ \E ix \in BOOLEAN : indexed' = IF ix THEN indexed \cup {commit} ELSE indexed
    /\ commit' = commit + 1
    /\ UNCHANGED <<closed, current, icur, iseen, ilast, ipage, scur, spage>>

\* Fault variant of Rotate: the closed commit is not added to closed.
RotateNoAdd ==
    /\ commit =< MaxCommit
    /\ current' = commit
    /\ commit' = commit + 1
    /\ UNCHANGED <<files, indexed, closed, icur, iseen, ilast, ipage, scur, spage>>

(* DB.Rotate: close the current stream, addClosed, setCurrent(commit).     *)
Rotate ==
    /\ commit =< MaxCommit
    /\ closed' = Append(closed, current)
    /\ current' = commit
    /\ commit' = commit + 1
    /\ UNCHANGED <<files, indexed, icur, iseen, ilast, ipage, scur, spage>>

(* DB.Compress(start, stop): the precomputed .tmpstream of start, the     *)
(* events of the closed files start..stop in commit order, is renamed over *)
(* start's file, and the commits in (start, stop] leave closed; their      *)
(* files stay on disk.  The caller (not in this repository) produces the  *)
(* tmpstream first, so the rename happens.  The caller also keeps to the  *)
(* requirement spec 9 recommends and the code does not enforce: no       *)
(* client's cursor names a commit in (start, stop].                       *)
\* Fault variant of the filter of Compress: stop itself stays in closed.
KeptWithStop(start, stop, c) == c =< start \/ c >= stop

\* The commits Compress keeps in closed.
Kept(start, stop, c) == c =< start \/ c > stop

Compress(start, stop) ==
    /\ start \in Range(closed) /\ stop \in Range(closed) /\ start < stop
    /\ \A cur \in {icur, scur} : ~(start < cur[1] /\ cur[1] =< stop)
    /\ LET merged == SelectSeq(closed, LAMBDA c : start =< c /\ c =< stop)
       IN files' = [files EXCEPT ![start] = FlattenSeq([i \in DOMAIN merged |-> files[merged[i]]])]
    /\ closed' = SelectSeq(closed, LAMBDA c : Kept(start, stop, c))
    /\ UNCHANGED <<indexed, current, commit, icur, iseen, ilast, ipage, scur, spage>>

(* An /events request without an index: Iterate from the held cursor.     *)
IteratePage(L) ==
    LET r == Iterate(icur, L) IN
    /\ icur' = r.cursor
    /\ ilast' = Max({0} \cup iseen)
    /\ ipage' = r.evs
    /\ iseen' = iseen \cup Range(r.evs)
    /\ UNCHANGED <<writer, scur, spage>>

(* An /events request with an index: an empty cursor takes the one         *)
(* Continuation returns.                                                  *)
ScanPage(L) ==
    LET start == IF scur = Empty THEN Continuation ELSE scur
        r == Scan(start, L)
    IN /\ scur' = r.cursor
       /\ spage' = r.evs
       /\ UNCHANGED <<writer, icur, iseen, ilast, ipage>>

Next ==
    \/ Write \/ Rotate
    \/ \E start, stop \in Commits : Compress(start, stop)
    \/ \E L \in Limits : IteratePage(L)
    \/ \E L \in Limits : ScanPage(L)

Spec == Init /\ [][Next]_vars

\* A client keeps polling: a request it can make is eventually served (the
\* handler serves every request; nothing in DB blocks a reader).
IterateFairSpec == Spec /\ WF_vars(\E L \in Limits : IteratePage(L))
ScanFairSpec    == Spec /\ WF_vars(\E L \in Limits : ScanPage(L))

-----------------------------------------------------------------------------
(* Properties.                                                             *)

\* Every event in a file the DB lists; Compress moves the events of the
\* commits it drops into start's file.
Events == UNION {Range(files[c]) : c \in Range(closed) \cup {current}}

TypeOK ==
    /\ files \in [Commits -> Seq(Commits)] /\ indexed \subseteq Commits
    /\ closed \in Seq(Commits) /\ current \in Commits /\ commit \in 2..(MaxCommit + 1)
    /\ icur \in ({0} \cup Commits) \X Nat /\ scur \in ({0} \cup Commits) \X Nat
    /\ iseen \subseteq Events /\ Range(spage) \subseteq indexed

(* Forward paging never skips an event: every event older than the newest *)
(* one Iterate has delivered was delivered, across rotations between      *)
(* pages and cursors into files that were open and are now closed.       *)
IterateNoGap ==
    \A e \in Events : e < Max({0} \cup iseen) => e \in iseen

(* Forward paging delivers each event once, in commit order: a page       *)
(* continues after the newest event of the pages before it (spec 8.5 and  *)
(* 4.5: at the end of the live stream Iterate returns its tail).          *)
IterateNoDuplicates ==
    \A k \in DOMAIN ipage : ipage[k] > (IF k = 1 THEN ilast ELSE ipage[k - 1])

(* One Scan call walks the index newest first without skipping: two       *)
(* events next to each other in a page have no indexed event between them, *)
(* though the walk crosses from a file's oldest indexed event to the       *)
(* tail of the previous closed file (prev, offset reset to 0).            *)
ScanPageConsecutive ==
    \A k \in 1..(Len(spage) - 1) :
        /\ spage[k + 1] < spage[k]
        /\ \A e \in indexed : ~(spage[k + 1] < e /\ e < spage[k])

(* A polling client eventually holds every event written.                 *)
IterateCatchesUp == <>[](iseen = Events)

(* A client that pages through an index eventually reaches the end of it  *)
(* (Scan returns the empty cursor).                                      *)
ScanTerminates == []<>(scur = Empty)

=============================================================================
