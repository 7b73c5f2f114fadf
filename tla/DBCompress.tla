------------------------------ MODULE DBCompress ------------------------------
(***************************************************************************)
(* DB with DB.Compress (src/cmd/esdb-reader.go, after "package cluster"). *)
(* Compress is not a consensus command: its caller (not in this            *)
(* repository) runs it on a node whenever that node's streamlock is free, *)
(* so it may fall between any two steps of the apply path, the snapshot    *)
(* goroutine and restarts.  It renames a precomputed .tmpstream over       *)
(* start's file, if that tmpstream exists, and filters closed in memory.   *)
(* The files of (start, stop] stay on disk.                                 *)
(***************************************************************************)
EXTENDS DB

\* The loop of Compress: a commit stays in closed unless start < c <= stop.
Kept(start, stop, c) == c =< start \/ c > stop

\* The .tmpstream of start, produced outside this repository: the events of
\* the listed closed files start..stop, in the order closed lists them.
TmpStream(start, stop) ==
    LET merged == SelectSeq(closed, LAMBDA c : start =< c /\ c =< stop)
    IN [st |-> "closed", evs |-> FlattenSeq([i \in DOMAIN merged |-> files[merged[i]].evs])]

(* DB.Compress(start, stop) under streamlock: drop (start, stop] from      *)
(* closed, forget the cached streams of (start, stop] and of start, and    *)
(* rename the tmpstream over start's file when os.Open finds it.  The      *)
(* caller names two closed commits, start < stop.                          *)
Compress(start, stop) ==
    /\ start \in Range(closed) /\ stop \in Range(closed) /\ start < stop
    /\ \E tmpExists \in BOOLEAN :
          files' = IF tmpExists THEN [files EXCEPT ![start] = TmpStream(start, stop)]
                   ELSE files
    /\ closed' = SelectSeq(closed, LAMBDA c : Kept(start, stop, c))
    /\ streams' = [c \in {d \in DOMAIN streams : Kept(start, stop, d) /\ d # start} |-> streams[c]]
    /\ UNCHANGED <<current, hasStream, mostRecent, log, applied, snap, pending,
                   rotating, restarts>>

(* The tmpstream is precomputed from files that were closed when its      *)
(* producer ran, so Compress is taken between apply steps, not inside a   *)
(* Rotate whose just-closed file is still current.  Its range also leaves *)
(* out current, which spec 3 keeps out of closed and only Rotate's adopt  *)
(* branch puts there.                                                      *)
CompressBetweenApplies(start, stop) ==
    rotating = 0 /\ stop # current /\ Compress(start, stop)

NextWithCompress == Next \/ \E start, stop \in Commits : CompressBetweenApplies(start, stop)

SpecWithCompress == Init /\ [][NextWithCompress]_vars
=============================================================================
