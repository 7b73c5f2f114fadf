----------------------------- MODULE StreamFile -----------------------------
(***************************************************************************)
(* One stream file of package stream and the openStream value that owns   *)
(* it (src/cluster/rotate_command.go, the part after "package stream").    *)
(*                                                                         *)
(* The file is a sequence of byte cells: the magic header, the encoded     *)
(* events, and after Close the zero sentinel, the SST of chain heads and   *)
(* the magic footer.  An event is abstracted to its payload length and its *)
(* back-pointer map; it occupies EventLen cells, one cell per byte.  The  *)
(* process owning the stream may crash at any time, in particular in the  *)
(* middle of the Write of an event or of the trailer written by Close; the *)
(* file keeps the bytes written so far (a process crash, not a power       *)
(* loss).  A crashed stream is reopened through read()/newOpenStream,     *)
(* which rebuilds tails, offset and length with scan().                    *)
(*                                                                         *)
(* The file handle has one position, moved by Seek, Read and Write.  When  *)
(* SharedHandle is TRUE readers (ScanIndex, Iterate) use the writer's      *)
(* handle, as DB.retrieveStream does for the current stream.               *)
(***************************************************************************)
EXTENDS Naturals, Sequences, SequencesExt, FiniteSets

CONSTANTS
    Labels,        \* index labels ("name:value") an event may carry
    Payloads,      \* payload lengths in bytes (a payload is its length)
    HeaderLen,     \* len(MAGIC_HEADER)
    MaxEvents,     \* bound: events written to the file
    MaxCrashes,    \* bound: crashes of the owning process
    SharedHandle   \* readers move the writer's file position

ASSUME Payloads \subseteq Nat \ {0} /\ HeaderLen \in Nat \ {0}
ASSUME MaxEvents \in Nat /\ MaxCrashes \in Nat /\ SharedHandle \in BOOLEAN

VARIABLES
    file,      \* the file's bytes, one cell per byte
    alive,     \* an openStream for the file exists (its process is up)
    tails,     \* openStream.tails: label -> offset of its latest event
    offset,    \* openStream.offset: where the next event is written
    length,    \* openStream.length: number of events
    closed,    \* openStream.closed
    pos,       \* position of the io.ReadWriteSeeker
    acked,     \* ghost: the events whose Write returned, in order
    crashes    \* ghost: crashes so far

vars == <<file, alive, tails, offset, length, closed, pos, acked, crashes>>

-----------------------------------------------------------------------------
(* Cells of the file.                                                      *)

HdrCell    == [kind |-> "hdr"]
EndCell    == [kind |-> "end"]             \* binary.WriteInt32(s.stream, 0)
FooterCell == [kind |-> "footer"]
SstCell(t) == [kind |-> "sst", tails |-> t] \* SST bytes and their length
EvCell(e, k) == [kind |-> "ev", ev |-> e, k |-> k]

\* A Go map read: a missing key reads as 0.
Lookup(m, k) == IF k \in DOMAIN m THEN m[k] ELSE 0

\* tails after an event carrying idx is placed at offset o.
SetTails(t, idx, o) == [l \in DOMAIN t \cup idx |-> IF l \in idx THEN o ELSE t[l]]

\* newEvent(data, offsets): back-pointers are the current tails (0 if absent).
NewEvent(d, idx) == [data |-> d, offsets |-> [l \in idx |-> Lookup(tails, l)]]

\* event.push: length prefix and index count, one cell per back-pointer
\* entry, one per payload byte.
EventLen(e) == 1 + Cardinality(DOMAIN e.offsets) + e.data
Encode(e)   == [k \in 1..EventLen(e) |-> EvCell(e, k)]

\* Writing cells at position p (p =< Len(f)) overwrites and may extend f.
WriteAt(f, p, cells) ==
    [i \in 1..Max({Len(f), p + Len(cells)}) |->
        IF p < i /\ i =< p + Len(cells) THEN cells[i - p] ELSE f[i]]

Trailer == <<EndCell, SstCell(tails), FooterCell>>

Footered(f) == Len(f) > 0 /\ f[Len(f)] = FooterCell

-----------------------------------------------------------------------------
(* pullEvent: decode the event at offset o.  A sentinel or the end of the *)
(* file is io.EOF; an event cut short by the end of the file (a torn       *)
(* write) is also read as the end; bytes that do not start an intact       *)
(* event are CORRUPTED_EVENT.  next is the handle position afterwards.     *)

Intact(f, o, e) ==
    /\ o + EventLen(e) =< Len(f)
    /\ \A j \in 1..EventLen(e) : f[o + j] = EvCell(e, j)

TornAtEnd(f, o, e) == \A j \in 1..(Len(f) - o) : f[o + j] = EvCell(e, j)

Pull(f, o) ==
    IF o >= Len(f) THEN [st |-> "eof", next |-> Len(f)]
    ELSE LET c == f[o + 1] IN
         CASE c.kind = "end" -> [st |-> "eof", next |-> o + 1]
           [] c.kind = "ev" /\ c.k = 1 /\ Intact(f, o, c.ev) ->
                [st |-> "ok", ev |-> c.ev, next |-> o + EventLen(c.ev)]
           [] c.kind = "ev" /\ c.k = 1 /\ TornAtEnd(f, o, c.ev) ->
                [st |-> "eof", next |-> Len(f)]
           [] OTHER -> [st |-> "corrupt", next |-> Len(f)]

(* scan(): rebuild tails, offset and length from the events after the     *)
(* header; it stops at the first pull that is not an event, and treats    *)
(* io.EOF and CORRUPTED_EVENT alike.  The header is always intact here:   *)
(* createOpenStream writes it before any openStream exists.               *)
\* Fault variant: the event count is not advanced.
RECURSIVE ScanFromNoCount(_, _, _)
ScanFromNoCount(f, o, acc) ==
    LET r == Pull(f, o) IN
    IF r.st = "ok"
    THEN ScanFromNoCount(f, r.next,
                  [tails  |-> SetTails(acc.tails, DOMAIN r.ev.offsets, o),
                   offset |-> r.next, length |-> acc.length, pos |-> r.next])
    ELSE [acc EXCEPT !.pos = r.next]

RECURSIVE ScanFrom(_, _, _)
ScanFrom(f, o, acc) ==
    LET r == Pull(f, o) IN
    IF r.st = "ok"
    THEN ScanFrom(f, r.next,
                  [tails  |-> SetTails(acc.tails, DOMAIN r.ev.offsets, o),
                   offset |-> r.next, length |-> acc.length + 1, pos |-> r.next])
    ELSE [acc EXCEPT !.pos = r.next]

Scan(f) ==
    ScanFrom(f, HeaderLen, [tails |-> [l \in {} |-> 0], offset |-> HeaderLen,
                            length |-> 0, pos |-> HeaderLen])

(* openStream.ScanIndex: follow the back-pointer chain of label l from    *)
(* offset o; a pull that is not an event ends it with that error.          *)
RECURSIVE Chain(_, _, _, _)
Chain(f, o, l, acc) ==
    IF o = 0 THEN acc
    ELSE LET r == Pull(f, o) IN
         IF r.st = "ok"
         THEN Chain(f, Lookup(r.ev.offsets, l), l,
                    [evs |-> Append(acc.evs, r.ev), err |-> FALSE, pos |-> r.next])
         ELSE [acc EXCEPT !.err = TRUE, !.pos = r.next]

ScanIndexOf(f, t, l, p) == Chain(f, Lookup(t, l), l, [evs |-> <<>>, err |-> FALSE, pos |-> p])

(* openStream.Iterate: from the end of the header, pull events until an   *)
(* error; io.EOF is success, any other error is returned.                 *)
RECURSIVE IterateFrom(_, _, _)
IterateFrom(f, o, acc) ==
    LET r == Pull(f, o) IN
    IF r.st = "ok"
    THEN IterateFrom(f, r.next, [acc EXCEPT !.evs = Append(@, r.ev), !.pos = r.next])
    ELSE [acc EXCEPT !.err = (r.st = "corrupt"), !.pos = r.next]

IterateOf(f) == IterateFrom(f, HeaderLen, [evs |-> <<>>, err |-> FALSE, pos |-> HeaderLen])

-----------------------------------------------------------------------------
(* createOpenStream: the header has been written at offset 0.              *)
Init ==
    /\ file = [i \in 1..HeaderLen |-> HdrCell]
    /\ alive = TRUE
    /\ tails = [l \in {} |-> 0]
    /\ offset = HeaderLen
    /\ length = 0
    /\ closed = FALSE
    /\ pos = HeaderLen
    /\ acked = <<>>
    /\ crashes = 0

\* Fault variants of Write: tails pointing past the new event; the event
\* written at the handle position without Seek(s.offset); offset advanced
\* one byte too far; offset advanced one byte short.
WriteTailAfterAdvance(d, idx) ==
    /\ alive /\ ~closed
    /\ Len(acked) < MaxEvents
    /\ LET e == NewEvent(d, idx)
       IN /\ file' = WriteAt(file, offset, Encode(e))
          /\ tails' = SetTails(tails, idx, offset + EventLen(e))
          /\ offset' = offset + EventLen(e)
          /\ length' = length + 1
          /\ pos' = offset + EventLen(e)
          /\ acked' = Append(acked, e)
    /\ UNCHANGED <<alive, closed, crashes>>

WriteNoSeek(d, idx) ==
    /\ alive /\ ~closed
    /\ Len(acked) < MaxEvents
    /\ LET e == NewEvent(d, idx)
       IN /\ file' = WriteAt(file, pos, Encode(e))
          /\ tails' = SetTails(tails, idx, offset)
          /\ offset' = offset + EventLen(e)
          /\ length' = length + 1
          /\ pos' = pos + EventLen(e)
          /\ acked' = Append(acked, e)
    /\ UNCHANGED <<alive, closed, crashes>>

WriteOffsetPastEnd(d, idx) ==
    /\ alive /\ ~closed
    /\ Len(acked) < MaxEvents
    /\ LET e == NewEvent(d, idx)
       IN /\ file' = WriteAt(file, offset, Encode(e))
          /\ tails' = SetTails(tails, idx, offset)
          /\ offset' = offset + EventLen(e) + 1
          /\ length' = length + 1
          /\ pos' = offset + EventLen(e)
          /\ acked' = Append(acked, e)
    /\ UNCHANGED <<alive, closed, crashes>>

WriteOffsetShort(d, idx) ==
    /\ alive /\ ~closed
    /\ Len(acked) < MaxEvents
    /\ LET e == NewEvent(d, idx)
       IN /\ file' = WriteAt(file, offset, Encode(e))
          /\ tails' = SetTails(tails, idx, offset)
          /\ offset' = offset + EventLen(e) - 1
          /\ length' = length + 1
          /\ pos' = offset + EventLen(e)
          /\ acked' = Append(acked, e)
    /\ UNCHANGED <<alive, closed, crashes>>

(* openStream.Write: seek to offset, write the event whose back-pointers  *)
(* are the current tails, then point every label's tail at the old offset *)
(* and advance offset and length.                                          *)
Write(d, idx) ==
    /\ alive /\ ~closed
    /\ Len(acked) < MaxEvents
    /\ LET e == NewEvent(d, idx)
       IN /\ file' = WriteAt(file, offset, Encode(e))
          /\ tails' = SetTails(tails, idx, offset)
          /\ offset' = offset + EventLen(e)
          /\ length' = length + 1
          /\ pos' = offset + EventLen(e)
          /\ acked' = Append(acked, e)
    /\ UNCHANGED <<alive, closed, crashes>>

(* The process dies inside stream.Write after k bytes of the event.       *)
WriteTorn(d, idx, k) ==
    /\ alive /\ ~closed
    /\ Len(acked) < MaxEvents /\ crashes < MaxCrashes
    /\ LET e == NewEvent(d, idx)
       IN /\ k \in 1..(EventLen(e) - 1)
          /\ file' = WriteAt(file, offset, SubSeq(Encode(e), 1, k))
    /\ alive' = FALSE
    /\ crashes' = crashes + 1
    /\ UNCHANGED <<tails, offset, length, closed, pos, acked>>

(* openStream.Close: the sentinel, the SST of the tails (keys sorted) and *)
(* the footer are written where the handle is, then closed is set.         *)
Close ==
    /\ alive /\ ~closed
    /\ file' = WriteAt(file, pos, Trailer)
    /\ pos' = pos + Len(Trailer)
    /\ closed' = TRUE
    /\ UNCHANGED <<alive, tails, offset, length, acked, crashes>>

(* The process dies while Close writes, after k cells of the trailer.      *)
CloseTorn(k) ==
    /\ alive /\ ~closed /\ crashes < MaxCrashes
    /\ k \in 1..(Len(Trailer) - 1)
    /\ file' = WriteAt(file, pos, SubSeq(Trailer, 1, k))
    /\ alive' = FALSE
    /\ crashes' = crashes + 1
    /\ UNCHANGED <<tails, offset, length, closed, pos, acked>>

(* The process dies between two operations.                                *)
Crash ==
    /\ alive /\ crashes < MaxCrashes
    /\ alive' = FALSE
    /\ crashes' = crashes + 1
    /\ UNCHANGED <<file, tails, offset, length, closed, pos, acked>>

\* Fault variant of Reopen: writing resumes where scan() stopped reading.
ReopenAtReadPos ==
    /\ ~alive
    /\ ~Footered(file)
    /\ LET s == Scan(file)
       IN /\ tails' = s.tails
          /\ offset' = s.pos
          /\ length' = s.length
          /\ pos' = s.pos
    /\ alive' = TRUE
    /\ closed' = FALSE
    /\ UNCHANGED <<file, acked, crashes>>

(* read(path) + newOpenStream on a file without footer: seek to 0, scan.   *)
Reopen ==
    /\ ~alive
    /\ ~Footered(file)
    /\ LET s == Scan(file)
       IN /\ tails' = s.tails
          /\ offset' = s.offset
          /\ length' = s.length
          /\ pos' = s.pos
    /\ alive' = TRUE
    /\ closed' = FALSE
    /\ UNCHANGED <<file, acked, crashes>>

(* A reader of label l, through the writer's handle: openStream.ScanIndex. *)
ScanIndex(l) ==
    /\ alive /\ SharedHandle
    /\ pos' = ScanIndexOf(file, tails, l, pos).pos
    /\ UNCHANGED <<file, alive, tails, offset, length, closed, acked, crashes>>

(* A reader through the writer's handle: openStream.Iterate.               *)
Iterate ==
    /\ alive /\ SharedHandle
    /\ pos' = IterateOf(file).pos
    /\ UNCHANGED <<file, alive, tails, offset, length, closed, acked, crashes>>

Next ==
    \/ \E d \in Payloads, idx \in SUBSET Labels :
          \/ Write(d, idx)
          \/ \E k \in 1..(EventLen(NewEvent(d, idx)) - 1) : WriteTorn(d, idx, k)
    \/ Close
    \/ \E k \in 1..(Len(Trailer) - 1) : CloseTorn(k)
    \/ Crash
    \/ Reopen
    \/ \E l \in Labels : ScanIndex(l)
    \/ Iterate

Spec == Init /\ [][Next]_vars

-----------------------------------------------------------------------------
(* Properties.                                                             *)

MaxOffset == HeaderLen + MaxEvents * (1 + Cardinality(Labels) + Max(Payloads)) + 3

OffsetMap(m) == DOMAIN m \subseteq Labels /\ \A l \in DOMAIN m : m[l] \in 0..MaxOffset

CellOK(c) ==
    \/ c \in {HdrCell, EndCell, FooterCell}
    \/ c.kind = "sst" /\ OffsetMap(c.tails)
    \/ /\ c.kind = "ev" /\ c.ev.data \in Payloads /\ OffsetMap(c.ev.offsets)
       /\ c.k \in 1..EventLen(c.ev)

(* Type invariant; offset and the handle never point past the file's end. *)
TypeOK ==
    /\ \A i \in DOMAIN file : CellOK(file[i])
    /\ alive \in BOOLEAN /\ closed \in BOOLEAN
    /\ OffsetMap(tails)
    /\ offset \in HeaderLen..Len(file)
    /\ pos \in 0..Len(file)
    /\ length \in 0..MaxEvents
    /\ crashes \in 0..MaxCrashes

(* Durability of acknowledged writes (write/read round trip and torn-tail *)
(* tolerance): whatever crashes and reopens happened, iterating the file  *)
(* from the header yields exactly the events whose Write returned, in     *)
(* order.  Breaks if a Write or a rebuilt offset lands on an event.       *)
AckedEventsDurable == IterateOf(file).evs = acked

(* Index chain correctness: on a live open stream, ScanIndex of every     *)
(* label visits exactly the acknowledged events carrying it, newest       *)
(* first, without error.                                                  *)
\* The acknowledged events carrying label l, newest first.
NewestFirst(l) == Reverse(SelectSeq(acked, LAMBDA e : l \in DOMAIN e.offsets))

ChainsComplete ==
    alive /\ ~closed =>
        \A l \in Labels :
            LET r == ScanIndexOf(file, tails, l, pos)
            IN r.evs = NewestFirst(l) /\ ~r.err

(* Open-to-closed invariance: the tails, offset and length a live open    *)
(* stream keeps in memory are what scan() rebuilds from its file.         *)
MemoryMatchesFile ==
    alive /\ ~closed =>
        LET s == Scan(file) IN
        s.tails = tails /\ s.offset = offset /\ s.length = length

(* Refinement: the file read from its header is the abstract stream's    *)
(* log.  Every step of the implementation, crashes, torn writes, reopen   *)
(* and reads included, appends one event to it, closes it, or leaves it   *)
(* unchanged; no step rewrites, drops or reorders an event a reader could *)
(* already see.                                                            *)
AbsEvent(e) == [data |-> e.data, labels |-> DOMAIN e.offsets]

AbsLogOf(f) == LET evs == IterateOf(f).evs IN [i \in DOMAIN evs |-> AbsEvent(evs[i])]

Abstract == INSTANCE AbstractStream WITH log <- AbsLogOf(file)

\* Abstract!Spec, with the successor file bound before it is read back.
RefinesAbstractStream ==
    /\ Abstract!Init
    /\ [][LET f2 == file' IN Abstract!Step(AbsLogOf(file), closed, AbsLogOf(f2), closed')]_vars

(* A closed file serves every label: following the chain from the SST    *)
(* head of each label visits exactly the acknowledged events carrying it, *)
(* newest first.                                                           *)
ClosedChainsComplete ==
    closed =>
        /\ Footered(file) /\ file[Len(file) - 1].kind = "sst"
        /\ \A l \in Labels :
              ScanIndexOf(file, file[Len(file) - 1].tails, l, 0).evs =
                  NewestFirst(l)

(* A closed file is read to its sentinel without error, yielding the      *)
(* acknowledged events (forward iteration of a closed file).               *)
ClosedIterable ==
    closed => IterateOf(file).evs = acked /\ ~IterateOf(file).err

=============================================================================
