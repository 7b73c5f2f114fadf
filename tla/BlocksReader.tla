---------------------------- MODULE BlocksReader ----------------------------
(***************************************************************************)
(* The block-framed reader of src/blocks/reader.go.  The underlying file   *)
(* is a sequence of physical blocks header(len) || payload || padding of   *)
(* width HeaderLen + BlockSize (spec 4.1).  The reader fetches one         *)
(* physical block per underlying Read into scratch and parses one block    *)
(* header and body from scratch into buffer.  Read, ReadByte and Peek are *)
(* served from buffer.  Seek and ReadBlock reposition the file and drop    *)
(* both buffers.                                                           *)
(*                                                                         *)
(* Bytes are numbers: a header is its length in little endian, padding is *)
(* 0, and payload bytes are distinct values from 100 upwards, so a header *)
(* or padding byte delivered as data is visible.  The file is fixed for a *)
(* behaviour and chosen in Init: up to MaxBlocks blocks, with the last one *)
(* possibly cut short by a crash (a torn tail).  The underlying reader is *)
(* a bytes.Reader or an *os.File on a regular file.  A Read of it returns *)
(* min(width, remaining) bytes, and 0 with io.EOF at the end.              *)
(***************************************************************************)
EXTENDS Naturals, Sequences, SequencesExt

CONSTANTS
    BlockSize,    \* payload capacity of a block
    MaxBlocks,    \* bound: blocks in the file
    ReadSizes,    \* lengths of the caller's Read and Peek buffers
    PadMidFile    \* a block other than the last may carry padding

ASSUME BlockSize \in 1..200 /\ MaxBlocks \in Nat \ {0} /\ ReadSizes \subseteq Nat \ {0}
ASSUME PadMidFile \in BOOLEAN

\* headerLen(blockSize): 2, 4 or 8 bytes, the width that holds blockSize.
HeaderLen == IF BlockSize < 2^16 THEN 2 ELSE IF BlockSize < 2^32 THEN 4 ELSE 8

Width == HeaderLen + BlockSize

\* Little-endian encoding of n in k bytes, and parseHeader's decoding.
LittleEndian(n, k) == [i \in 1..k |-> (n \div 2^(8 * (i - 1))) % 256]

RECURSIVE parseHeader(_)
parseHeader(head) ==
    IF head = <<>> THEN 0 ELSE Head(head) + 256 * parseHeader(Tail(head))

\* The payload bytes of block j of length p.
Payload(j, p) == [i \in 1..p |-> 99 + (j - 1) * BlockSize + i]

PhysicalBlock(j, p) ==
    LittleEndian(p, HeaderLen) \o Payload(j, p) \o [i \in 1..(BlockSize - p) |-> 0]

Physical(ps) == FlattenSeq([j \in DOMAIN ps |-> PhysicalBlock(j, ps[j])])

\* Block layouts: every block full but the last, unless PadMidFile.
Layouts ==
    { ps \in UNION {[1..k -> 0..BlockSize] : k \in 1..MaxBlocks} :
        PadMidFile \/ \A j \in 1..(Len(ps) - 1) : ps[j] = BlockSize }

\* What the spec promises a reader of a file cut after L bytes: the
\* concatenation of the payload bytes present in it, in block order.
StreamOf(ps, L) ==
    FlattenSeq([j \in DOMAIN ps |->
        LET present == L - (j - 1) * Width - HeaderLen
        IN SubSeq(Payload(j, ps[j]), 1, IF present < 0 THEN 0 ELSE Min({present, ps[j]}))])

VARIABLES
    file,      \* the bytes of the underlying file (fixed)
    stream,    \* the byte stream it stands for (fixed)
    starts,    \* k -> the stream offset where block k + 1 starts (fixed)
    pos,       \* the underlying reader's position
    scratch,   \* r.scratch: fetched bytes not yet parsed
    buffer,    \* r.buffer: parsed payload bytes not yet read
    lpos,      \* the position in stream a correct reader would be at
    last       \* the call last made and what it returned

vars == <<file, stream, starts, pos, scratch, buffer, lpos, last>>
fixed == <<file, stream, starts>>

-----------------------------------------------------------------------------
(* parse: read a header's worth of bytes from scratch, then as many of     *)
(* the bytes it declares as scratch holds, and append them to buffer.      *)
Parse(st) ==
    LET head == SubSeq(st.scratch, 1, HeaderLen)
        rest == SubSeq(st.scratch, HeaderLen + 1, Len(st.scratch))
        k    == Min({parseHeader(head), Len(rest)})
    IN [st EXCEPT !.scratch = SubSeq(rest, k + 1, Len(rest)),
                  !.buffer  = @ \o SubSeq(rest, 1, k)]

\* What one Read of the file returns at position p: a block's width, what is
\* left, or 0 (io.EOF) at or past the end.
Available(p) == IF p >= Len(file) THEN 0 ELSE Min({Width, Len(file) - p})

\* Fault variant of Fetch: one block is read, whatever length asks for.
FetchOnce(length, st) ==
    IF Len(st.buffer) >= length THEN st
    ELSE LET n   == Available(st.pos)
             st2 == [st EXCEPT !.pos = @ + n,
                               !.scratch = @ \o SubSeq(file, st.pos + 1, st.pos + n)]
         IN IF n > HeaderLen THEN Parse(st2) ELSE st2

(* fetch(length): while buffer holds fewer than length bytes, read one     *)
(* physical block into scratch and, if more than a header arrived, parse   *)
(* once; stop at the read's error (io.EOF, with n = 0).                    *)
RECURSIVE Fetch(_, _)
Fetch(length, st) ==
    IF Len(st.buffer) >= length THEN st
    ELSE LET n   == Available(st.pos)
             st2 == [st EXCEPT !.pos = @ + n,
                               !.scratch = @ \o SubSeq(file, st.pos + 1, st.pos + n)]
             st3 == IF n > HeaderLen THEN Parse(st2) ELSE st2
         IN IF n = 0 THEN st3 ELSE Fetch(length, st3)

\* Fault variants of Seek: buffer and scratch are kept; scratch is kept.
SeekKeepBuffer(k, st) == [st EXCEPT !.pos = k * Width]

SeekKeepScratch(k, st) == [st EXCEPT !.pos = k * Width, !.buffer = <<>>]

(* Seek(offset, 0), offset the start of block k + 1: drop buffer and       *)
(* scratch and seek the file.  A whence other than 0 returns BadSeek and   *)
(* changes nothing.                                                       *)
Seek(k, st) == [pos |-> k * Width, scratch |-> <<>>, buffer |-> <<>>]

State == [pos |-> pos, scratch |-> scratch, buffer |-> buffer]

Init ==
    /\ \E ps \in Layouts, cut \in 0..(Width - 1) :
          LET L == Len(Physical(ps)) - cut IN
          /\ L > (Len(ps) - 1) * Width
          /\ file = SubSeq(Physical(ps), 1, L)
          /\ stream = StreamOf(ps, L)
          /\ starts = [k \in 0..Len(ps) |-> Len(StreamOf(SubSeq(ps, 1, k), L))]
    /\ pos = 0 /\ scratch = <<>> /\ buffer = <<>>
    /\ lpos = 0
    /\ last = [op |-> "none", want |-> 0, bytes |-> <<>>, from |-> 0]

(* buffer.Read(p) with len(p) = n after fetch(n) from st: the bytes        *)
(* returned, with the stream position the call started at.                *)
Serve(op, n, st, from) ==
    LET k == Min({n, Len(st.buffer)}) IN
    /\ pos' = st.pos
    /\ scratch' = st.scratch
    /\ buffer' = SubSeq(st.buffer, k + 1, Len(st.buffer))
    /\ last' = [op |-> op, want |-> n, bytes |-> SubSeq(st.buffer, 1, k), from |-> from]
    /\ lpos' = Min({from + n, Len(stream)})
    /\ UNCHANGED fixed

\* Read(p), len(p) = n.
Read(n) == Serve("read", n, Fetch(n, State), lpos)

\* ReadByte: fetch(1), then a one-byte buffer.Read; it returns b[0].
ReadByte == Serve("readbyte", 1, Fetch(1, State), lpos)

\* ReadBlock(offset): Seek(offset, 0), then Read of a BlockSize slice.
ReadBlock(k) ==
    Serve("readblock", BlockSize, Fetch(BlockSize, Seek(k, State)), starts[k])

(* Peek(n): fetch(n), then buffer.Bytes()[:n], nothing consumed.  When     *)
(* fetch stopped at io.EOF with fewer than n bytes the slice reaches past  *)
(* the buffered bytes: stale bytes of the buffer's array, or a panic.      *)
Peek(n) ==
    LET st == Fetch(n, State) IN
    /\ pos' = st.pos /\ scratch' = st.scratch /\ buffer' = st.buffer
    /\ last' = [op |-> IF n > Len(st.buffer) THEN "peekpast" ELSE "peek", want |-> n,
                bytes |-> SubSeq(st.buffer, 1, Min({n, Len(st.buffer)})), from |-> lpos]
    /\ UNCHANGED <<file, stream, starts, lpos>>

\* The Seek method, to the start of block k + 1.
SeekCall(k) ==
    LET st == Seek(k, State) IN
    /\ pos' = st.pos /\ scratch' = st.scratch /\ buffer' = st.buffer
    /\ lpos' = starts[k]
    /\ last' = [op |-> "seek", want |-> 0, bytes |-> <<>>, from |-> starts[k]]
    /\ UNCHANGED fixed

Next ==
    \/ \E n \in ReadSizes : Read(n) \/ Peek(n)
    \/ ReadByte
    \/ \E k \in DOMAIN starts : SeekCall(k) \/ ReadBlock(k)

Spec == Init /\ [][Next]_vars

-----------------------------------------------------------------------------
(* Properties.                                                             *)

(* The read side contract of spec 4.1: Read, ReadByte and ReadBlock serve  *)
(* a byte stream over the concatenation of the payloads.  Each returns the *)
(* next bytes of that stream, as many as asked for or as remain, so no     *)
(* header or padding byte is emitted and no payload byte is skipped.       *)
ReadContract ==
    last.op \in {"read", "readbyte", "readblock"} =>
        LET want == Min({last.want, Len(stream) - last.from}) IN
        last.bytes = SubSeq(stream, last.from + 1, last.from + want)

(* Peek(n) (line 46) is non-consuming and slices n bytes of the buffer.   *)
(* It shows the next bytes of the stream, and fetch stops short of n      *)
(* bytes only when the stream ends: the slice past the buffered bytes,    *)
(* which returns stale bytes or panics, is reached only at end of file.  *)
PeekContract ==
    last.op \in {"peek", "peekpast"} =>
        LET left == Len(stream) - last.from IN
        /\ last.bytes = SubSeq(stream, last.from + 1, last.from + Min({last.want, left}))
        /\ (last.op = "peekpast") = (left < last.want)

(* parse consumes every block fetch hands it, header, body and nothing   *)
(* else, and Seek drops what is left.  So bytes stay in scratch only at   *)
(* the end of the file: the padding of a short last block, or a torn     *)
(* tail of at most a header, which fetch never parses.  Anywhere else a  *)
(* leftover would be read as the next header.                             *)
ScratchOnlyAtEnd == scratch # <<>> => pos = Len(file)

=============================================================================
