# TLA+ models of esdb's stream files, stream manager and block reader

This directory holds TLA+ models of the event store in `src/`. TLC checks them.
The source tree joins several Go files into three; line numbers below are those of the files as they are in `src/`.

| file | lines | content |
|---|---|---|
| `src/cluster/rotate_command.go` | 1-28 | `RotateCommand` (consensus command calling `DB.Rotate`) |
| | 28-103 | cluster bootstrap (`Connect`, `initRaft`, `joinCluster`, `createCluster`) |
| | 103-342 | package `stream`: `openStream` (New, read, Write, ScanIndex, Iterate, Close, scan) |
| `src/cmd/esdb-reader.go` | 1-114 | the HTTP reader command (`main`, `write`) |
| | 114-158 | package `esdb` event codec (`Event.push`, `pullEvent`) |
| | 159-591 | package `cluster`: type `DB`, the stream manager |
| `src/blocks/reader.go` | 1-111 | block-framed reader |

## 1. Inventory

### Stream file (`openStream`, rotate_command.go 103-342)
- **State:** the file bytes; the handle's position (one `io.ReadWriteSeeker` shared by reads and writes); `tails` (index label -> offset of its newest event); `offset` (end of the last event); `length`; `closed`.
- **Operations:**
  - `New`/`createOpenStream` writes the magic header.
  - `Write` seeks to `offset`, encodes the event with a back pointer per label (the old tail, or 0), writes it, then sets the tails to the old `offset` and advances `offset`.
  - `Close` writes a zero end marker, an SST of the tails, its length and the footer, with **no seek**.
  - `read`/`newOpenStream`/`scan` rebuilds tails/offset/length from the file, stopping at EOF or at the first undecodable event.
  - `ScanIndex` follows one label's back-pointer chain.
  - `Iterate` reads forward from the header.
- **Interactions:** `DB.retrieveStream` hands the current, open stream to readers. Their `ScanIndex`/`Iterate` then seek the writer's handle.
- **Hard behaviours:**
  - a crash tearing a write;
  - reopen after a torn tail;
  - the write and close position after a read on the same handle;
  - 0 as the chain terminator.

### Stream manager (`DB`, esdb-reader.go 159-591)
- **State:** `current`, `closed` (ordered list), `stream` (nil in "mock" mode), `streams` (cache of closed streams), `MostRecent`, `SnapshotBuffer`; the stream directory on disk; the consensus log and its latest snapshot.
- **Operations:**
  - Apply path, one entry at a time in log order:
    - `Write`: skips commits `<= current`; in mock mode it only counts bytes; otherwise it appends and raises `MostRecent`.
    - `Rotate`: adopts a file that is already closed (`addClosed`, no stream), or closes the current stream, `addClosed`, launches `snapshot`, then `setCurrent`. `setCurrent` removes any file at the path and creates a new stream.
  - `snapshot`: a goroutine calling `TakeSnapshotFrom(commit - SnapshotBuffer)`, which calls `Save` (current, MostRecent, closed).
  - Restart: `NewDb` runs `Rotate(1, 0)`. Consensus then calls `Recovery` (`setCurrent(current)`, MostRecent, `addClosed` each) and replays the entries after the snapshot index.
  - Read path: `Continuation`, `Scan`, `Iterate`, `prev`, `next`, `parseContinuation`, `buildContinuation`, `retrieveStream`.
  - `Compress`.
- **Interactions:** the apply path drives the stream-file operations. The snapshot goroutine reads DB state concurrently. Readers run concurrently with the apply path.
- **Hard behaviours:**
  - the snapshot goroutine racing Rotate, and finishing late;
  - crash between Close and setCurrent;
  - replay over files already on disk;
  - mock mode;
  - an unlocked map read (line 517);
  - cursor paging across files.

### The rest
- **RotateCommand and cluster bootstrap:** consensus wiring; only their effect on the DB is kept.
- **Event codec:** a byte format without state; its helpers are not under `src/` (see section 5).
### Blocks reader (`blocks.Reader`, blocks/reader.go 1-111)
- **State:** the underlying `io.ReadSeeker` and its position; `scratch` (fetched bytes not yet parsed); `buffer` (parsed payload not yet read).
- **Operations:** `Read`, `ReadByte` and `Peek` call `fetch(n)` and then serve from `buffer`. `ReadBlock` calls `Seek` and then `Read`. `Seek` drops both buffers. `fetch` reads one physical block (header + block size) per underlying read and calls `parse` once if more than a header arrived. `parse` moves one header's declared body from `scratch` to `buffer`.
- **Hard behaviours:** short blocks with padding, a torn last block, a seek with bytes still buffered, and `Peek` past the end.
- **HTTP command:** I/O only.

## 2. Modules

| module | models | state and actions |
|---|---|---|
| `StreamFile` | `openStream` | `file` is a sequence of cells: `hdr`, an event's k-th cell, `end`, `sst(tails)`, `footer`. The variables are `alive` (process up), `tails`, `offset`, `length`, `closed`, `pos` (handle position), and the ghosts `acked` and `crashes`. The actions are `Write`, `WriteTorn` (crash during the write), `Close`, `CloseTorn`, `Crash`, `Reopen` (read + scan), `ScanIndex` and `Iterate` (they move `pos` when `SharedHandle`). `Pull`, `Scan`, `ScanIndexOf` and `IterateOf` are recursive operators for the decoders. |
| `MC_StreamFile` | labels `{"a","b"}`, payload lengths `{1,2}` | |
| `DB` | `DB` apply path | `files` maps each commit to a state (none/open/closed) and the commits of its events. The other variables are `closed`, `current`, `hasStream`, `mostRecent`, `streams`, `log`, `applied`, `snap`, `pending` (launched snapshot goroutines), `rotating` (inside Rotate, between Close and setCurrent) and `restarts`. The actions are `Propose`, `WriteOld`, `WriteMock`, `WriteAppend`, `RotateAdopt`, `RotateClose`, `RotateSetCurrent`, `RotateNoStream`, `SnapshotGoroutine`, `RestartFresh` (no snapshot) and `RestartRecover` (NewDb + Recovery). |
| `MC_DB` | instantiation of `DB` | |
| `DBReader` | `DB` read path and the `/events` paging client | `files` maps each commit to the events of its file; an event is named by its commit, so commit order is event order. The other writer variables are `indexed` (events that carry the scanned label), `closed`, `current` and `commit`. Each client holds a cursor (`icur`, `scur`) and its last page; the Iterate client also keeps every event it was given (`iseen`). The actions are `Write`, `Rotate`, `Compress(start, stop)`, `IteratePage(L)` and `ScanPage(L)`. `Compress` is only taken on ranges that no client's cursor names: the caller requirement that spec 9 recommends and the code does not check. `parseContinuation`, `buildContinuation`, `Prev`, `Next1`, `Continuation`, `Scan` and `Iterate` (with the recursive loops `ScanLoop` and `IterLoop`) are operators translated from the code. The Stream calls they make (`ScanIndex`, `Iterate`, `First`) are modelled from spec 4.4 (`ScanChain`, `IterChain`, `IndexTail`). A cursor is the pair `<<commit, offset>>` it encodes, with `""` as `Empty`, and an offset is an event position. |
| `MC_DBReader` | instantiation of `DBReader` | |
| `BlocksReader` | `blocks.Reader` | `file` (bytes; header = little-endian length, padding 0, payload bytes distinct values from 100), the reference `stream` of payload bytes and `starts` (stream offset of each block) are fixed in `Init`. All block layouts and torn tails up to `MaxBlocks` blocks are enumerated. The variables are `pos`, `scratch` and `buffer`, `lpos` (where a correct reader would be) and `last` (the call last made and its result). The actions are `Read(n)`, `ReadByte`, `Peek(n)`, `SeekCall(k)` and `ReadBlock(k)`. `Fetch` and `parseHeader` are recursive operators, `Parse` and `Seek` are operators over the reader's state record. `headerLen` and the block writer are not under `src/`; `HeaderLen`, `LittleEndian` and `PhysicalBlock` are taken from spec 4.1. |
| `MC_BlocksReader` | instantiation of `BlocksReader` | |
| `DBCompress` | `DB.Compress` on the apply path | Extends `DB` with `Compress(start, stop)`: closed is filtered (`Kept`), the tmpstream (the events of the listed files start..stop, `TmpStream`, from spec 4) is renamed over start's file or is missing, and the cached streams of start..stop are dropped. The files of (start, stop] stay. `CompressBetweenApplies` schedules it between apply steps, on a range that leaves out `current`. Its caller is not in this repository, and the tmpstream is precomputed from files that were already closed. |
| `AbstractStream` | what a stream file promises (spec 4.4) | `log` (events as data and labels) and `closed`. A step appends one event to an open log, seals it, or leaves both unchanged. |

Each action models a whole code path. Rotate is split at the one point where another thread can observe it, between `Close`/`addClosed` and `setCurrent`, because the snapshot goroutine can run there. A process crash can happen between any two actions.

In `DBReader` one request is one action: a page is computed against one state of the writer. The writer never changes a file's existing events (the DB module checks that for crashes and replay), so what a request can observe between its own reads is its state at the start or at the end, plus appends to the tail of the current file.

`StreamFile` refines `AbstractStream`. The refinement mapping sends the file to the events `Iterate` decodes from its header, each as its data and label set, and sends `closed` to `closed`. `RefinesAbstractStream` is `Abstract!Spec` with the abstract step written as `Step(log, closed, log2, closed2)` over explicit values. The successor file is bound first (`LET f2 == file'`) and the mapping is then applied to it, because TLC evaluates a primed recursive operator much more slowly.

Operators named `...NoCount`, `...NoSeek`, `...PastEnd`, `...AfterAdvance`, `...AtReadPos`, `...SumTs`, `...NoAdd`, `...Keep`, `...Short`, `...NoDedup`, `...WithStop`, `...ClosedOnly`, `...KeepOffset`, `...Once`, `...KeepBuffer` and `...KeepScratch` are fault variants of the definition that follows them. Each is a plausible bug in that code. They are not used by `Next`. They exist so that every checked property is shown to be broken by some bug in the code it is about.

## 3. Runs

| run (cfg) | expect | shows |
|---|---|---|
| `StreamFile_crash` | pass | Crashes tear writes, then the stream reopens. Iteration returns exactly the acknowledged events (`AckedEventsDurable`). Every label chain is complete and newest first (`ChainsComplete`). `scan` agrees with the writer's memory (`MemoryMatchesFile`). `RefinesAbstractStream`: no step, crashes and reopen included, rewrites, drops or reorders an event a reader could already see. |
| `StreamFile_shared` | pass | Readers move the writer's handle, and later writes stay correct because `Write` seeks. |
| `StreamFile_reopen_close` | violation | A reopen after a torn write, then `Close`: the trailer lands after the torn bytes, and the closed file does not iterate (`ClosedIterable`). The same missing seek makes `Close` overwrite events after a read through the writer's own handle (`SharedHandle`); that route is described in the finding but has no run of its own. |
| `DB_async` | pass | The snapshot goroutine runs at any time, and replay never stores an event twice. `closed` stays in commit order (`ClosedAscending`), so `parseContinuation`'s `closed[0]` is the oldest file. |
| `DB_late_snapshot` | violation | A late snapshot pairs an old index with newer state, and an event is lost. |
| `DB_racy_snapshot` | violation | A snapshot inside Rotate records the closed file as current; Recovery deletes it. |
| `DBCompress_restart` | violation | A snapshot records `closed` = [1, 2]. `Compress(1, 2)` renames the tmpstream over file 1 and drops 2 from `closed`, in memory only. After a crash, `Recovery` lists 2 again, and its file is still on disk, so its events are listed twice (`NoEventDuplicated`, line 384). |
| `DBReader_paging` | pass | Iterate and Scan clients page while the writer appends and rotates, and `Compress` merges closed files that no cursor names. Iterate never skips an event (`IterateNoGap`). One Scan call walks the index newest first, across files, without skipping or repeating an indexed event (`ScanPageConsecutive`). Under fair polling the Iterate client eventually holds every event written (`IterateCatchesUp`). |
| `DBReader_iterate_end` | violation | At the end of the newest file `Iterate` returns `""`, and the next page starts again at `closed[0]`: events are delivered twice (`IterateNoDuplicates`, line 354). |
| `DBReader_scan_stop` | violation | `Scan` stopped inside a file returns `commit:0` (line 330). The client re-reads the file's tail page forever and never reaches the empty cursor (`ScanTerminates`). |
| `BlocksReader_read` | pass | On files where every block but the last is full, and the last may be torn anywhere, any interleaving of `Read`, `ReadByte`, `Peek`, `Seek` and `ReadBlock` returns the next bytes of the payload stream (`ReadContract`). `Peek` shows those bytes, and `fetch` comes up short of n bytes only at the end of the stream, so the slice past the buffer at line 46 is reached only at end of file (`PeekContract`). Unparsed bytes stay in `scratch` only at the end of the file (`ScratchOnlyAtEnd`): the padding of a short last block or a torn tail. |
| `BlocksReader_padding` | violation | A block before the last that carries padding: `parse` leaves the padding in `scratch`, the next header is read from it, and a `Read` returns nothing before the end of the stream (`ReadContract`, line 81). |

The findings and the hazards they relate to are in `PROJECT.json`.

### Bounds
- **StreamFile:**
  - 3 events and 2 labels, so chains of length 2 and events with zero, one or two labels occur.
  - 2 payload lengths, so torn cuts at several positions occur.
  - 2 crashes, so a crash after a reopen occurs.
  - Header length 1: only "non-zero" matters to the code.
- **DB:**
  - A log of 6 entries, which gives room for three rotations.
  - `SnapshotBuffer` 2 in the pass run and in `DBCompress_restart`, so replay starts at writes already stored and the old-commit skip is exercised. The code's default is 500.
  - `SnapshotBuffer` 1 in the violation runs, which gives the shortest traces.
  - 2 restarts; 2 timestamps, so that max is not last. `DBCompress_restart` needs only 1 restart and 1 timestamp.
  - The snapshot goroutine (line 463) runs at any point in the pass run `DB_async`, because the code orders it against nothing. `SnapshotBeforeNext` and `SnapshotDuringApply` only narrow that schedule in the violation runs. Each narrowed schedule is a subset of the code's behaviours, and it isolates one route to the loss. No pass run relies on them, because `NoEventLost` fails under the code's schedule.
- **DBReader:**
  - 4 writer steps after the initial file (`MaxCommit` 5), so a cursor can point into a file that later closes, and two closed files with events can be compressed into one. The violation run uses 5 steps, so that a file holds two events and the stopped cursor can stay in it.
  - Page limits {1,2}, so a page stops in the middle of a file, at its end, or spans files.
  - The clients' own steps are unbounded: the cursor space is finite.
- **BlocksReader:**
  - `BlocksReader_read`: block size 3 with the real 2-byte header (`headerLen` for sizes below 2^16), so a block is 5 bytes and the padding of a short block can be longer than a header. Up to 4 blocks, and every cut of the last block (0 to 4 bytes missing), which includes torn tails of at most a header that `fetch` never parses. Read sizes {1, 2, 4}: within a block, a whole short block, and across a block boundary. (With block size 2, padding is never longer than a header, and an earlier, too strong version of `ScratchOnlyAtEnd` passed only for that reason.)
  - `BlocksReader_padding`: block size 2, 3 blocks and read sizes {1, 3}, which gives the shortest trace.
- `CHECK_DEADLOCK FALSE`: a closed stream and a full log are final states by design, and the bounds end every behaviour.

### Fairness
The liveness properties are about a client that keeps polling, as the reader command's clients do. `IterateFairSpec` and `ScanFairSpec` add weak fairness on that client's page action: a request it can make is eventually served. The handler serves every request, and nothing in `DB` blocks a reader, so this is justified. The writer gets no fairness, because the properties must hold however long the log stops growing. Each liveness run has its own fair specification with one fairness conjunct, because a second one would only constrain a client the property does not mention.

## 4. Open questions
1. A missing tmpstream (esdb-reader.go 378). `DBCompress`'s `Compress` has the branch where `os.Open` finds no tmpstream: `closed` shrinks and nothing is renamed, so the events of (start, stop] are no longer listed. No run checks `NoEventLost` with `Compress`, because whether the tmpstream exists is up to its producer, which is not in this repository.

## 5. Not modelled
- The consensus engine itself. It is assumed to:
  - apply entries in order;
  - replay every entry after the snapshot index;
  - ignore `TakeSnapshotFrom(0)` and snapshots not newer than the latest.
- Power loss: the code never fsyncs, so only a process crash is modelled (written bytes survive).
- The HTTP command, flag parsing and JSON.
- File-recovery RPC from peers: `fetchMissing` is false on the apply path.
- Byte layout: varints and the SST format. Block headers are modelled byte by byte in `BlocksReader`.
- What `Peek` returns past the end of the stream. `PeekContract` shows that this case arises only at the end of the stream, and the action records it (`last.op = "peekpast"`). The bytes then returned (stale bytes of the buffer's array, or a panic) depend on the buffer's capacity, which is not modelled. Spec 4.1 does not say what `Peek(n)` should return when fewer than n bytes remain.
- `Peek`'s result aliases the buffer's array. The model gives it as a value, so a later fetch that slides the buffer under a caller's slice is not represented.
- I/O errors of the underlying file other than `io.EOF`. `Read` drops `fetch`'s error, and such an error would look like the end of the data.
- The esdb event codec (`Event.push`, `pullEvent`, esdb-reader.go 114-158). Each is three calls to helpers that are not under `src/` (`writeUvarint`, `writeInt32`, `readUvarint`, `readInt32`, `readBytes`). Neither are the writer that frames pushed events into blocks or the reader that positions `pullEvent`. Short reads, torn events and empty payloads are all decided by that missing code, so a model would be invented rather than translated. The events sort has no state.
- `Seek` with a whence other than 0 returns `BadSeek` and changes nothing; it is not an action.
- The adopt branch of `Rotate` puts `current` into `closed`, against the spec's invariant. `RotateAdopt` models it, but no run checks that invariant any more.
- `retrieveStream`'s cache of open closed streams: it does not change what a read returns. Its unlocked map read (line 517) is a data race whose outcome is a runtime crash of the reader, and this model does not represent that.
- The producer of a `.tmpstream` is not in this repository. `DBReader` assumes the tmpstream for `start` exists and holds the events of the closed files `start..stop` in commit order, with `start`'s own events first and at their old offsets.
- The cluster `Reader` that the HTTP handler calls (not under `src/`) is taken to forward to `DB.Scan` and `DB.Iterate`.
