# deeplog in TLA+

deeplog is a structured logging library.  Application threads encode records
into a *message bus*; a consumer drains the bus in batches and hands them to
*sinks*, which write record containers (`.dlog` files).  Buses and containers are
files registered in a *file database*, so that a process that finds the files
of a dead one can recover the records left in its buses.

All paths below are relative to `libs/deeplog/src/dplx/dlog/` unless they start with
`libs/`, `docs/` or `apps/`.

## 1. Inventory

| component | source | state it keeps | operations |
| --- | --- | --- | --- |
| message bus region | `bus/mpsc_bus.hpp` | per region, in a mapped file: `read_ptr`, `alloc_ptr`, a ring of 4 byte blocks holding heads (size + lock and consumed flag) and payloads | `allocate`, `output_buffer::sync_output`, `read_region` |
| bus creation, recovery, region choice | `bus/mpsc_bus.cpp`, `.hpp` | magic, info block, regions, span counter | `mpsc_bus`, `recover_mpsc_bus`, `recover_region`, `allocate_record_buffer_inplace`, `create_span_context` |
| database bus handle | `bus/mpsc_bus.cpp:374-470` | the bus and its entry in the database | create, move, `unlink` |
| buffer bus | `bus/buffer_bus.hpp` | a write position in one mapped buffer | `allocate`, `consume_messages`, `clear` |
| file database | `core/file_database.cpp` | root file: magic and two revision slots, each a list of containers and a list of buses; per handle a decoded copy | `fetch_content`, `create_record_container`, `update_record_container_size`, `prune_record_containers`, `create_message_bus`, `remove_message_bus`, `prune_message_buses`, `unlink_all*` |
| revision slots | `detail/interleaving_stream.hpp` | blocks of two interleaved streams in one file | reading and writing stream 0 and stream 1 |
| file sink | `sinks/file_sink.cpp` | output buffer, container size, file, rotation number | `initialize`, `do_grow`, `do_bulk_write`, `do_sync_output`, `rotate`, `finalize` |
| sink frontend | `sinks/sink_frontend.*` | last status, threshold, attributes | `try_consume`, `try_sync`, `try_finalize`, `is_active` |
| log fabric | `log_fabric.*` | the bus, the list of sinks | `create_sink`, `attach`, `destroy_sink`, `release`, `clear`, `sync_sinks`, `retire_log_records` |
| message parser | `core/serialized_messages.*` | none | `preparse_messages`, `multicast_messages` |
| log clock | `core/log_clock.*` | epoch of system and steady time | `try_sync_with_system`, conversions |
| spans | `source/span_scope.*`, `source/log_context.hpp` | the thread's log context, the scope's span and previous context | open, close, `none` |
| logging front end | `source/log.cpp`, `source/record_output_buffer.hpp` | none | threshold, size computation, `enqueue_message`, `record_output_guard` |
| log display grid | `libs/deeplog_tui/` | selection, rows of its box, lines of the last frame | `OnEvent`, `OnRender` |
| viewer | `apps/deeplog-cli/` | the records of all containers, the epoch they are shown with | loading, sorting |
| chunked input | `detail/file_stream.hpp` | buffer, offset of the next chunk | `require_input`, `discard_input`, `bulk_read` |
| codecs, values, attributes | `any_reified`, `loggable`, `record_container`, `core/strong_types`, ... | none | encoding, decoding, formatting |

### How the parts interact

* A logging call (`source/log.cpp`) computes the encoded size, allocates a buffer on
  the bus and encodes into it.  `record_output_guard` publishes the buffer when
  it goes out of scope, on the error path too.  Any number of threads do
  that at the same time.
* `log_fabric::retire_log_records` runs on one thread at a time.  It calls
  `bus.consume_messages`, whose callback parses a batch and hands it to every
  sink that is still active; afterwards the bus marks the batch as consumed.
* The mpsc bus and the file sink live in files registered in the file
  database.  Several processes share the database through an exclusive lock
  on the root file; a living bus holds a lock on its own file, which keeps
  `prune_message_buses` of other processes off it.
* Other processes prune containers, with limits or a predicate, or unlink everything;
  a sink that is open holds a lock on its file, which keeps them off it.
* The viewer reads containers with decoders of its own.  Nothing but the bytes tells
  it what was logged: the sizes computed by the logging call, what was emitted into them,
  and what the decoders take them for have to agree.
* After a crash `prune_message_buses` of the next process locks the bus of the
  dead one, replays it with `recover_mpsc_bus` into a new record container and
  removes its entry.

### What is hard

* The ring is lock free: producers race with each other for the alloc hand and
  with the consumer for the blocks; only the content that free blocks happen
  to have keeps the consumer from reading a place before its head is stored.
* A producer may be delayed at any point: between the load of the read hand and
  the compare-exchange, between the compare-exchange and the head.
* A crash leaves a region at any of these points, and recovery has to make sense
  of it without knowing who was where.
* Database transactions write a slot, then flip the revision, and touch other
  files before or after it.  Each step may be the last one.
* The size of a container is found out by the sink that wrote it, after it gave up the
  file's lock, or by a prune in another process, whichever comes first.
* Encoders and the sizes that are reserved for them are separate code, and the decoders a third
  one; a disagreement shows in another process, and costs a whole container.
* A sink that fails is dropped for the rest of a batch while the bus goes
  on and releases the messages.

### What makes each component correct

| component | properties |
| --- | --- |
| region | no block belongs to two records; records come out once, in order, complete and only after they were published; a published record comes out; an empty region takes a record of less than half its size; nothing leaves the region |
| recovery | what was published and not consumed comes out once and in order; at most one batch is seen twice; a torn place costs less than a batch of what is before it, and brings back nothing that was given back to the producers |
| region choice | records of one thread or span stay in order as long as no region is full |
| file database | the newest readable revision never goes back; no two live entries name the same file; a commit builds on the newest content; what a crash leaves behind is found again; a container stays listed as long as its file exists and as it is its sink's; a prune removes the oldest; sizes are those of the files |
| revision slots | blocks of the two streams are disjoint and cover the file |
| file sink | every byte given to the sink is written once and in order, rotation splits at record boundaries, the size in the database is the size of the file |
| fabric and sinks | each active sink sees each batch once; a failed sink sees nothing further until its status is cleared |
| clock | a drift is corrected once, however many threads notice it, and wrong by no more than a pause |
| spans | the thread's context after a scope is the one before it; open and close messages match |
| codecs and viewer | what is logged without an error is shown as it was logged, in the order of time, whatever was logged besides it |
| display grid | the selected record is in the rendered window; the display comes to rest |

`PROJECT.json` lists the hazards of each component at the line where they bite.

## 2. Plan

| step | module | about | state |
| --- | --- | --- | --- |
| 1 | `RecordQueue` | what a region promises: a queue of records | done |
| 2 | `MpscRegion` | the ring, producers and consumer; implements `RecordQueue` | done |
| 3 | `MpscRecovery` | extends `MpscRegion` by a crash and `recover_region` | done |
| 4 | `MpscRegion_proofs` | type correctness and memory safety for every instance | done |
| 5 | `RootFile` | the two slots of the root file, transactions, crashes, several handles | done |
| 6 | `Registry` | what the root file promises: one list, replaced at once by the holder of the lock | done |
| 7 | `RootFile_proofs` | an inductive invariant, the safety properties, and that `RootFile` implements `Registry` | done |
| 8 | `BusRegistry` | creation, removal and recovery of buses over a `Registry` | done |
| 9 | `FileSink` | a sink's backend: buffer, container and rotation | done |
| 10 | `LogFabric` | composes `FileSink`s: batches, frontends that fail, sinks that come and go | done |
| 11 | `SpanBus` | several regions, records that spill, spans and the thread's log context | done |
| 12 | `ContainerRegistry` | record containers over a `Registry`: rotations, sizes, both prunes and their limits, `unlink_all` | done |
| 13 | `SlotLayout`, first part of `RootFile_proofs` | the block arithmetic of `interleaving_stream`; that writes to one slot leave the other one alone, proved | done |
| 14 | `Items`, `RecordCodec`, `BufferBus`, `LogClock`, `RecordPath`, `LogView` | a record from the call to the screen: codecs, buffer bus, clock, containers, viewer | done |
| 15 | second part of `MpscRegion_proofs` | an inductive invariant for order and ownership of a region, the refinement step by step | done |
| 16 | `MpscRecovery_proofs` | what a recovery hands over | done |
| 17 | `ContainerRegistry_proofs`, `BusRegistry_proofs` | inductive invariants and the safety properties of the database's containers and buses | done |
| 18 | `SpanBus_proofs` | an inductive invariant; ids, order and life of spans, the search for room, the rounds of the consumer | done |
| 19 | `LogView_proofs` | the epoch of the clock, the window of records on the screen | done |
| 20 | `LogFabric_proofs` | an inductive invariant of the fabric and its sinks; order, completeness and shape of what they store | done |

`MpscRecovery` extends `MpscRegion` and `LogFabric` extends `FileSink`.  `BusRegistry` and
`ContainerRegistry` instantiate `Registry`, the abstract specification that `RootFile`
implements, with lists that are sets of entries: a transaction of theirs is, one level down, the
slot writes of `RootFile`.  `LogView` extends `RecordPath`, which extends `LogClock` and
`BufferBus`; that extends `RecordCodec` and that `Items`.

## 3. What is modelled

### MpscRegion

| model | code |
| --- | --- |
| `read_ptr`, `alloc_ptr` | the region's shared hands (`mpsc_bus_region_ctrl`), in blocks of 4 bytes |
| `mem` | the region's words: `data` for payload, else a head with `lock`, `consumed` and `size`; `Fill` is `unused_block_content`, which as a head has both flags and an impossible size |
| `pc`, `want`, `readHand`, `allocHand`, `cur` | per producer: where it is in `allocate` and `sync_output`, the size it asks for, its copies of the hands, its message |
| `cpc`, `readPos`, `batch` | the consumer in `read_region`: scanning or marking, its position, `infos` |
| `log`, `delivered`, `freed`, `overtaken`, laps | history: allocations, hand-overs, what was given back, how often each hand went round |

| action | code |
| --- | --- |
| `LoadReadHand`, `LoadAllocHand` | `mpsc_bus.hpp:402-405` |
| `Claim`, `Retry`, `Reject` | one pass of the loop 408-438: the compare-exchange succeeds, fails, or nothing fits |
| `StoreHead` | 440-450 |
| `Encode`, `EncodeFails` | the record is written, or fails half way and is published all the same (`source/record_output_buffer.hpp:52-98`) |
| `Unlock` | 221-233 |
| `ConsumeNothing`, `ConsumeBegin`, `Scan`, `Deliver`, `MarkConsumed`, `ConsumeEnd` | `read_region`, 249-343: one action per head looked at, per callback and per message marked |

Abstractions, and why they are sound:

* *Blocks instead of bytes.*  Heads and payloads start on a block, the region
  ends on one, and every comparison of the code is between multiples of the
  block size or with a size that is rounded up first.
* *Sequential consistency.*  The payload is ordered by the release in
  `sync_output` and the acquire of the head, the memset by the release store of
  `read_ptr` and the acquire load in `allocate`; every other access is to a single
  word that has one writer at a time, or to a hand changed by compare-exchange.
* *Payload words are data.*  Read as a head they may be anything
  (`HeadsReadFrom`), so an execution that reads payload as a head branches over
  what that could mean.
* *One region.*  Regions share nothing; the choice of the region is in `SpanBus`.
* *32 bit arithmetic* does not overflow for regions below 1 GiB; larger ones are
  listed as a hazard.

**Overtaking.**  `allocate` loads the read hand once and keeps it through any
number of failed compare-exchanges, and there is no bound on the time between the load and
the compare-exchange.  If the other threads and the consumer go round the ring
in between, the producer's idea of where free memory begins is a lap old: it may
move the alloc hand over records that were not read.  The run `region_stale_hand`
shows how records get lost that way (a finding).  The history variable `overtaken`
becomes true at such a claim.  The properties about order and ownership hold of
all executions up to there, which is how they are stated; `InsideRegion` holds
afterwards too: a placement is inside the region whatever the hands are.  The
consumer may then take payload for a head, of a size the region cannot hold, which
nothing checks for; what it does from there on is undefined (`ScanOutside`) and not
followed.  `FreeBlocksLookLocked` says that this needs an overtaking.

### MpscRecovery

Extends `MpscRegion` by `Crash`, possible at any state, and by the loop of
`recover_region` (`bus/mpsc_bus.cpp:308-372`) with one action per head
(`RecoverHead`), per early return (`RecoverStop`) and per batch (`RecoverBatch`).
Producers and consumer are gone after the crash; the exclusive file lock taken by
`recover_mpsc_bus` keeps them out.  A place whose producer died between the
compare-exchange and the store of its head is *torn*: it holds whatever was
there, and recovery takes it for a head.

That may be the head of an older message of another size, and then the scan is out of
step: it reads payload as heads, may miss the alloc hand, and goes round until
`region_size` (`visited`) ends it.  What is handed over from there on may be in any order and twice,
or be missing, as the finding of `recovery_torn` says of records in front of such a place.  Two properties bound
the damage: `BeginsRight`, that the records in front of the first torn place come first, once and in
order, and that less than a batch of them is dropped; and `GivenBackStaysGone`, that no
scan brings back a message whose blocks the consumer gave back.  The latter speaks of
`freed` and not of what was flagged: the consumer stores the flag of a message and
wipes it in one step of the model, in two stores of the code, and a crash between them leaves
payload that an out of step scan could still find.

### RecordQueue

The abstract specification: places are reserved in order, published in any
order, and handed over in the order of their reservation, several at a time.
`MpscRegion` maps `log` to `entries` and `delivered` to `out`.

### RootFile

| model | code (`core/file_database.cpp`) |
| --- | --- |
| `root`, `slots` | the file: absent, sized, with its magic; stream 0 and stream 1 of the interleaved contents |
| `cache` | `mContents` of each handle, `Closed` for a handle that is not open |
| `holder`, `stage`, `draft` | the owner of the exclusive file lock, how far it is in its transaction, the `contents_t` it writes |
| `ready`, `rewound` | history: revision 0 was completed; a revision was rewritten in place and lost, or seen by others before |

Opening, cloning, refreshing and leaving are one action each.  Every fetch drops the bus
entries marked as erased from what it read (`Tidy` in `Fetched`).  A transaction is
`Begin` (lock and `fetch_content_impl`), `Prepare` (a copy with the next revision) or
`PrepareInPlace` (`unlink_all*`, which edit the remembered contents under their old
revision), `Tear` and `Complete` (`retire_to_storage`, between whose writes the process may die),
`FailToWrite`, and one of three ends: `Remember` (the handle keeps what it wrote), `Forget`
(it keeps what it had) and `RememberTidied`: `prune_message_buses` drops the entries it
marked from what it remembers of the contents it wrote, under a revision that the file has with
them.  That is why `NoStrayCache` and `BuildsOnNewest` say *the same but for erased entries*
(`Same`).

`Data`, what the contents list, is opaque.  A partly written slot is `Torn` or, as a slot has no
checksum, one of the `Mixes` of old and new blocks; `Mixes` is empty for contents of one
block.  An in-place rewrite has no second copy, so a crash there may lose a revision:
`rewound` marks those executions and the properties exclude them.

A file that got its size and magic, and whose first slot was not completed before a
crash, cannot be opened by anybody (`core/file_database.cpp:866`, a hazard): `ready` is false there.

### SlotLayout

`BlockSize`, `BlockOffset`, `FileSize` are the functions of `interleaving_stream_base` in pages,
`Written` and `ReadBlock` are `write_current_chunk` and `read_chunk` on a file given page by page, and
`BlocksOf` says how many blocks an output stream begins.  `RootFile` has two slots of which a
torn write damages one; `SlotLayout` is why.  `MCRootFile` takes from `BlocksOf` which contents may be
left as a mixture.

### Registry, BusRegistry

`Registry` has three variables and four actions: acquire, change, commit, release.
`RootFile` maps `current` to the entries of the newest slot that survives a crash now and
`intent` to the draft.

| model | code |
| --- | --- |
| `current.buses`, `current.ctrs` | `message_buses` and `record_containers` of the contents |
| `busFiles` | the bus files, named after their rotation (the default pattern with one id), and who locks them |
| `recFiles` | the recovery containers, named after the bus and their own rotation |
| `own`, `phase` | a `db_mpsc_bus_handle` of each process: its rotation, or 0; not there, created, set up, unlinked |
| `step`, `at`, `todo` | how far the holder of the root file's lock is, the entry it adds or recovers, the entries it has yet to look at |
| `tries`, `due`, `created`, `owed`, `stolen` | history: names that were taken; abandoned buses a prune found; buses created; buses with unconsumed records; buses whose entry another process removed |

`create_message_bus` is `BeginCreate` to `FinishCreate` with `GiveUp`, `RegisterFails` and
`UnlinkNew` on its error paths; `db_mpsc_bus` adds `InitBus`; `unlink` is
`Unlink` to `FinishRemove`; `prune_message_buses` is `BeginPrune` to `FinishPrune`, which is possible
after every entry because the prune has a deadline.  `Leave` is a process that dies or a
bus that is closed, at every step.  `unlink_all_message_buses`, which is also the first half of `unlink_all`, is
`BeginUnlinkAll` to `RetireEmptied`: an entry whose bus is alive, or cannot be opened or
unlinked, is skipped, any other goes with its file, and what is left is written in place, or
not, which nobody looks at.  A bus file is there or not and its records are one unit; what
recovery makes of its content is `MpscRecovery`.  A bus that is found corrupt counts as
recovered: the code registers its container all the same.  `TryUnlink` is a file that
may survive a failed `unlink()` nobody looks at.

Lists are sets, as nothing depends on the order of buses: the code goes through them in the
order of the file, the model in any.  Initially the database is new, or was used before: its last
bus, of a rotation out of `OldRotations`, was left behind.

A recovery container that was left by a crash blocks the next recovery of its bus, which needs the
same name and skips the bus (`core/file_database.cpp:654-674`); records are not lost, but
nobody lists them until another container takes the rotation.  `PruneServesAll`
says what remains true.

### ContainerRegistry

| model | code |
| --- | --- |
| `current`, `intent` | the list of containers, as a set: every fetch sorts it, and entries are found by sink and rotation |
| `files` | the container files by sink and rotation: which container it is, who has it locked, its size |
| `own`, `phase` | each process's sink: the entry it remembers; not there, open, sized, closed |
| `step`, `at`, `todo`, `tally` | the holder of the root file's lock: how far it is, the entry it adds or sizes, the entries it has yet to look at, what a prune kept so far |
| `removed` | the root file was unlinked |
| `created`, `faults`, `strays`, `kept`, `pruned`, `late`, `reused` | history: containers, failures, files left without an entry, what the current prune keeps and removes, containers created after `unlink_all` gave up the lock, containers named like one whose size is yet to be reported |

`create_record_container` is `BeginCreate` to `FinishCreate`, with `NameTaken` for its retries and
`CannotCreate`, `RetireFails` and `UnlinkNew` on the error paths; `update_record_container_size` is
`BeginUpdate`, `Update`, and the ends shared by all operations (`Retire`, `RetireFails`,
`Finish`).  Both prunes are `BeginPrune` and one action per entry: `PruneMissing`, `PruneSkips`,
`PruneTakes`, `PruneKeeps`; with limits they go from the highest rotation down, with
a predicate in any order, and the predicate's answer is free.  `unlink_all_record_containers` and
`unlink_all` are `BeginUnlinkAll` to `RetireEmptied` and, for the latter, `Unlock` and
`RemoveRoot`.  `Write` and `Close` are the sink, `Leave` a crash at every step.

A sink that finishes closes its file first and reports the size then.  In between
another process may prune the container and a sink of the same id may create one of
the same name, whose entry gets the size: `reused` keeps that apart in `SizesTrue`.  `unlink_all`
looks at the list under the lock and removes the root file without it; what is
registered in between is lost (`late`, in `FilesListed`).  A prune keeps one file more than
`max_files_to_keep`, which `PruneKeepsNewest` says as it is.  What happens on a root file that was
removed is not followed: nobody can fetch it.  `maximum_extent` is taken to succeed.

### FileSink, LogFabric

| model | code |
| --- | --- |
| `buffer`, `backing`, `current`, `fileEpoch` | a backend's output buffer, `mBackingFile`, `mCurrentRotation`, `mFileEpoch` |
| `containers` | the files of each sink: their content, and the size the database has for them |
| `epoch` | `log_clock::epoch()` |
| `at`, `op`, `step`, `out` | the backend call in progress: the sink, the function, how far it is, the messages yet to be written |
| `front` | `mLastStatus` and `mThreshold` of `sink_frontend_base`: active, failed, disabled after finalisation |
| `attached`, `task`, `todo`, `served`, `batch` | `mSinks`, the fabric's function in progress, the sinks it has yet to call, those that took every batch so far, the batch |
| `failures`, `late`, `sent`, `offered`, `flawed` | history: failures so far; sinks rotated while they were finalised; messages from the bus; the units of the messages each sink was to get; sinks that failed |

The fabric calls one backend at a time.  A call is a sequence of steps, each one write or one
database operation: `PassOver`, a message below the sink's threshold (`concate_messages`,
`copy_message_fn`); `WriteBuffered`, `WriteThrough` (`output_buffer::bulk_write`, `do_bulk_write`); `Flush`, `KeepFile`, `EndFile`, `WriteBreak`, `ReleaseFile`, `CreateFile`,
`EncodeHeader`, `WriteHeader` (`do_sync_output`, `rotate`, `do_rotate`); `EmitBreak`,
`CloseFile` (`finalize`).  `WriteThroughFails`, `FlushFails`, `WriteBreakFails`, `EmitBreakFails` and
`StepFails` are the early returns.  The destructor of a `db_file_sink_backend` finalises and, if
that failed, the destructor of its base does once more (`FinalizeAgain`), with the
`do_rotate` of the base.

Bytes are units: a message has several, a header and a break one each, so a message may be split
between buffer and file.  Where `output_buffer`, which is not part of the repository, splits it
is left open (`SplitAt`).  A write that fails wrote nothing; a short write, which the code does not
look for, is not modelled.  Of a message's kind and severity only whether a sink wants it remains.

The properties speak of what is stored as a set of units, each with its message and its part of it, and
of their order separately.  `SinkComplete` says which units a sink has, `StoredInOrder` that they are ascending
through its files and its buffer, without repetition: together they determine the sequence.
`FilesWellFormed` adds that a message is not split by a header or a break, nor by the end of a file.

Two things the code does not prevent are kept out of `FilesWellFormed` by name.
*`late`*: `finalize()` emits the break and then syncs, and a sync may rotate.  The old container ends in two
breaks, and the new one, just registered, is closed with a header and no break.  *`flawed`*: a
sink that failed and was used again may end a container twice or not at all.

### SpanBus

| model | code |
| --- | --- |
| `counters`, `traces` | `span_prng_ctr` of each region; trace ids drawn so far |
| `rings` | each region as a queue of places, some still being written: what `RecordQueue` promises |
| `ctx`, `scopes` | `active_context_` and the `span_scope` objects of each thread |
| `call` | the message a thread is sending: looking for room, or writing it |
| `reading`, `taken` | where `consume_messages` is |
| `log`, `out`, `due`, `empty`, `contexts`, `named`, `tangled` | history: all messages and those handed over; what the current round owes; regions empty all through a search; contexts set, spans in them, threads that changed context inside a scope |

| action | code |
| --- | --- |
| `OpenSpan`, `OpenNone`, `CloseScope` | `span_scope::do_open` and `create_span_context`, `none`, the destructor |
| `Log` | `log` and `vlog` up to the allocation |
| `SetContext` | `set_thread_context` |
| `Place`, `Refuse`, `Publish` | one pass of the loop in `allocate_record_buffer_inplace`; encoding and `record_output_guard` |
| `Take`, `LeaveRegion` | `read_region` for one message, and its end, which frees what was read |

A region takes a message when it is empty, which is `EmptyRegionTakesHalf` one level down, and may
refuse it otherwise; sizes are left out, so a message that fits nowhere is not modelled.  Ids are
`ctr % SpanIds`: `derive_span_id` tells 64 values of the counter apart and no traces (a
hazard), and drawn trace ids are distinct.  Scopes are destroyed innermost first, as
local variables are, and belong to the thread's own context.

The end of a scope is sent through the port the context has by then.  After
`set_thread_context()` inside a scope, or for `none()` in a context without port, there may be none, and
the thread's behaviour is undefined; `tangled` marks the threads that did such a thing.

### Items, RecordCodec

An item of the encoding is its type, a number, the bytes of its head and those of its
body; a text's content is its size and a name for what it is.  How deeppack emits, sizes and
skips items is external, and written as the code uses it.  `Emitted` is an output buffer that
the items may not fit: those that do, the cut one, and nulls.  `Parse` folds a reader over items; a
reader says what is wanted in place of what it read.

`RecordCodec` has for every message the size that is reserved (`RecordSize`,
`SpanStartSize`, `SpanEndSize`) and the items that are emitted (`RecordItems`, ...), as separate as in the
code, and two readers: `RawFields`, the parser of the fabric, and `Fields`, the decoders of a
container.  `MessageField`, `ArgumentField`, `AttributeField`, `StatusField` and `PlainField` are the parts of the
latter.  A value is of one of seven kinds of C++ types, the last one a type of the user with
a codec that may fail; the viewer knows four of them.

What the code does and the model therefore does:

* `ValueSize` of a status code counts nine bytes for its domain's id, which takes fewer for
  small ids; the rest of the block stays null, and the reader skips it.
* `ContextSize` does not count the byte of a scope name that is empty but not null, so
  that the last item of such a record does not fit.
* A value whose encoder fails leaves the rest of its block null, and the block is published.
  The fabric's parser takes that for a record of nulls; no decoder does.
* `Preparsed` with `takesEffect` is the write of a malformed message's bytes through a
  pointer into a variant alternative that is gone (`core/serialized_messages.cpp:54`).

### BufferBus, LogClock, RecordPath

| model | code |
| --- | --- |
| `blocks`, `offset` | the buffer of a `bufferbus_handle` up to `mWriteOffset`, as blocks |
| `steady` | `internal_clock::now()` |
| `reference`, `lead` | `epoch_`'s references as a difference; the system's clock ahead of the steady one |
| `sync` | a thread in `try_sync_with_system`: which clock it has read and when |
| `attributes`, `containers` | the `mContainerInfo` of the process's sink; its containers with their epochs |
| `accepted`, `leads`, `pause`, `sets` | history: the calls that got a block and the container they went to; leads of the system's clock; the longest time that passed between two readings of the clocks |

`Log`, `StartSpan` and `EndSpan` are a whole logging call: size, allocation, emission and
publication, as there is one thread.  `Retire` is `retire_log_records` with `consume_messages` and
`clear_content`; how a sink buffers and what it does on failures is in `FileSink`, the fabric with
several sinks in `LogFabric`.  `SetClock` is somebody setting the system's clock.

`try_sync_with_system` loads the epoch (`BeginSync`), reads both clocks and exchanges the
reference.  The readings are two arguments of one constructor call (`core/log_clock.cpp:48-49`),
whose order C++ leaves open and compilers choose differently.  So a thread reads
either clock first (`SampleSystem`, `SampleSteady`), may pause, and reads the other one as it
exchanges (`EndSync`): the reference is too small by the pause in one order and too large in the other.
The static initialisation (19-20) reads both clocks as well; `StartPauses` are the pauses it may have.

### LogView

| model | code |
| --- | --- |
| `loaded`, `shown`, `displayEpoch` | `mClosedContainers` that could be read, `mDisplayRecords`, `display_epoch` |
| `grid` | `mSelected`, `mLastLines`, the rows of `mDisplayBox`, and the room on the screen |
| `window`, `frame` | the records in the last frame; whether one is due, and why |

`View` is the constructor of the display component: every container is decoded or fails as a
whole, and the records are sorted by time, containers in any order before that as they are
kept by path (`Sorted`: `stable_sort` over the places of all records, by time and then place).  `ReadsExactly` is the `os_input_stream` under the decoder: `Refilled` reads what is left in
the buffer again but moves the offset on by all it read, so that the third chunk skips
bytes and a container longer than two chunks cannot be read
(`detail/file_stream.hpp:193`, a hazard).  `ReadBody` stands for `discard_input` and `bulk_read`, which
treat a body across chunks alike.  `Render` is `OnRender` with the layout after it,
`Key` is `OnEvent`, `Resize` the terminal.

`Readable` names what makes a container readable: it was ended (one without a break fails as
a whole), all types in it are known to the viewer, no call failed after it got
its block, and it is at most two chunks long.  `ShowsWhatWasLogged` is about those;
`WholeMessages` is about all messages that reach a container.  `displayEpoch` is the epoch of
the last container that was loaded, for all records (a FIXME in
`apps/deeplog-cli/deeplog.main.cpp:158`), so no property is about the time that is
shown across containers.  The viewer is started after the process has ended.

## 4. Runs

| run | question | bounds |
| --- | --- | --- |
| `region_safety` | do hands, ownership, order and completeness hold under every interleaving of two producers and the consumer, and does anything leave the region, even after an overtaking? | 7 blocks, payloads of 1 and 2 blocks, batches of 2, 5 records: the ring wraps straight, flush and split, batches are both full and partial, and a consumer that takes payload for heads is led out of the region |
| `region_queue` | does the region implement the queue, and does every published record come out? | 5 blocks, payloads of 1 and 2, 4 records |
| `region_stale_hand` | violation: a published record is never handed over | 6 blocks, payload 1, 5 records |
| `recovery` | what does recovery hand over after a crash at any step, and how much does a torn place spoil? | 7 blocks, payloads of 1 and 2, batches of 2, 5 records: three records and so more than a batch fit, the ring wraps, and a torn place may lie over the old head of a record of another size, so that the scan takes payload for heads, hands records over twice and drops some |
| `recovery_torn` | violation: published records in front of a torn place are dropped | 6 blocks, payload 1, 3 records |
| `root_file` | does `RootInv`, the invariant of the proofs, hold, and do revisions survive crashes, failed writes and rewrites in place? | 2 handles, 4 revisions, 3 contents: none, one of a block, and one of two blocks that lists an erased entry and may be read half written |
| `bus_registry` | are buses registered, recovered and removed without losing or doubling records? | 2 processes, 2 new buses besides an old one of rotation 9 or none: with it a new rotation is 10, where retries begin |
| `bus_retries` | violation: five retries are promised, below rotation ten there are none | as above, new database |
| `container_registry` | do containers stay listed, owned and of their true size while others prune and unlink, and does a prune take the oldest? | 2 processes, 2 sinks that they may share, a container from before of rotation 9 or none: with it a new rotation is 10, where retries begin; 2 new containers, files that are empty or of 4 bytes in pages of 2, limits of 1 file and 4 bytes, so that one written file meets the one and two empty ones the other, and there is a third to remove; one failure or crash |
| `log_fabric` | do sinks get what they should, and are their files right? | a rotating sink that takes every record and a plain one that takes loud records; buffers of 5 units, messages of 3, files rotated above 3; 2 messages in batches of up to 2, one failure, one change of the epoch |
| `span_bus` | do the records of spans keep their order, names and brackets while two regions spill into each other? | 2 threads with different homes, one of which uses `none()` and sets its context once; 2 traces, 2 spans of each region's counter, 2 scopes open at a time, 3 messages: a start, a record of another thread and an end, or two spans nested or side by side; 64 ids, so no counter goes round, which `SpansDistinct`, `OfStarted` and `EndsLast` need |
| `log_view` | does the viewer show what was logged, is a drift corrected once, and does the display follow the selection and come to rest? | 4 calls out of 7: records with each kind of context, location and argument, a failing encoder, a start and an end of a span; a buffer of 200 bytes that fills up, chunks of 100 so that containers have one, two or three; 2 containers; a sink with and without attributes; 2 syncing threads, the clock set once, a pause of 0 or 1 in the initial epoch; screens of 1 and 3 rows, resized once |

Producers are symmetric, and the safety runs use that; the runs with liveness
properties do not.  `CHECK_DEADLOCK FALSE` is set for recovery, which really
ends, and where the bounds end the run: revisions, buses and messages are counted.  In the
region the consumer can always look again.  The bound on
records (`MaxMessages`) limits `log`; the ring itself has no counter.  `OvertakenNarrow`
as a constraint of `region_safety` follows an overtaking only as long as all records
are one block long; `NotOvertaken` stops the recovery runs there, where the guarded properties
say nothing.  `MCSmall` keeps parts of `LogView` apart that share no state: the clock is
set and synchronised before there are records and containers or not at all while there are
any, and exact from the start once there are, calls after the second repeat the first, and the screen is resized where all calls are
alike.  What is left out are products of behaviours of independent parts.

**Fairness.**  `FairSpec` assumes that a thread which reserved a place goes on
(nothing on that path waits), and that the application keeps calling
`consume_messages`.  Allocation needs none, and the recovery has only safety properties.  `Spec` of `LogView` assumes that a frame that was requested is rendered, which is what ftxui's loop does.

## 5. Proofs

All theorems hold for every value of the constants that satisfies the named assumptions, and for
behaviours of any length.  In each component the properties the run checks are not inductive;
the invariants below are, and TLC checked them on the instance of the run before they were proved.
Only `RootInv` is part of a run.

### The region

`MpscRegion_proofs`: for every set of producers, region size, set of payload sizes and batch size

* `TypeCorrect`: `Spec => []TypeOK`.  The interesting conjuncts are the hands:
  neither side compares a hand with the region's end after a wrap.
* `RegionNeverLeft`: `Spec => []InsideRegion`.

`TypeOK` alone is not inductive: the end of a scanned extent depends on where the
extent begins, and where a hand ends up after a claim on the placement rule.  The
invariant proved is `TypeInside == TypeOK /\ InsideRegion`.  `PlacementInside` is the
lemma about the placement rule; `EmptyFits` is the placement rule's share of
`EmptyRegionTakesHalf`.  The assumptions are those on the constants: a region has a
block, sizes are naturals, a batch holds a message.

The second part of the module, under the same assumptions:

* `HandsKeepOrder`, `NoBlockShared`, `FreeLooksLocked`, `DeliveredOrder`: the invariants `HandsInOrder`,
  `NoSharedBlock`, `FreeBlocksLookLocked` and `DeliveredInOrder` of the run.
* `ConsumerStaysOff`, `EmptyRegionAccepts`: its action properties `ConsumerKeepsOff` and
  `EmptyRegionTakesHalf`.
* `RegionIsQueue`: `FreshSpec => Queue!SafeSpec`, the refinement of `RecordQueue` without its fairness.

They rest on `RegionInv == TypeInside /\ (overtaken \/ OrderInv)`, which relates places by their
index in `log`.  Each place begins where the one before it ends and later ones are further on
(`ChainInv`); `freed`, what is marked, what is scanned and `Len(log)` are in this order (`CountsInv`),
and the hands are the begins of the places these indices name (`HandsInv`); no producer's copy of
the read hand is ahead of it (`SnapshotInv`).  Every block between the alloc hand and the first
unmarked place is locked and no data (`CleanInv`); a claimed place has a clean head, every later
one the head of its size, and what a wrapping place leaves at the end of the region is clean
(`MemInv`).  Producers past their claim have distinct claimed places (`WritersInv`), the batch repeats
the log (`BatchInv`), and so does what was delivered (`DeliveredInv`).  The key lemma is that blocks of
different places are apart (`Apart`); that the consumer's next head belongs to a place
that is published, and not to free memory or to payload, follows from `CleanInv` and `MemInv`.  All of it
holds unless `overtaken`: this is where the finding of `region_stale_hand` enters, and `RegionIsQueue`
is about `FreshSpec`, in which no claim uses a read hand that is a lap old.

### Recovery

`MpscRecovery_proofs`, under the same assumptions, for a crash at any step:

* `RecoveryIsExact`: `SpecRecovery => []RecoveryExact`.
* `OneBatchTwice`: `SpecRecovery => []AtMostOneBatchTwice`, that what both the dead process and the recovery
  hand over is at most a batch; it follows from the same invariant and is in no run.
* `RecoveryBeginsRight`: `SpecRecovery => []BeginsRight`.
* `GivenBackIsGone`: `SpecRecovery => []GivenBackStaysGone`.

`RecoveryInv` adds to `RegionInv` what the consumer's marks leave behind: the heads of wiped places
keep their sizes, so that recovery can step over them, and each unpublished place has a
producer (`RemainsInv`).  Once the recovery runs, its position is the begin of a place, what it handed over
and what it is about to is strictly increasing and unwiped, and it holds every published place passed so
far (`ScanInv`).  `ScanInv` is proved unless a place is torn, which is the finding of
`recovery_torn`, or the region was overtaken.

The last two theorems are about torn places too.  The scan keeps `ScanInv` until it meets the first one
(`InStep`), and from there on what it holds begins as it should: recovered records and the batch
in hand only grow (`Front`).  Since the batch is never more than full, and less than that when an early return drops it
(`LimitInv`), the loss is bounded (`BeginInv`).  For a scan that is out of step nothing is known of
where it reads, so `GoneInv` says it of every word: one that could be taken for a message, as payload or as
a head without the consumed flag, is a word of a message in its place that the consumer did not wipe (`LeftInv`).

### The root file

`RootFile_proofs` proves for every set of handles, all contents and any number of revisions:

* `RootCorrect`: `SpecRoot => []RootInv`, the inductive invariant, and from it `ParityKept`,
  `StaysOpenable`, `CachesAgree` and `NoLostUpdate` (`SlotParity`, `Openable`, `NoStrayCache`, `BuildsOnNewest`).
  Of these the run checks `RootInv`, which has `SlotParity` and `NoStrayCache` as conjuncts, and
  `BuildsOnNewest`.
* `NewestSurvives`: `SpecRoot => NewestNeverLost`, no step takes back the newest revision.
* `RefinesRegistry`: `OneBlock => (SpecCommits => ImplementsRegistry)`.

None of the properties is inductive alone.  That a slot may be overwritten rests on
the other one holding the draft's predecessor, which rests on what
the transaction fetched, which rests on no handle remembering a revision the file
never had.  `RootInv` adds who holds the lock and in which stage (`HolderInv`), what is possible before
the first revision is complete (`InitialisedInv`, `OriginInv`: revision 0 lists nothing, so opening
with the pristine contents is the same as reading them), where the draft's revision stands against slots
and caches (`DraftInv`, with one case for a commit and one for a rewrite in place) and what
a completed write left (`WrittenInv`).  The run `root_file` checks `RootInv` itself.

The refinement holds step by step: `Begin` acquires, `Prepare` changes, the step that completes
the slot commits, every end releases, everything else stutters.  It needs
`CommitsInv`, that without rewrites in place nothing is ever `rewound`, and `OneBlock`
(`Mixes` is empty), since otherwise a torn slot may list what nobody wrote.  No run
checks the refinement besides.

The assumptions are those on the constants: there are contents that list nothing, tidying twice is
tidying once, and the markers (`Torn`, `Closed`, `Nobody`) are no contents or handles.

### The slots

The first part of `RootFile_proofs` proves for all indices, both streams and every content: `BlocksDisjoint`,
`BlocksFill` and `WritesStayApart`.  The block of stream 1 follows the one of stream 0, the
next index follows both (`BlocksFollow`), and offsets grow with the index
(`IndicesOrdered`, which needs the sizes of the first five blocks one by one).  There are no assumptions;
the `ASSUME` of `MCRootFile` checks the same for the first blocks.

### Record containers

`ContainerRegistry_proofs`: for every set of processes and sinks, all limits, page and file
sizes, and any number of containers, failures and crashes

* `ContainersStay`, `NoFileForgotten`, `PruneTakesTheOldest`, `EntriesTellSizes`: the invariants
  `OwnersKeepContainers`, `FilesListed`, `PruneKeepsNewest` and `SizesTrue` of the run.

`ContainersInv` has to speak of two lists, the one in the root file and the one the holder of the lock
works on, because a crash may leave either.  Both are bounded, name each file once and have rotations
in the order of age (`ListInv`); the steps of a holder say what it has in hand (`HolderInv`).  A sink
that is open owns its file and both lists have it (`OwnInv`); a file is listed or about to be,
unless it was given up (`FileInv`, `GoneInv`).  An entry has its file's size or none; it has none while
the sink writes, and a closed sink's file has the size that the sink remembers (`SizeInv`): that is what
makes a late report harmless, unless the name was `reused`.  A prune with limits has yet to look only
at rotations below those it kept (`PruneInv`).

The assumptions: a page is not empty, limits, sizes and rotations are naturals, and `Nobody` is no
process.

### Message buses

`BusRegistry_proofs`: for every set of processes, any rotation the database was left with, and any
number of buses, failures and crashes

* `AbandonedStayListed`, `RecordsRecoveredOnce`, `PruneServesAbandoned`: the invariants `AbandonedListed`,
  `RecoveredOnce` and `PruneServesAll` of the run.
* `RecordsSurvive`, `OwnersHaveTheirFiles`: its action properties `NothingLost` and `OwnersKeepFiles`.

`BusesInv` again speaks of both lists.  The id of a bus is used once and tells files apart
(`IdInv`); a process that has a bus owns its file, and a bus that is not open yet has no records
(`OwnInv`).  A file with records, or in use, is listed and will be, unless its owner is
just removing it or its entry was taken away for another bus of the same rotation
(`FilesListed`).  No list has the records of a bus twice, or while the bus file is there (`ExactInv`): a
container gets its entry after the bus file is gone.  A crash in between leaves a container
without an entry, not a second copy.  The bus being recovered stays, unlocked, and its new
container has no other records (`ReplayInv`); what a prune found abandoned is still to come, or
has a container (`DueInv`).

The assumptions: old rotations are naturals, and `Nobody` is no process.

### Spans

`SpanBus_proofs`: for every set of threads and of severities, any number of regions, whatever home a thread,
a trace or a span has, and any number of messages, scopes and exchanged contexts

* `SpansAreDistinct`, `MessagesInOrder`, `SpansAreStarted`, `SpansEndOnce`, `ContextsFollow`: the invariants
  `SpansDistinct`, `OrderKept`, `OfStarted`, `EndsLast` and `ContextFollowsScopes` of the run.
* `DropsWhenFull`, `RoundsServeAll`: its action properties `DropsOnlyWhenFull` and `RoundServesAll`.

None of them is inductive alone, and each needs part of the others.  `SpansInv` (theorem `SpansInductive`)
consists of:

* ids: every span in a message, a context or a scope has an id that the counter of its trace gave out
  (`IssuedInv`), so the next id is new, and no two starts, sent or being sent, name one span (`StartsInv`);
* order: a region holds what was not handed over, and what was taken since the consumer came, by
  place (`RingInv`); what comes out of one region does so by place (`InTurn`); the home of a message
  depends on its span or, without one, on its thread (`CallInv`), and this makes `InTurn` the order of a span;
* life: who has a span has one whose start was published (`StartedInv`).  A span that nobody passed to
  `set_thread_context()` is being opened, open, being closed or over, one at a time, and while it is open one
  scope has it, inside which all that name it are (`LifeInv`).  So nothing can follow its end (`EndsLast`);
* contexts: a thread that is not `tangled` has a port where a scope, a start or a threshold needs
  one (`PortInv`, `ContextFollowsScopes`);
* search and rounds: no region that a search went past has been empty since it began
  (`EmptyInv`); what a round owes can be read in a region the consumer has yet to leave (`DueInv`).

The assumptions: there is a region, homes are regions, severities are naturals and one is the
greatest, and `MaxSpans <= SpanIds`: no counter goes round.  The last one is what keeps spans distinct, and
with that the life of each, so that `SpansAreDistinct`, `SpansAreStarted` and `SpansEndOnce` rest on it.  The code
does not ensure it: the 65th span of a counter logs under the id of one that may have ended (the hazard at
`source/log_record_port.cpp:51`).

### Sinks and the fabric

`LogFabric_proofs`: for every set of sinks, rotating and lenient ones among them, any capacity of the buffer, file
size, message sizes and batch size, and any number of messages, failures and changes of the epoch

* `SinksAreComplete`, `StoredStaysInOrder`, `FilesAreWellFormed`: the invariants `SinkComplete`, `StoredInOrder` and
  `FilesWellFormed` of the run.
* `NothingIsDropped`: its action property `NothingDropped`.

`FabricInv` (theorem `FabricInvariant`) speaks of the sink that is called and of the others, which rest
(`Phase`).  Its parts, each needing the ones before it:

* `TypeInv`: the open file of a sink is its last one (`StorageInv`), and the buffer is within its capacity.
* `ControlInv`: one backend is called at a time, for one of nine pairs of fabric function and backend function,
  each with steps of its own; who is yet to be called is attached and works.
* `FileInv`, `QuietInv`: where a sink that never failed has an open file and where it has none; a buffer that is
  about to be replaced by a break, a header or nothing has no messages.  The latter is why nothing is
  dropped, and it holds of sinks that failed too: a rotation follows a flush that worked, or `make()`.
* `OrderInv`: what is stored was sent, and is before everything that a call has yet to write or a sink of
  this batch has yet to get.
* `CompleteInv`: what a sink stored and what it is about to get is what it was offered (`Pending`).  A sink stops
  to count when a call fails that was to write messages, and not only when the fabric hears of it.
* `ShapeInv`: what file and buffer of the open container are together in each step of a call (`Shaped`): nothing yet,
  a header on its way, messages, or messages and a break once the call has `Ending`.

The lemmas between them say what each step does to what is stored, in one of four ways: it `Keeps` files
and buffer, `Takes` more behind both, `Opens` a file or `Replaces` the buffer.  `WriteTakes` is the lemma about
`bulk_write`: however a message is split between file and buffer, it goes behind what is stored.

The assumptions are those on the constants: a buffer holds a unit, rotating and lenient sinks are sinks,
messages are not empty.

### The clock and the display

`LogView_proofs`: for every set of threads, set of leads and number of times the system's clock is set, and whatever
calls, attributes, sizes of buffers, chunks and screens there are

* `EpochIsTrue`, `SelectedIsVisible`: the invariants `EpochTrue` and `SelectedVisible` of the run.

`ClockInv` adds to `EpochTrue` that what a thread between its two readings has read was right then (`ReadRight`).
What it exchanges is the lead at its reading of the system's clock, less its pause if that was the
first reading, else plus its pause, whatever the reference was when it began: the old one cancels
out, provided that it is still there.  `GridInv` adds to `SelectedVisible` that the selection is a record and that a
display with records has rows; `WindowHolds` is the lemma about `compute_render_window`, with the cases of the
code.  `ListsInv` is what the latter needs of buses and containers: they are lists, so that
what is shown is one (`InOrder` of finitely many places).

The assumptions: leads are integers, the pauses of the initialisation are naturals, the display's first size and those of the screen are
positive, and there is a largest screen, which is the one it starts with.

### Only model-checked

* Everything with fairness, which TLAPS does not reach: that published records come out, the fairness of
  `ImplementsQueue`, that the display comes to rest (`RenderSettles`).
* `WholeMessages` and `ShowsWhatWasLogged`, which say what the recursive functions of `Items` compute for a list of
  items: the bytes of a message, what a reader makes of it, how a stream of chunks is read.  That takes induction
  over data.
* The findings: they are violations, of which TLC shows one.

## 6. Not modelled

* *`any_reified`, `any_attribute`*: holders of a value of any type, with no state that
  outlives a call.  The codecs of the values are in `RecordCodec`.
* *Formatting, hexadecimal ids, hashes, error codes, colours, columns and the
  options tab*: no property is about the text that is shown.
* *Platform wrappers, module layout, build, example*: no logic of their own.
* *File layout of a bus*, its header checks, and regions of 1 GiB and more, where 32 bit
  hands could overflow.
* *Creation, move, release and unlinking of a buffer bus*: file operations with one owner.
* *Move assignment and swap of a file sink*, which leave `mContainerInfo` behind, and short
  writes.
* *Buses of other formats* in the database, which every prune skips; *contexts given
  explicitly* to a span and scopes that are not destroyed innermost first; the conversions of
  the clock.
