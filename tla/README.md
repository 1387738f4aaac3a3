# TLA+ models of the UFO framework and its vectors

User Fault Objects (UFOs) are larger-than-memory R vectors: virtual memory that
is populated by a callback when the program touches it, and reclaimed when too
much of it is resident. This directory models the framework that does this and
the vectors R programs use it through (CSV columns, binary files, sequences, their
operators, and the ALTREP vectors they are compared with),
checks the models with TLC and proves theorems about them with TLAPS.
`PROJECT.json` lists the runs, the source lines each definition stands for, the
hazards the properties are aimed at, what was found, and the theorems.

## The system

| Component | State | Operations | What makes it correct |
|---|---|---|---|
| Core, `ufos/rust/ufos_core/src/ufo_core.rs`, `ufo_objects.rs` | known objects, queue of loaded chunks, `used_memory`, one state mutex, a lock per object, a lock bit per chunk | serve a fault (`populate_impl`), evict, allocate, reset, free, shut down | objects keep their content; accounting is exact; faults and calls end; no deadlock, no panic |
| Thread pool, `populate_workers.rs` and `populate_loop` | threads requested, waiting | `await_work`, `request_worker`, `shutdown` | while one thread populates another listens |
| Hash promise, `once_await.rs` | an atomic pointer, a mutex, a condition variable | `try_init`, `get` | filled once, nobody sleeps on |
| Geometry, `ufo_objects.rs`, `math.rs`, `bitwise_spinlock.rs` | layout of object and temporary file | offsets, populate ranges, write-back, read-back | every byte has one place and is found there |
| Rust handles, `ufos/rust/ufos/src/lib.rs` | a reference to the object | `reset`, `free`, drop | lock order towards the core |
| C API and R glue, `ufos_c/src/lib.rs`, `ufos/src/ufos.c` | the global core, R objects that own UFOs | initialise, shut down, allocate, finalise, reset | ownership: each object freed once, none used after |
| CSV vectors, `ufovectors/src/csv`, `ufo_csv.c` | tokenizer state and counters, token buffer, recorded row offsets, types of columns, scan results shared by the columns | tokenise, scan, read rows of a column, destroy a column | a partial read returns what a full read would; the shared results live as long as a column |
| Binary, sequence and empty vectors, `bin/io.c`, `ufo_vectors.c`, `ufo_seq.c`, `ufo_empty.c` | a description of the source, one `FILE` per file vector | make, populate, store, collect | chunks hold the source's elements, whatever was evicted or overlaps; files are closed |
| Operators, subscripts, coercion, rash, `ufo_operators.c`, `ufo_coerce.c`, `rash.c`, `R/operators.R` | result vectors, a hash table per string subscript | translate subscripts, subset, assign, chunk-wise operators | same result as R's on plain vectors |
| ALTREP counterpart, `ufoaltrep` | a `FILE` or a payload | element access, materialise, duplicate, finalise | reads agree before and after materialisation |

How they interact: an application thread touches a missing page and is blocked by
the kernel, which queues an event on the userfaultfd. The pool thread that is
listening reads it, asks the pool for another listener, and runs `populate_impl`:
state mutex, the object's read lock, eviction if the watermark demands it, state
mutex released, chunk bit, read-back or populate callback (which may fault on
another UFO), bit released, copy into place (wakes the application), state mutex
to queue the chunk, hash. API calls go through a channel without capacity to one
message-loop thread, which takes the state mutex and then the object's write lock.
R's C code calls the API on its only thread; the Rust API may be called from any.
A vector package hands the core a source description, a populate function (called on pool
threads, so beside R and beside another population of the same vector) and a destructor (called when R collects
the vector). `ufo_subset`, `ufo_mutate` and the operators touch elements like any program,
and make new vectors for indices and results.

The hard behaviours are the two orders of locks (state mutex and object lock),
the state that is looked at under one hold of the state mutex and used under the
next (capacity, the queue), chunks that are evicted before their hash is known,
reset and free in the middle of loads and evictions, nested faults, errors of
populate functions, and threads that die with locks held. In the vectors: populate functions that
share a `FILE`, files rewritten under the vectors that read them, row offsets recorded under
conditions that change while the scan runs, lengths computed by one function and filled by
another, and index types chosen by length.

## Modules

| Module | Models | Runs |
|---|---|---|
| `UfoCore` | the core with its application threads, workers and message loop | `core_two`, `core_live`, `core_shared`, `bug_double_fault`, `bug_double_free`, `bug_partial_chunk` |
| `UfoMemory` | abstract: what an application may rely on | refinement checked in `core_two` and proved |
| `PopulatePool` | the pool and the loop of its threads | `pool` |
| `OnceAwait` | the hash promise | `once` |
| `WriteOnce` | abstract: a cell filled once | refinement checked in `once` and proved |
| `UfoGeometry` | byte layout of an object and its file | `geometry` |
| `CsvTokenizer`, `CsvToken` | the state machine of the tokenizer with its buffer; type deduction and conversion of tokens | (`csv`) |
| `CsvReader` | initial scan, unique values, reading rows of a column, as folds over a file | (`csv`) |
| `CsvTable` | reference: what a file means, and how a table is written out | (`csv`) |
| `CsvVectors` | the columns of a CSV file: load, populate, destroy | `csv` |
| `VectorSources` | files, sequences and fills, and what their elements should be | (`sources`) |
| `UfoVectors` | UFOs over those: creation, faults, population call by call, eviction, collection | (`sources`) |
| `AltrepVectors` | ALTREP vectors over those | (`sources`) |
| `VectorSession` | both together over the same files, and storing vectors to files | `sources` |
| `RVectors` | R vectors, checked element access, coercion | (`vectors`) |
| `Rash`, `Subscripts` | the hash table; subscripts of every type to indices | (`vectors`) |
| `VectorOperators` | a session of subsets, assignments and chunked operators | `vectors` |
| `UfoCore_proofs` | theorems about the core: types, locks and exclusion; accounting, refinement, panics, lock order | |
| `CsvTokens_proofs` | lemmas the theorems about CSV vectors rest on: buffers, layout of a file, tokens of its cells, types and conversions | |
| `UfoGeometry_proofs`, `PopulatePool_proofs`, `OnceAwait_proofs`, `CsvVectors_proofs`, `VectorSession_proofs`, `VectorOperators_proofs` | theorems about the component of that name | |
| `MC*` | instances for TLC | |

`UfoCore` uses the other parts abstractly: a worker may read an event whenever it
is idle (what the pool guarantees is the subject of `PopulatePool`), a hash is a
field of the queue entry that a named worker fills in (`OnceAwait`), a chunk is one
value with two sizes (`UfoGeometry` says what the sizes are and where bytes go).

### UfoCore: state and actions

The variables `mem`, `back`, `live` are the pages of the objects, the data written
to their files, and the maps `objects_by_id`/`objects_by_segment`; `loaded`, `used`
are `UfoChunks`, `victims` the list `to_free` of the eviction in progress;
`st`, `poisoned` the state mutex; `rd`, `wr` an object's `RwLock`; `bit` the lock
bits. `wpc`, `wchunk`, `raw` are the locals of a worker; `want`, `unread` the
kernel's view of blocked threads; `acc`, `api` what an application thread is doing;
`mlpc`, `msg`, `keys` the message loop.

A step ends where the code takes or releases a lock, waits, or makes memory visible.
`populate_impl` is `LockState`, `EnsureCapacity`, (`Punch`, `WriteBack` for every
victim, `EvictDone`), `SpinLock`, `Fill`, `Copy`, `AddChunk`, `Hash`. The tasks of
an eviction run in parallel, as rayon runs them. A message is `BeginCall`,
`TakeGuard`, `Send`, `LoopLock`, and one of `LoopAllocate`, `LoopReset`, `LoopFree`,
`LoopUnknown`, or for a shutdown `LoopCollect`, `LoopNextKey` and `LoopFree` for each
object, `LoopClose`. Every `unwrap` and `expect` that can fail is an `IF` whose
failing branch is `Panic` or `LoopPanics`: guards are released, a held mutex is poisoned.

Taken as given: an `RwLock` lets readers in while no writer holds it; the hash
of a chunk tells any two contents apart; the application does not touch an object
that is being freed (`Usable`, `Unused`), which includes the populate functions that
read it; `WatermarkAssumption`, which `ensure_capcity` asserts.

### CSV: `CsvTokenizer` to `CsvVectors`

A tokenizer is a record (`state`, `offset`, end of the `last` token, `buf`, sizes, `result`, `token`) and
`Feed` is one turn of `tokenizer_next`; a pass over a file is a fold of `Feed` and of what the
caller does with a token (`ScanTurn`, the turns of `ufo_csv_read_column` and of the search for unique values).
Characters are symbols: those the machine tells apart, and others that stand for a whole number or word.
`CsvVectors` has one behaviour per file: `LoadCsv` is `ufo_csv`, `Populate(c, first, end)` is
`load_column_from_csv` for any range of any living column, `Destroy(c)` is `destroy_column`. What is read is compared with the
table the file was rendered from (`CsvTable`). A cell of a table is blanks, optional quotes and `pieces`: characters, or in quotes two
that belong together, a doubled quote or an escape with what follows it; blanks may follow the closing quote. `Raw` is how a cell is
written, `Text` what it stands for: a doubled quote or escape is one character, any other escape is kept (and makes the cell
`Stray`). Every file the tokenizer is meant for is such a table. Passes are not interleaved: every one opens the file itself and keeps its state in
locals, and the scan's results do not change after loading.

### Sources: `VectorSources` to `VectorSession`

`disk` is the content of the files in units. A UFO has a source, a type and a length; `mem` has its resident
chunks, `files` counts open `FILE`s and the position of each is part of the vector. A population is one action
per call of stdio in `__load_from_file` (`SeekEnd`, `Tell`, `Seek`, `Read`), so that two of them, for two chunks
of one vector, interleave. `EvictChunk` drops any chunk that nobody wrote to, and does not touch
one that is being populated; what was written stays, as `UfoMemory` promises. `Store` is `ufo_store_bin`: open
(truncate), read the vector, which faults on what is absent, write. `NewAlt` and `UseAlt` cover creation, `Elt`,
`Dataptr`, `Duplicate`, writing and `Finalize`. `ideal` and `altIdeal` are history variables: the plain
R vector this would be. `changed`, `spoiled`, `refused` and `altStale` remember which vectors a rewritten file or an overlapping
population has touched, so that the properties state exactly what those can damage.

### Vectors: `RVectors` to `VectorOperators`

Numbers are counted in halves, so that a double between two integers exists. `Subscript` returns indices with their
type, or an error, or `Hung`, or `Undefined`. `Locate`, `Subset` and `Assign` are one call each, since R has one
thread and the vector is in memory while it is used. An operator takes a step per chunk: `Begin`
deduces type and size, `ComputeChunk` is one turn of the loop of `.ufo_binary`, `ReturnResult` its end. An element of a result is
the tuple of the positions of its operands: what the operator computes is R's. A call ends in
`outcome`, which `Take` clears unless the session is over. What R itself would select, or return, is written
separately (`RSelection`, `OwnType`).

## What the runs check

Properties that hold:

- `BehavesLikeMemory` (`core_two`; also proved): the core implements `UfoMemory`. A
  store is seen until the next store or reset of its object, through evictions, write-backs
  and reloads at any moment, and no step of the core changes what a program reads. Objects
  consist of full chunks here; see the findings.
- `UsedIsQueued`, `ResidentOnce` (`core_shared`; also proved): `used_memory` is the size of the queue and of the chunks
  being evicted; a resident chunk is queued, about to be evicted or about to be queued,
  exactly once, even with two threads, three workers, errors, resets and frees in between, as long as the
  state mutex is not poisoned.
- `ChunkExclusive` (also proved): a chunk's data is loaded, populated or written back by one
  thread at a time. The bits lie in the file that a reset punches without looking at them;
  the object's write lock is what makes that safe.
- `NoLockCycle` (`core_two`; also proved): the two lock orders never meet, for two application threads with
  an object each. It does not hold for three, or when a handle
  is dropped (which waits for no answer) and another one of the same thread is reset
  afterwards.
- `OvershootBounded` (`core_two`; also proved): the watermark is tested under one hold of the state mutex and the
  load accounted for under a later one; loads that pass the capacity test together exceed the watermark by at most
  one load for every other worker.
- `NoPanic` (also proved), `FaultsAreServed`, `CallsReturn` (`core_live`): with a populate function that
  reads another UFO, faults and calls end and nothing panics, as long as one thread uses
  the objects and two workers exist.
- `pool` (the invariants also proved): requests are conserved, the count of waiting threads is exact, no request is left to
  sleeping threads, somebody can always take the next one, every fault is read.
- `once`: readers of a promise return, with one value, and no notification is lost.
- `geometry` (also proved): a byte that is in memory is the right one; copies are whole
  pages that are missing and contain the fault; populate functions are asked for elements that
  exist; bits and data of different chunks are apart and inside the file.

- `csv`: `ScanMatchesTable`, `OffsetsExact`, `ReadIsSlice` (all also proved): the scan finds the rows, the types and the offsets of the table,
  and any range of rows read through any recorded offset is that part of the column, with the exceptions written in the
  properties (listed below). `MetadataOutlivesColumns` (also proved): the shared results are freed once, by the last
  column. `BufferFits` (also proved): no token is written beyond its buffer.
- `sources`: `LikePlainVector` (also proved): chunks of UFOs and elements of ALTREP vectors are those of the plain vector through
  eviction, writes, copies and materialisation. `StoredIsVector` (also proved): what was stored completely is the vector.
  `FilesAccounted` (also proved): who closes each open file. `ReadsReturn`: a thread that touches a chunk gets it.
- `vectors` (all also proved): `SubsetLikeR`, `AssignLikeR`, `HashedFindsNames` for subscripts of every type; `OperatorLikeR` and
  `ResultTypes`: an operator computed by chunks pairs the elements R pairs, and its result is not widened, and so copied out of the
  UFO, behind the package's back.

Where the vector packages differ from plain vectors, each an exception a property spells out (and would
fail without):

- CSV. A skipped token leaves `end_of_last_token` behind, so the next recorded row offset is wrong when the last column is already
  known to hold strings; when it is the first column whose token is skipped, a NULL token is looked into. An escape before
  an ordinary character counts three characters for two. A file that ends right after a closing quote fails to scan, and `ufo_csv`
  uses the NULL result. A last row of one cell without a newline is not counted. A population reads one row more than
  it was asked for. `NA` and truth values in an integer column become 0, truth values in a numeric one NA. `errno` is not cleared, so
  one integer out of range makes the integers after it doubles. The byte 0xFF ends the file.
- Sources. Two populations of one file vector move each other's position. A clean chunk that is reloaded after its file
  was rewritten has the new contents; a vector stored to the file it reads from has lost what was not resident.
  Vectors of one element that R makes itself, and matrices it refuses, leave their file open; a 1 by 1 matrix is not filled. Sequences below zero become huge when
  stored to doubles (`ufo_seq.c:32`, `altrep_seq.c:155`). The complex NA of an empty vector is not R's. A duplicate of an ALTREP vector has no
  file until it is materialised.
- Vectors. A selection of nothing never returns, because a UFO without elements is never made (`bitwise_spinlock.rs:60`). An NA among indices that are doubles is used as
  an index. Fractions between -1 and 0, just below minus the length, or in (0, 1) beside negative numbers select otherwise. Names in different encodings
  are missed if only one of names and subscript is hashed by its text; `""` matches in the hash table only. `ufo_mutate`
  fails for every index vector of doubles; values that are the vector itself are read after being overwritten.
  Indices out of range are skipped, values that do not divide are an error. Operators refuse bytes, and a string compared
  with something else on its right. Dividing by an operand of length 0 is undefined. `-x`, `+x` of logicals leave the UFO. `!` of numbers has the type of the numbers,
  a comparison of strings that of strings.

Violations, each quoting the line it contradicts (`findings` in `PROJECT.json`):

- `bug_double_fault`: two threads fault on a chunk, the second copy panics.
- `bug_partial_chunk`: stores to the last, partial chunk of an object are lost by an eviction.
- `bug_double_free`: `UfoHandle::free` frees twice and ends the message loop.

### Bounds

- Two workers: one that is blocked in a populate function or waits for a lock and one that serves;
  every race in the core is between two workers or a worker and the message loop. `core_shared` has
  three, so that one is left to meet the state mutex that another poisoned.
- `core_two`: a writable object of two chunks and a read-only one of one chunk; memory for one chunk and a half,
  so that every load evicts. `core_shared`: one object of two chunks of which one fits. One original
  and one written value.
- `MaxQueue` bounds dead queue entries: a reset or free is not begun when the queue has that many. Two
  entries (three in `bug_partial_chunk`) already are dead, live and unhashed ones in any order.
- `core_live` uses chunks of different sizes so that the load of one object evicts both others.
- The pool: `MaxFaults` faults, `Tokens` = 2 as in the code (one from `PopulatePool::new`, one from
  `UfoCore::new`), and threads for all spawns these can cause (`BoundNeverMet`).
- `UfoGeometry`: pages of 4 bytes; at most two chunks in memory (`MaxLoaded`) and two in the file
  (`MaxWritten`) at a time, any of them. Eight bits are a byte, as in the code.
- `csv`: a token buffer of 2 characters that grows in slots of 1 byte, so that most tokens grow it, some twice; columns with
  fewer than `Limit` = 2 strings are interned. The files are all tables of some shapes: two columns of three rows (offsets,
  intervals 1 and 2), one column of two rows over 19 kinds of cells (conversion), one column of three rows over six types
  (deduction), tables of only a header, and ragged rows of one and two columns with quoted separators and empty cells.
- `sources`: two file contents of one and two units, element sizes of one and two, chunks of one element (`LoadCount`), two workers and two
  threads: the smallest instance in which two chunks of a vector are populated at once. Two vectors (`Room`) of which one or two are
  UFOs, one file stored (`MaxStores`). `Word` = 1000 is the modulus of `size_t`.
- `vectors`: `IntMax` = 5; index vectors of more than 4 (`ShortMax`) elements are doubles; hashing from 3 names or strings on, or
  when it costs less than the loop (`LongLength`, `LoopCost`; 1000 and 15 in the code), so that both searches, colliding hashes and a probe
  around the end of the table happen; chunks of 2 and 3 elements over operands of up to 7; one assignment.
- Symmetry under permutation of workers is used in safety runs only.

`CHECK_DEADLOCK FALSE` is given where the system really stops: after a shutdown (`core_shared`,
`pool`), after a panic (`bug_double_fault`, `bug_double_free`) and when all readers of a promise have returned
(`once`), when a file crashed the loading or its columns are gone (`csv`), when R crashed or waits for a chunk that
never comes (`sources`), and after a call that hung or left its vector's memory (`vectors`).

### Fairness

`UfoCore!FairSpec`: weak fairness of each thread's next step, of the message loop, and of reading an
event by some worker. Threads are scheduled by the operating system and every wait in the code is for a lock, a
message or an event. Nothing makes the application touch memory or call the API. Weak fairness of
lock acquisition is enough in these instances. `PopulatePool!FairSpec`: threads take their
steps, a populate function that runs returns or fails, the core closes the file once it has
decided to. `OnceAwait!FairSpec`: threads take their steps; no wake-up without reason is needed. `VectorSession!Spec`: a worker that
populates goes on (weak), and a blocked thread's event is taken again and again if it can be (strong): the userfaultfd hands events out in
the order they were raised, so none is passed over for ever.

## What is proved

For every number of threads, objects, chunks, sizes and values.

### The core

- `SpecTypeOK` (`UfoCore_proofs`): the types. The part that is more than types: a worker knows its
  chunk from reading the event to publishing the hash, and only blocked threads have unread events.
- `SpecLocks`, `SpecChunkExclusive`: `ChunkExclusive` is not inductive. `IInv` adds who holds what:
  the readers of an object are exactly the workers between `EnsureCapacity` and `Hash` and the
  eviction tasks between `Punch` and `WriteBack` (`ReadersKnown`); who fills a chunk holds its bit and
  the bit of a chunk on its way to the file is held by the evicting worker (`BitsHeld`); a
  writer excludes readers; who waits for an object with the state mutex, evicts or applies a message holds
  that mutex (`StateHeld`). A reset clears the bits of its object: `ReadersKnown` and the
  write lock say that nobody holds one.
- `SpecUsedIsQueued`: with `IInv`, that an eviction in progress brings
  `used_memory` below the low watermark once all its victims are counted off (`AccountInv`). `TotalSize` is a recursive
  function; that it exists, and what it is after a push, a removal or a `Forgotten` entry, follows from induction over numbers.
  The library's induction theorems take an operator, so `SetInduction` restates induction for a set of numbers, from the well-foundedness of `<`.
- `SpecOvershootBounded`: among the workers that passed the capacity test and have not queued their chunk, one fits below the
  mark by itself, and every other adds one load at most (`LastFits`). For finitely many workers and at least one object.
- `SpecResidentOnce`: `SingleCarriers` says without counting that queue, victims and workers between `Copy` and `AddChunk`
  exclude each other for a chunk, and that one of them has it exactly if it is resident. It needs that objects in use exist (`LivesInv`).
- `SpecBehavesLikeMemory`: `BehavesLikeMemory`, step by step. Besides the above: a blocked thread's chunk is not
  resident, what was moved away is in the file or in the hand of an evicting task, a clean chunk's hash is that of its
  data, read-only chunks keep what they were populated with (`MemoryInv`), and no chunk is loaded by two workers
  (`OneLoader`). The last follows from `UseInv`: the loads on behalf of one application thread form a chain, each
  waiting for the next, along a rank that falls from a chunk to the one its populate function reads.
- `SpecNoPanic`: the calls under way are about objects that exist, nobody else calls about one that is being freed
  (`CallInv`), a bit is held only by who fills or moves the chunk (`BitsOwned`), and so no `expect` or `unwrap` fails (`Healthy`).
- `SpecNoLockCycle`: who waits for an object lock with the state mutex held never waits for a guard whose
  holder waits for the state mutex (`OrderInv`).

These last three hold for programs that use the core well, which is written as hypotheses of the theorems:

- `SoleUse(Uses, Rank)`: every application thread has chunks of its own, those it touches and those that populating them
  reads, and populating is not circular. R has one thread: one mutator, all the chunks, and for `Rank` the depth of
  nested vectors. Without it, two threads fault on one chunk (`bug_double_fault`).
- `WritesAccepted`: the chunks of a writable object are full (`bug_partial_chunk` is what happens to one that is not).
- `Sound`: nobody calls `UfoHandle::free` (`bug_double_free`), and who owns an object owns those it reads.
- `Faulty = {}`: a populate function that fails panics its worker, by design.
- `OwnObjects(Uses)`: at most two threads with objects of their own that allocate, reset and free with the C API.
  With three threads, or with `Drop` and `Shutdown`, which take no guard on the caller's side, the cycle exists.

All of them hold together in the instances of `core_two` (threads that use what they touch) and
`core_live` (one thread that uses everything).

### The other components

- `UfoGeometry_proofs`: `SpecBytesInPlace`, `SpecCopySucceeds`, `SpecFaultServed`, `SpecElementsExist`, `SpecFileHoldsChunks`, for every page
  size and every prototype that can be allocated. The invariant `GInv` says that the chunks in memory are chunks of the
  object's grid (`ChunkInv`), cover exactly the bytes that are present (`Resident`), and that a bit of the bitmap
  promises the bytes of its chunk in the file (`FileData`, `HeaderClean`). The work is in `CfgInv`: a load is a common
  multiple of the page and of the elements a populate function is asked for at least, so a chunk is a whole number of both and chunks tile the body.
- `SpecBitsApart`: the multiplier the search finds exists and has no factor in common with the number of chunks (`CoprimeCancels`), so
  multiplication permutes the bits (`BitsPermute`).
- `PopulatePool_proofs`: `SpecTokensConserved`, `SpecWaitingCounted`, `SpecNoLostWakeup`,
  `SpecSuccessorExists`, from one invariant `PoolInv`; the work is in counting threads
  (`Cardinality` of the sets of threads at a place). `SpecTypeOK` with it.
- `OnceAwait_proofs`: `SpecTypeOK`, `SpecNoLostWakeup`, and `SpecImplementsOnce`, that the promise implements
  the write-once cell.
- `CsvVectors_proofs`: `SpecMetadataOutlivesColumns`, for any files: `refs` counts the living columns, whatever is populated in
  between. `SpecBufferFits`: a token that is collected is no longer than its buffer, and the buffer no larger than its memory (`Fits`);
  every transition of the tokenizer keeps that (`FeedFits`), so every pass does, and the scan ends with it by induction over the file.
  The same induction (`ScanOk`) shows that a scan that ends knows of a column, which the count of references needs.
  An induction theorem over sequences would have an operator as parameter, which cannot be instantiated: lemmas like `ScanSteps`, `AppendSteps`
  and `JoinSteps` unroll the folds one by one, from `SetInduction`.
- `SpecScanMatchesTable`, `SpecOffsetsExact` and `SpecReadIsSlice`, in the same module and with the lemmas of `CsvTokens_proofs`, for every
  table, every way of writing its cells, any interval, column and range of rows. A file is a concatenation of rendered cells, and a
  pass is a fold over its characters, so the induction is over characters inside a cell, cells inside a line, and lines:
  - `Layout`: every cell of the table is in the file at its place, followed by a comma, a newline or the end.
  - A cell. `CellRuns`: the tokenizer has collected exactly what is written in the cell when it comes to the separator (`Inside`, which
    is an induction over the pieces). `CellEnds`: there it makes the token, which is the `Text` of the cell unless it is skipped, and is before the
    next cell. Its offset is exact unless an escape was kept; the end of its last token is, unless this one was skipped (`Ended`).
  - The scan. `At(r, l, c, p)` is the invariant at the start of a cell: the types are those of the cells above it (`TypesOk`), the offsets
    recorded so far are exact where they can be trusted (`OffsetsOk`), there are as many columns as in the widest line so far (`WidthOk`), and
    the tokenizer is where the cell is (`Follows`). `ScanFinishes` follows it to the end of the file, which is where the dropped row, the closing quote and
    the skipped first token come in.
  - A reading. `ReadAt(r, l, c, q)` says the same of a pass that starts at a recorded offset: the tokens found are the cells of the rows
    asked for above it. `ReadFinishes`: it ends after the last row, with one token too many at most. `ConvertShows` compares the
    conversion of a text with what R shows, for the types the deduction allows it to have.
  - `TableInv`, the invariant of the columns: their representation fits the types that the scan found, the last reading stored its slice, and
    what failed had one of the reasons.
- `VectorSession_proofs`: `SpecFilesAccounted`. `FilesInv` counts the UFOs and the ALTREP vectors with an open file; `AltOne` is
  the one lemma about counting, for a vector that is made, changed or collected, and says of every use that it
  leaves the handle alone.
- `SpecLikePlainVector` and `SpecStoredIsVector`, in the same module, for any files, vectors, element sizes, chunk sizes, threads and workers, from
  `PlainInv`, which has four parts. `UfoInv` is about UFOs: threads wait for different chunks that are not
  resident, and a population serves one of them (`WantsInv`, `LoadsInv`); no other population moves the
  position of a file under one that is `alone`, so it reads at the offset it sought (`LoadOk`); as long as its file was
  not rewritten, what R has not written is what the source holds, and the file is long enough for it (`SourceInv`). That is why a clean chunk may be dropped at any
  moment and a dirty one may not. `AltInv` says the same of a vector before and after materialisation, and that a
  duplicate keeps it; `AltSeen` is about what was read last. `StoreInv` is about a store under way: the file holds the chunks written so far,
  and all who read that file are in `changed` or `altStale`, so that truncating it breaks nobody else's promise.
  The arithmetic is in `ElementSlice` (an element of what is read is an element of the file), `TermsOf` and
  `UnitsUpto` (units of the chunks written so far). No property is weakened for it: the exceptions are those of the properties.
- `VectorOperators_proofs`: `SpecOperatorLikeR` and `SpecResultTypes`, for operands of any types and lengths and any chunk size. The
  invariant (`OperatorInv`) says of a job that the elements before the next chunk are the right ones and that its result
  has been widened exactly if R's type is wider and a chunk was stored. `ChunkIs` is the arithmetic of chunk borders;
  `BinaryAgree` and `UnaryAgree` compare the tables of types of `ufo_operators.c` with R's.
- `SpecHashedFindsNames`, `SpecSubsetLikeR` and `SpecAssignLikeR`, in the same module, for vectors, subscripts, names and values of any
  length and every hash that stays in the table. The invariant of the session is small (`SessionInv`: the vector is well formed and has
  the names it started with; the last outcome is right). The work is in what the loops inside one call compute:
  - The hash table. `TableInv` says of a table that holds the first n strings: a slot that is not empty has the *first* occurrence of its
    string, and the way from the hash of each of the n strings ends at an equal string, with no empty slot and no equal string before. `AddKeeps` is its step; there is always an empty slot, since a table has twice as many slots as strings
    (`TableLengthIs`), so a probe ends (`EndsIn`). `MemberIs` concludes that a lookup finds the first occurrence, or nothing only where
    nothing is or the two vectors of strings were hashed in two ways.
  - The loops that choose. `Begins`, `Upto`, `Beyond`: the positions chosen from the first n are a prefix of those chosen from more,
    and as many as there are. From it, `LogicalLengthIs` (the length computed by division is the number of positions that recycling selects)
    and `LogicalIs` (so `logical_subscript` neither writes past its result nor leaves out an index); `PositiveIs` and
    `NegativeIs` compare the loops over numbers and the bitmap with R's selection, in halves; `SubscriptLocated` puts all types together.
  - The loop that writes. `LastWritten`, after every turn: a position has the last value written to it so far, or is as it was; when
    the values are the vector itself, as long as none is read after it was overwritten (`WritesLast`). `ElementAsTyped` (a conversion ends
    in the type it is to) and `RoundTrip` (what was widened comes back) are by cases on the pair of types; `IndicesInside` (no
    index is outside the vector, not even for the fractions that select something else than in R) keeps the vector well formed.

They rest on the named assumptions of the modules: the kinds of constants are apart
(`SortAssumption`), chunks belong to objects and are no larger than a load (`ShapeAssumption`), the
watermarks leave room for a load (`WatermarkAssumption`), a prototype has a stride, elements and a load (`GeometryAssumption`), and `PoolAssumption`, `PromiseAssumption`; a CSV file has a line and a line a cell (`InputsAssumption`), and a token buffer starts with two characters (`BufferAssumption`); vectors have the elements of their type
and as many names as elements or none, subscripts the elements of theirs, and operands are what they say (`VectorOperators!ShapeAssumption`); no number and no string is `NA` (`NaAssumption`);
a hash is a slot of the table, as it has one bit per doubling of its length (`HashAssumption`); finitely many vectors at a time (`IdsAssumption`, `AltIdsAssumption`); sources are made of paths, lengths and sequences whose terms are ints (`OrdersAssumption`,
`AltSeqsAssumption`), elements and files consist of whole units (`SizesAssumption`, `DiskAssumption`), and ALTREP vectors of ints exist (`IntAssumption`).

Every invariant and action property the passing runs check is stated by one of these theorems. Only model-checked: liveness
(`FaultsAreServed`, `CallsReturn`, `FaultsAreRead`, `GetReturns`, `ReadsReturn`) and the fairness it needs, which are out of the prover's reach.

Proving changed the model and the properties. `SelectSeq` is `Chosen`, a fold, and the length of a hash table is a fold of
`Doubled`: both were recursive definitions of the library or of the model, which cannot be unfolded. `EmptyValues` and `AsLogical` were `CASE`s with overlapping
conditions and are now conditionals in the order of the branches of the code. Two steps could not be proved because the
reference was wrong where no subscript of the run told it apart, and the run has such subscripts now: a subscript of strings longer than `ShortMax`
gives indices that are ints (`InDoubles`); an empty subscript of bytes or complex numbers is refused like any other (`RSelection`).
For the CSV files, a cell used to be one of a list of strings with their texts; it has a structure now, so that the theorems are about all of
them. Three exceptions were stated too narrowly for that: any text that begins with an integer out of range sets `errno` (`Overflows`), a file fails when
its last cell ends with a closing quote, whatever it quotes (`QuotedEnd`), and no row is dropped from a file that has only a
header (`LastRowDropped`). The run has such files now, and files whose last line ends in an empty cell, which the model used to exclude.

## Plan

1. Done: core, pool, promise, geometry; CSV; sources, UFO and ALTREP vectors; subscripts, coercion, operators; the proofs above.
2. `Lifecycle`: `ufos.c` and the C API: initialise, shutdown, a second core, handles that outlive it.

## Not modelled

- Core: `mmap_wrapers.rs` (ownership by destructors), the poisoning and back-off of the bit lock, a populate
  callback that panics in Rust, identifiers of objects (`UfoIdGen`), start and shutdown through the C API.
- Vectors: printing, argument checks and registration of the packages; `ufo_apply`, which applies any R function to
  chunks the way the operators do; allocation failures and errors of `fread`; strings marked as bytes; R's string cache, which the CSV populate functions
  use on pool threads. The ALTREP classes for doubles, complex numbers and bytes are made with `R_make_altinteger_class`
  and called with methods of the wrong type: what they return depends on registers.
- Code without callers: `__ufo_calculate_chunk_indices`, `uncompact_intrange`, the set of `rash.c`, `irash_count_members`, the
  region methods of `ufoaltrep`.
- `ufoseq` (an example package), `evil`, `rrr.c`, and the experiments under `ufos/src/mappedMemory`.
