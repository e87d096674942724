# A TLA+ model of BehaviorDB

BehaviorDB is an embedded store. A client puts a datum (a byte string) and gets
a 32-bit address; with the address it reads, appends to, inserts into, replaces
or deletes the datum. This directory holds TLA+ modules translated from the
source, TLC configurations that check them on small instances, and proofs that
TLAPS checks. File names below are relative to `src/`.

## 1. The system

### Components, state and operations

| component | source | state | operations |
|---|---|---|---|
| BDBImpl | `detail/bdbImpl.*` | the pools, the table of global ids | put, put at an address, update, del, partial del, get, construction |
| pool | `detail/poolImpl.*` | one pool file of equal chunks, an IDPool of chunk headers | write, replace, merge_copy, merge_move, free, erase, read |
| IDPool | `detail/id_pool*.hpp` | bitmap `bm_`, mark `max_used_`, bitmap `lock_`, array `arr_` (the .fpo file), log (the .tran file) | Acquire, Acquire(id), Release, Commit, ReleaseAndCommit, extend, replay |
| id_handle | `detail/id_handle*.hpp` | operation, id, value, `commited_` | construct, commit, destroy |
| fixed_pool, addr_wrapper, ChunkHeader | `detail/fixedPool.*`, `addr_wrapper.hpp`, `chunk.*` | one file of fixed cells | store, read |
| addr_eval | `detail/addr_eval.*` | prefix length, two callbacks | directory, global_addr, addr_to_dir, local_addr |
| Config | `bdb/common.hpp`, `detail/common.cpp` | the configuration | validate, the default callbacks |
| v_iovec, file_utils | `detail/v_iovec.*`, `file_utils.hpp` | none | gathered write; read and write loops |
| nt_ calls | `detail/nt_bdbImpl.cpp` | none of their own | put, get, update, del on internal addresses |
| AddrIterator | `detail/addr_iter.cpp` | an id | walk over the ids in use |
| stat, logger, facade, tools | `detail/stat.*`, `log.hpp`, `bdb.cpp`, `tools/` | none that others read | reporting, forwarding, command lines |

`refHistory` is not part of the build; the streaming interface is commented out
in `bdb.hpp` and `bdbImpl.cpp` (lines 251-614).

### How they interact

The database is two layers of tables of the same kind:

    global id --(IDPool of addresses)--> address = pool number, chunk number
    chunk number of a pool --(IDPool of ChunkHeaders)--> size of the datum
    chunk number * chunk size --> position of the bytes in the pool file

Everything is a plain call on one thread; there are no messages, callbacks run
to completion, and nothing is locked. What components share is the tables. A
call of the API opens *handles* on them. A handle acquires an id in memory when
it is constructed; `commit()` makes the id and its value durable (array cell,
then log record); the destructor gives an acquired id back when `commit()`
never succeeded. Exceptions are the only error path, so the destructors do all
the cleaning up.

### What is hard about it

- **Crashes.** One call writes up to two logs, two arrays and a pool file, in
  an order chosen in the source, and nothing makes the group atomic. The
  process may stop between any two writes and inside one; the next start
  rebuilds the bitmaps from the logs.
- **Failures half way.** Memory can run out while a bitmap grows, a pool can be
  full after an id has been acquired, a write can fail after a chunk has been
  acquired. `id_handle::commit()` ignores a failed log write.
- **Nesting.** Up to four handles are open on one IDPool (write, merge_move,
  merge_copy, write).
- **Widths.** Chunk numbers are cut to the address's local part, positions to
  32 bits in one place and not in others, sizes are added in 32 bits.
- **Files as bytes.** The log is text that is appended to and read back with
  stream extractors; a record may be cut off anywhere. Copies inside a pool file
  overlap their source, go through `s_read`/`s_write` call by call, and a signal
  may send those round again.
- **Iteration.** An iterator keeps an id while other calls delete it.
- There is no concurrency, so nothing about threads is modelled.

### What makes each component correct

- IDPool with handles: a restart at any point rebuilds exactly the committed
  rows; a published id never vanishes; no two handles own one id; ids are
  reused last.
- The log and array files: a whole log reads back as the table, whatever bytes
  the values have; a record cut off at its end risks one row; cells do not overlap.
- addr_eval: packing loses nothing; the chosen pool has room for the datum.
- pool: offsets, sizes and counts come out right in 32-bit words; a copy that
  reports success moved every byte and touched nothing else, and it returns.
- AddrIterator: a walk skips no id that stays, goes forward, and ends.
- BDBImpl over its pools: an id reads back what the calls made of it; no two ids
  share a chunk; no chunk and no id stays reserved when a call fails; a crash
  damages ids only in named calls.
- nt_ calls: on the same pools they do not disturb the ids, nor the ids them.

## 2. The modules

| module | models | kind |
|---|---|---|
| `IdTable` | the bitmap allocator inside IDPool | operators on records |
| `IdPool` | IDPool, id_handle and the array and log files, by records | state machine |
| `IdTableSpec` | what IDPool promises: a durable table with reservations | abstract specification |
| `TranLog` | the .tran and .fpo files of an IDPool, by characters | state machine |
| `IdWalk` | AddrIterator, `next_used`, `avail` and `full` over a changing table | state machine |
| `AddrEval` | addr_eval, the default callbacks, Config::validate | operators |
| `ChunkOps` | what pool computes from offsets and sizes | operators |
| `BlockCopy` | the block copies of erase and of a file_src, over s_read and s_write | state machine |
| `BehaviorDB` | BDBImpl over its pools, the pool files and addr_eval | composition (INSTANCE of `IdTable` twice, EXTENDS `AddrEval`) |
| `NtApi` | the nt_ calls beside the ordinary ones | composition (EXTENDS `BehaviorDB`) |
| `MCIdPool`, `MCTranLog`, `MCIdWalk`, `MCBlockCopy`, `MCBehaviorDB`, `MCNtApi` | the TLC instances; `MCIdPool` also has the replay loop as a fold | model checking |
| `MCArith` | `AddrEval` and `ChunkOps` over every combination of bounded arguments | model checking |
| `IdTableProofs` | lemmas on the bitmap operators | proofs |
| `IdPoolProofs` | the inductive invariant of `IdPool`, what follows, the replay loop, and that `IdPool` implements `IdTableSpec` | proofs |
| `BlockCopyProofs` | the inductive invariant of `BlockCopy` and what follows | proofs |
| `IdWalkProofs` | the inductive invariant of `IdWalk` and what follows | proofs |
| `TranLogProofs` | the inductive invariant of `TranLog` and what follows | proofs |
| `ArithProofs` | the properties of `MCArith` for words of every width | proofs |
| `BehaviorDBProofs` | the inductive invariants of `BehaviorDB` and of `NtApi` and what follows | proofs |
| `Numbers` | a nonempty set of numbers has a least element; loops over numbers; quotients, remainders and powers of two | proofs |

Definitions whose comment begins with `fault:` are deliberate mistakes; they are
used nowhere in the model. Each is the wrong version of the definition it is
named after, and puts one property to the test.

### IdPool and the code

| model | code |
|---|---|
| `bm` (`size`, `used`, `top`) | `bm_.size()`, the bits of `bm_` that are false, `max_used_` |
| `arr` | the cells of `arr_` |
| `tran` | the records of the .tran file, `+` with a value and `-` |
| `stack` | the id_handle objects alive, the innermost last |
| `failed` | history: which writes of commit() have failed since construction, of a cell or of a record |
| `OpenAuto`, `OpenSpec`, `OpenExisting` | the constructors of id_handle by operation code |
| `Store`, `LogPlus` | the two halves of `Commit()`, so that a crash can come between |
| `StoreFails` | `store()` throwing out of `Commit()` before the record; the open handles are destroyed on the way out |
| `LogFreed` | `Commit()` of an id that was released in between |
| `LogMinus` | `ReleaseAndCommit()` |
| `WriteFails` | either of them returning false; `commit()` only remembers it |
| `Close` | the destructor |
| `Restart` | process end at any point, then the constructor with its replay |

`Restart` describes the replay by what the log says of each offset (the last
record that names it). `ReplayLoopAgrees` compares that with the loop of
`replay_transaction()` written as a fold, and `ReplayLoopIsRight` proves them
equal for every log a pool can write. The other proofs use the first form.

Ids are offsets from `beg_`; `Cap` is `end_ - beg_`. A client names only ids
that some commit has published, since nobody else knows an id that is still
pending.

### TranLog and the code

`IdPool` takes the log for a sequence of whole records. `TranLog` looks at the
same two files character by character.

| model | code |
|---|---|
| `log`, `cells` | the .tran file, the .fpo file |
| `PlusRecord`, `MinusRecord` | the records `Commit()` and `ReleaseAndCommit()` format |
| `Stored`, `CellAt` | `fixed_pool::store()`, `operator[]` |
| `Extracted`, `ReadText` | the extractors `>> off` and `>> val` on the log |
| `Turn`, `Replay` | one turn of the loop and the loop of `replay_transaction()` |
| `Commit`, `ReleaseAndCommit` | the commits that succeed |
| `CommitFails`, `ReleaseFails` | the append stops inside the record (crash, full disk), or a signal makes `s_write()` begin it again behind the part |
| `StoreFails`, `stuck` | a cell that cannot be written; the stream keeps its error, and every later `store()` throws |
| `Reopen` | construction on the files as they are |

The loop ends with `sane = FALSE` where the program reads or writes outside the
bitmap; the properties say when it cannot come to that.

### IdWalk and the code

`cur` is `cur_`; `Begin` is `BDBImpl::begin()`, `Advance` is `operator++`,
`NextUsed` is `next_used()`, `Avail` is `avail()` and its negation `full()`.
`Put`, `PutAt` and `Del` are the effects of the other calls on the table. `seen`
and `stayed` are history: where the walk has stood, and which ids have been in
use ever since it began.

### AddrEval, ChunkOps and the code

`DirCount` is 2 to the prefix length, `LocalSpan` 2 to the remaining bits of
the word, so an address is `dir * LocalSpan + loc`. The source computes it with
shifts and masks; `packed`, `prefix`, `loc_addr_mask` and `Masked` are those, and
a shift by the whole width may leave the word or clear it. `CSE` is the chunk
size callback.

`ChunkOps` names bytes by where they come from, so that `merge_copy`, `erase`
and the reads can be compared with what they should produce. `Plus` and `Minus`
are the 32-bit operations. `insert_dir` in `MCArith` takes the two together: the
test of `write()` on the chunk the datum is in, and `directory()` of the same
sum when it has to move.

### BlockCopy and the code

| model | code |
|---|---|
| `job` | the call: the loop of `pool::erase()` (kind erase) or `write_viov` of a file_src (kind viov), with its source, target, length and the end of the file |
| `file` | the bytes of the file, each labelled with the place where it stood first |
| `NextBlock`, `Finish` | the head of the loop and the seek |
| `ReadSome`, `ReadSlips`, `ReadBreaks` | one `fread()` of `s_read()`: without error, with EINTR, with another error |
| `Got`, `GotLess` | the test of the count: next the write, or the exception (or `orig_size`) |
| `WriteAll`, `WriteSlips`, `WriteBreaks` | the same of `s_write()` |
| `Written`, `WrittenLess`, `Flush` | the test of its count, and `fflush()` |
| `slipped`, `broke` | history: a signal came after some bytes had moved; a call reported an error |

### BehaviorDB and the code

| model | code |
|---|---|
| `gids` | the IDPool of addresses `global_id_` |
| `pools` | for each pool its IDPool of chunk headers |
| `file` | the pool files: pool, chunk number, bytes |
| `job` | the part of a call still to be performed: its durable steps, in the order of the source |
| `out` | "ok", or the exception the last call ended with |
| `want` | history: what an id must read back, by the calls alone |
| `hurt` | history: a crash or failed write hit a call between destroying an id's old datum and publishing its new one |
| `crashes` | history: crashes inside a call |

A call is one planning action (`put`, `put_spec`, `insert`, `update_in_place`,
`update_moving`, `del`, `erase`, `refuse`) and then one action per durable step
(`WriteBytes`, `CommitSize`, `ReleaseChunk`, `CommitId`, `ReleaseId`). Planning
is everything up to the first durable step: it tests the id, picks a pool,
acquires the id and the chunk in memory, or throws. It can be one action because nothing
else runs and a crash inside it leaves the same files as a crash before it.
`WriteFails` ends a call in the middle of `WriteBytes`, with any prefix
written and the destructors run. `Crash` may come between any two steps, or
with any prefix of a due write in the file, and restarts the database; when no
call is under way it is an orderly restart.

Committing a row is one step here (`CommitSize`, `CommitId`,
`ReleaseChunk`, `ReleaseId`), with the bitmap rebuilt by `IdTable!Reopened` at a restart.
That is what `IdPool` establishes: `PoolImplementsTable` says that the array
cell and the log record act as one atomic change of a row. In the same way a
copy of bytes is one write here, which is what `BlockCopy` shows of a copy that
reports success.

Abstractions of `BehaviorDB`:

- Bytes no row covers are forgotten (beyond the size of a datum; in a free
  chunk). The code reads a chunk up to the size in its header only.
- The migration copies a datum through a buffer of 1 MiB (`MIGBUF_SIZ`) and
  the kernel may see several writes; the model has one write whose prefix may
  survive. Every prefix of the sequence of writes is such a prefix.
- A client inserts at an offset within the datum, or at npos. A partial del
  takes any offset. What larger offsets make of the sizes is in `ChunkOps`.
- Sizes are small and do not wrap here; `ChunkOps` has the wraps. A put of zero
  bytes is left out: its write has null data and `s_read` of it, at the end of
  the file, does not return.
- Chunk sizes increase with the pool number, as `validate()` means to ensure.
- A log or cell write that fails is modelled in `IdPool` and `TranLog` only.
  Reads do not fail. Signals are in `BlockCopy` and `TranLog` only.
- The passing runs keep `PoolCap <= LocalSpan` and the pool files within
  `PosSpan`. Outside these limits `ReadsBack` is false; `db_seek` shows it for
  `PosSpan`.

### NtApi and the code

Every nt_ call plans like its ordinary counterpart and then performs the same
durable steps of `BehaviorDB`, without those on the table of ids. `own` is what
clients should read at the addresses they hold, `due` the same once the
present call is over.

Two calls return an address that does not lead to the datum. `nt_put` at an
address and `nt_update` return the address they were given when the datum has
moved (`nt_bdbImpl.cpp:56, 71`). An `nt_update` in place returns what
`replace()` gives back, the chunk number alone (`nt_bdbImpl.cpp:74`), which is an
address in pool 0: the right one for a chunk of pool 0, and a wrong one for any
other. After such an update the client of the model goes on with the address it
has or with the one it was given; after a move it only has the old one.
`strayed` records that a client was left with a wrong address, and the
properties speak of the time before it. So what they say of `nt_update` in a larger
pool is about a client that ignores its result.

## 3. What is checked

| run | instance | checks |
|---|---|---|
| `pool_crash` | 2 ids, bitmap from 1 bit, 2 values, depth 2, log of 4 | `TypeOK`, `SingleOwner`, `RestartIsExact`, `NothingLost`, `ReplayLoopAgrees`, the inductive invariant `IInv` and `ReuseLast`, with a restart at any point, failing writes of the log and of cells |
| `pool_refine` | the same; memory may run out, the disk works | `AbsSpec`: IDPool implements the durable table |
| `pool_stops` | 2 ids, one handle at a time | violated: `StopsOnFailure` |
| `log_text` | offsets 1 and 2 in base two, values of white space or that look like a record, 3 appends, 1 of them broken | `TypeOK`, `WholeLogReads`, `OneRowAtRisk`, `CellsHoldRows` |
| `walk_steps` | 5 ids, bitmap from 2 bits, memory may run out | `TypeOK`, `NothingSkipped`, `NeverStrands`, `FullIsTrue`, `GoesForward`, `WalkEnds` |
| `arith_words` | addresses of 5 bits, 4 pools, sizes below 16, a chunk of 8, blocks of 6 | `Packs`, `PoolFits`, `Admission`, `Edits`, `Reads` for every combination of arguments |
| `arith_range` | the same | violated: `RangeReads` |
| `copy_loop` | blocks of 3, a datum of 7, every overlap of one to three bytes, 3 signals | `TypeOK`, `CopiesExactly`, `KeptMeansUntouched`, `StaysInTarget`, `Returns` |
| `db_calls` | 2 pools (chunks of 2 and 4 bytes) of 2 chunks, 2 ids | `ReadsBack`, `NoSharing`, `NoOrphans`, `MemoryMatchesDisk`, `StatCovers`, `DataFit`: all calls, orderly restarts, failing writes and memory |
| `db_crash` | the same, with bitmaps of full size; no failure but one crash inside a call | `ReadsBack`, `SafeCalls` |
| `nt_mixed` | 2 pools of 1 chunk, 1 id, failing writes, one crash; a datum no pool takes | `TypeOK`, `NtReadsBack`, `IdsUndisturbed`, `ChunksOwned`, also continued after damage |
| `db_seek` | positions below 4 | violated: `ReadsBack` |

### Fairness

Two specifications state fairness, each as much as the code gives.

- `BlockCopy`: `WF_vars(Next)`. The copy is a loop on the calling thread, which
  runs as long as it can take a step. No fairness is asked of the kernel: each
  signal counts against `MaxSignals`, so that they are finitely many is a bound,
  and an `fread()` at the end of the file offers no step, as the source then
  repeats it without effect. `Returns` holds for a source that is in the file; a
  source that is not, such as a chunk with a header and no bytes, makes `s_read`
  repeat for ever, and so may a signal after some bytes of a read.
- `IdWalk`: `WF_vars(Advance)`. The client's loop is `while(iter != bdb.end())
  ++iter`. Nothing is assumed of `Put` and `Del`, which may happen for ever:
  `WalkEnds` holds because a walk only goes forward in a bounded range.

Everything else is safety: a call is a sequence of steps of one thread, and a
process may stop at any of them.

`copy_loop` and `log_text` set CHECK_DEADLOCK FALSE: a copy ends (or hangs at the
end of the file), and a log that can no longer be opened ends the process.

### Bounds, and why they are enough

- `MaxLog` bounds the records of a log, `MaxDepth` the open handles,
  `MaxCrashes` the crashes inside calls. The source bounds none but the depth
  (four). What a log says of an offset depends on the records of that offset
  only, and three records of one offset already give acquire, release, acquire
  again. Two handles give every pair of an outer and an inner one. Two ids from a
  bitmap of one bit reach room above the mark, growth, holes and no room;
  `walk_steps`, with five from two, also growth by a half that is cut at the
  capacity. The proofs remove all of these bounds for `IdPool` and `IdWalk`.
- `MaxAppends` = 3 gives acquire, release or modify, and one more record behind
  them; base two makes "1" the beginning of "10", so a record that is cut off
  within its offset names another one. `MaxTears` = 1: the properties speak of one
  broken record (what several do is described below). The proofs hold for every
  base, width, value, range and number of appends.
- `Block` = 3 and `Datum` = 7 give two whole blocks and a rest, a gap smaller
  than, equal to and larger than what is left of a block. Three signals interrupt
  a read and a write, or one of them twice. The proofs remove these bounds for
  all safety properties.
- A word of 4 bits for sizes wraps like one of 32: every pair of arguments
  around the boundary occurs. The chunk (8) is half of it, the block (6) between.
  The proofs hold for every width.
- Two pools are enough for every choice among pools: the first fits, the next
  one is tried when it is full, none fits. Chunks of two and four bytes with data
  of one, three and (in `nt_mixed`) five bytes cover in place, moving to
  a larger pool, and too large.
- `Undamaged` (a CONSTRAINT of `db_calls` and `db_crash`) checks the states in which a crash or
  failed write has damaged an id and does not continue from them; `ReadsBack`
  and `NoSharing` say nothing there. `nt_mixed` has no such constraint.
- The values of `IdPool` are symmetric; the property checked by refinement
  runs without symmetry.

### What the runs show of a crash

`SafeCalls` names the calls that can lose data when the process stops: `insert`
(put at an address in use), the in-place `update`, the partial `del`, and
`del`. The first frees the old chunk before the id leads to the new one
(`merge_move` commits the release, then BDBImpl commits the id); `update` in
place and partial `del` change the bytes of a live chunk before its header; `del`
frees the chunk before the id. A put of a new id and an `update` that moves
the datum damage nothing at any point. After `del` or `insert` is interrupted
in its window, an id leads to a free chunk; a later put may take that chunk, and
then two ids share it. `NoSharing` therefore holds only while `hurt` is false.

`OneRowAtRisk` says what a crash inside one log record costs: a record is cut
off, the next start still reads the log, and one row at most is wrong, that of
the offset cut short. It says nothing of the time after: the next append goes
behind the stump without a separator, and the replay then reads both as one
record. With "+10" cut to "+1", the following record is read as the value of
row 1, and what remains of it is skipped or taken for another record.
The same happens after a failed write that the program survives, since
`commit()` ignores it.

### Findings

Disagreements between the code and what its documents or messages say; each is
a run that TLC refutes.

1. `pool_stops`: `detail/bdb_doc:356` says that the system terminates when a
   log write fails. `commit()` remembers the failure and returns; the
   destructor takes the id back, and the next call opens a handle as if nothing
   had happened.
2. `arith_range`: the size of `get()` is documented as that of the output buffer
   (`bdb/bdb.hpp:79`). A range that ends before the end of the datum makes
   `pool::read()` ask the file for the size of the whole datum.
3. `db_seek`: chunks are documented to be seekable anywhere
   (`concepts/limits.markdown:73`); `writevv()` cuts the position to 32 bits.

Others were met while modelling and have no run:

- `validate()` says that chunk sizes must be ordered (`detail/common.cpp:74`)
  and compares pools 0 and 1 only; the default callback wraps for large minimum
  sizes. It accepts an empty prefix, for which `init()` shifts by the width of
  the word.
- A pool is documented to have 2^28 chunks at most (`concepts/limits.markdown:65`)
  and is constructed with the range up to npos (`poolImpl.cpp:49`), so its numbers
  can outgrow the local part of an address.
- Deleting a segment of size zero deletes the rest of the datum
  (`bdb/bdb.hpp:104`, `poolImpl.cpp:341`): the sum that does not exceed the offset
  is taken for an overflow. `Edits` states what happens.
- An insertion at an offset beyond the end of the datum is not refused: the
  length of the piece behind it wraps (`poolImpl.cpp:244`), and with it more
  bytes are asked for than a word can say. `Edits` states that too.
- A deletion is documented to return -1 when it fails (`bdb/bdb.hpp:105`).
  `pool::erase()` returns the old size when the first read fails (`poolImpl.cpp:355`)
  and throws when a later read or a write does.
- A datum no pool takes is reported as `std::length_error` (`bdbImpl.cpp:649`)
  where `bdb.hpp:34` documents `chunk_overflow`.
- `Config::end` (`bdb/common.hpp:55`) is logged and not used, the table of ids
  running to npos (`bdbImpl.cpp:83`). With `beg` = 1 `full()` is never true, as
  `avail()` compares an offset with an id. `FullIsTrue` claims the second half
  only for `beg` = 0.
- `examples/bdb.cpp:170` warns that other calls invalidate an iterator; they do
  not (`NothingSkipped`, `NeverStrands`).
- Dead code with mistakes: `overwrite` has no boundary check though its comment
  has one (`poolImpl.hpp:100`); `Lock()` clears the bit of `lock_` as
  `Unlock()` does (`id_pool_def.hpp:136`).
- `nt_put` at an address and `nt_update` return an address that does not lead to
  the datum once it has moved, and `nt_update` also when it stays in a pool other
  than the first.
- `s_read` and `s_write` after EINTR repeat without advancing: bytes move twice
  and the count comes out too large, which is mostly reported as a failure. When
  an error follows and the total happens to be right, a wrong copy is
  reported as a success (`Masked`, left out of `CopiesExactly`); a repeated
  write may run over the end of the chunk (`slipped`, left out of `StaysInTarget`).
- A `store()` that fails leaves its stream in the failed state, so every later
  commit of that pool throws until it is opened again.
- In 32 bits: the size on disk that `stat()` computes wraps (`StatCovers` leaves
  out pool files that large), and so does the sum of header and inserted
  bytes near 4 GiB: such an insertion passes the test of `write()` and overruns the
  chunk. `Admission` states that this happens for every sum that wraps and for no other.
- A read into a string drops its last block when the total reaches `max` and
  still counts it; a datum longer than `MIGBUF_SIZ` is asked for as a whole on the
  first block.

## 4. What is proved

Assumptions, all named and evaluated in the runs: `TableAssumption` (a nonempty
range; a fresh bitmap no larger), `PoolAssumption` (None is not a value; the
bounds are natural numbers, the switches Boolean), `WalkAssumption` (`Beg` a
natural number, None not a number), `CopyAssumption` (blocks are not empty, the
modelled places have room for every byte a copy may touch, a gap is closed
downwards and a datum is copied to a chunk that does not overlap),
`LogAssumption` (at least two digits, told from each other and from the signs and
white space of a record; a value has characters, and always as many; offsets below
`end_`, which is the largest word),
`ArithAssumption` (the width of a word is a natural number, the chunk's size a word),
`EvalAssumption` (at least two pools, an address with room for a chunk),
`StoreAssumption` (nonempty tables; data are finite sequences; offsets other than
`npos` and sizes are natural numbers; None is not an integer), `UnsureAssumption`
(Unsure is neither None nor a datum). The theorems hold
for every range, value set, depth, log length, base, word width, block size, job, datum, number of
pools, of signals and of crashes, with failing writes and failing memory unless
stated.

### IdPool

    IInv == TypeOK /\ SingleOwner /\ HandlesSound /\ LogSound /\ NothingLost
            /\ RestartIsExact /\ ReplayInBounds /\ TopIsSound

None of the properties is inductive alone. `RestartIsExact` needs
`HandlesSound`, which says that a handle between the two halves of its commit
is the innermost one, that its id is in use and its value is in the array.
`NothingLost` needs `SingleOwner`, or a destructor could clear the bit of an id
that another handle has published. `ReplayInBounds` needs `LogSound`: a release
or a modification is opened only on an id the log has acquired, which in turn
follows from `NothingLost`, since an id in use that is not pending is live in
the log. `TopIsSound` closes the loop through the restart, which rebuilds the
mark from the log. `RestartIsExact` speaks of the time
before a write fails; the other parts hold through failures.

| theorem | states |
|---|---|
| `Invariance` | `Spec => []IInv` |
| `TypeCorrect`, `HandlesDoNotShare`, `PublishedIdsSurvive`, `ReplayIsExact`, `ReplayStaysInBounds`, `MarkIsSound` | the named part of the invariant holds always |
| `OldIdsLast` | `Spec => ReuseLast`, an action property, from the invariant and a lemma on `Acquire()` |
| `ReplayLoopIsRight` | `Spec => []ReplayLoopAgrees`: the loop over the records ends where `Restart` does |
| `PoolImplementsTable` | with a disk that does not fail, `Spec => AbsSpec` |

The layout of `IdPoolProofs`: lemmas about what one more record makes of a log, about
the bitmap operators, and about a stack of handles with one more, one fewer or
a changed last element; then one lemma per action; then `StepIInv` by cases.

The replay loop is a fold, which is a recursive function, of which nothing is
known before it is shown to exist. `LoopSolvable` builds a solution of its
equation one place further at a time and takes the least length without one,
which `LeastElement` gives; that replaces an induction. In the same way `LoopAgrees` takes
the shortest beginning of a log after which the two readings differ, and
`TurnAgrees` shows that one more record cannot have made the difference. The
only condition on the log is that each "+" carries a value, which is part of `LogSound`.

The last part of `IdPoolProofs` uses the invariant, and maps `table` to the rows the log
would replay to and `held` to the ids of pending handles. `LogPlus` is the
step that publishes or revises a row, `LogMinus` drops one, opening an
acquisition reserves, closing it abandons, `Restart` forgets the reservations;
`Store`, `LogFreed` and the rest are stutters.

### TranLog

    LogInv == TypeOK /\ rows \in Tables /\ Kept /\ WholeSoFar /\ PartAtEnd

What a replay makes of a log is induction over the log, and the log grows at
its other end: one more record must not change what the loop did with those before
it. An invariant that says only what the replay makes of the log as it is cannot be
kept, since the extractors look ahead (digits go on as long as there are any).
`WholeSoFar` therefore says, until an append breaks off, that the log leads to the table
in the sense of `Reads(log, s)`: for *every* text behind the log and *every* content
of the cells, after some number of turns the loop stands at the end of the log, up to
white space, with the rows, the variable and the size of `s`. A record appended takes
one more turn from there (`ReadsPlus`, `ReadsMinus`), whatever its value is made of;
a part of a record appended takes the last turn (`PlusBroken`, `MinusBroken`), in
which the first digits of the offset may be read as another (`NumberCut`). The size
matters: a release of an offset beyond the bitmap would leave it, and `Reads` says
that every row is within.

`PartAtEnd` keeps what such a part did: one row at most, of an offset
whose digits begin those of one in `torn`. `Kept` is about the cells: those of
rows that no commit failed for hold their values, and `CellsApart` is what keeps
it when another is written, in whole or in part.

| theorem | states |
|---|---|
| `LogInvariance`, `LogTypes` | `Spec => []LogInv`, `Spec => []TypeOK` |
| `WholeLogsRead` | `WholeLogReads`: a log without a broken record reads back as the table, whatever characters the values have |
| `OneRowLost` | `OneRowAtRisk`: a record broken off at the end costs one row at most, and the pool can be opened |
| `CellsKept` | `CellsHoldRows`: cells hold the rows, and each opening repairs those a failed commit left |
| `TableFromLogAlone` | what the replay makes of a log, any text at all, does not depend on the array file |

`TranLogProofs` goes from characters up: where skipping stops; that digits are
added up as they were spelt (`NumeralFacts`, by the least offset for which it
would fail); what the extractors read of a whole record, of a part, and at the
end; one turn of the loop; the list of turns of a replay, which `Iteration` in
`Numbers` shows to exist, since the loop is a recursive function; then the
invariant, one lemma per action.

### BlockCopy

    CInv == TypeOK /\ Counts /\ Contents

`Counts` says how `loopOff`, `at`, `left`, `total` and `pos` are related at each
place of the loop as long as no signal has slipped, and how far they can drift
when some have. `Contents` says which bytes of the target are copied already,
what the buffer holds of the block at hand, and that every other byte, the
source bytes still to come among them, is unchanged. The last needs that the
target begins before the source or does not overlap it, which is how both
callers copy.

| theorem | states |
|---|---|
| `CopyInvariance`, `CopyTypeCorrect` | `Spec => []CInv`, `Spec => []TypeOK` |
| `SuccessIsExact` | `CopiesExactly` |
| `KeptIsUntouched`, `OthersUntouched` | `KeptMeansUntouched`, `StaysInTarget` |

### IdWalk

`WInv` adds to the properties that the mark is at most `bm.size`, that the ids
in use lie below the mark, and that the ids in `stayed` are in use.
`NeverStrands` rests on the mark: an id in use lies below `bm.size`, and no step
shrinks it. That a table that is not full has an id to give needs the mark too,
and that a nonempty set of free offsets has a least one, which is the one
`Acquire()` takes.

| theorem | states |
|---|---|
| `WalkInvariance`, `WalkTypes` | `Spec => []WInv`, `Spec => []TypeOK` |
| `WalkSkipsNothing`, `WalkNeverStrands`, `WalkGoesForward` | `NothingSkipped`, `NeverStrands`, `GoesForward` |
| `FullIsRight` | `FullIsTrue` |

### AddrEval and ChunkOps

These are operators on words, and `MCArith` calls them with every combination of
arguments; its invariants hold of each combination on its own, so the only
invariant needed is `Arguments`, the ranges of the arguments. Beyond the
assumptions on the constants there are `EvalAssumption` (at least two
pools, an address with room for a chunk), `ChunkAssumption` (words of at least
one bit, blocks that are not empty) and `ArithAssumption`.

| theorem | states |
|---|---|
| `AdmissionAlways` | `Admission`: an insertion stays in its chunk exactly when the new datum fits it or the sum wraps, and then it overruns the chunk; otherwise it goes to a pool whose chunks hold it, or none does. As for `PoolFitsAlways`, the last pool must be the one with the largest chunks |
| `EditsAlways` | `Edits`, for every datum, offset and size: `erase` takes the bytes named and no others, a sum that wraps included, all that follow if the size is zero, and none beyond the end; `merge_copy` produces the datum it should within the datum, and beyond its end asks for more than a word can say |
| `ReadsAlways` | `Reads`: a read to the end returns the datum, and the loop of reads into a string returns all of it below the limit |
| `PoolFitsAlways` | `PoolFits`, if the last pool is the one with the largest chunks, which `validate()` means to ensure and does not |
| `PacksAlways` | `Packs`: with the shifts and masks the source uses, pool and chunk number come back out, for every prefix that is neither empty nor the whole word |
| `PackingInverts` | pool and chunk number come back out of the address, by quotient and remainder |

`Reads` is about a datum shorter than a block, so the loop ends in its second
turn. The recursive function that stands for the loop has a solution that can be
written down (`Rounds`), hence it satisfies its own equation, and
`RoundsTurn` with two unfoldings gives the result.

`Packs` is about powers of two with an exponent nobody knows, and the provers know
nothing of `^` but its definition. `PowerSum` in `Numbers` has 2^(a+b) = 2^a * 2^b from
the library's theorems on cardinality: 2^n is the number of subsets of a set of n elements, and
the subsets of a union of two disjoint sets are the pairs of their subsets. Then a
shift is a quotient and a mask a remainder.

`PoolFits` needs a least element again: `directory()` returns the first pool that
is large enough. `LeastElement` in `Numbers` proves that there is one without
an induction over an operator, from the library's theorem that the subsets of a
finite set are well-founded by inclusion: a number is represented by
the initial segment below it, and the smallest segment belongs to the least one.

### BehaviorDB

The theorems have one hypothesis, `Roomy`: a chunk number fits the local part of
an address, and every chunk has a position that `writevv()` can say. The source
checks neither (`poolImpl.cpp:50` gives a pool every chunk number there is), and
without the second `db_seek` refutes `ReadsBack`.

    BInv(K) == Shape /\ Marks /\ Stage(K)

`K` says what is kept in the pools beside the ids: a datum, None, or that one is there
whose bytes are not known. In `BehaviorDB` alone it is `Nobody`; in `NtApi` it
is what the holders of addresses own, and every lemma serves both.

`Shape` gives the types and `Marks` bounds what is in use by the marks.
`Stage` is the heart: it lists the places a call can be at, one definition for
each (`ToWrite`, `ToSize`, `ToPublish`, `ToRebind`, `ToDiscard`, `ToEdit`,
`ToResize`, `ToConfirm`, `ToFree`, `ToUnbind`, `AtRest`), and says for each which steps
are left, what the chunks of the call hold, and how far the tables may
deviate. The last is `Store(K, S, T, Open, Fresh, Hot)`:

- the bitmaps agree with the rows, but for the ids `S` and the chunks `T` that
  the call has acquired and not committed;
- no two ids lead to the same chunk, none leads to a chunk in `Fresh`, and every
  id but those in `Open` leads to a chunk that holds a datum;
- until a crash, every chunk with a datum that is not in `Fresh` belongs to an id
  or is one of `K`;
- until damage, every id but those in `Hot` reads back what it should, and every
  chunk of `K` is in use, led to by no id, and holds its datum (`Others`).

The properties need all of it. That an id reads back after a step of a call
about *another* id follows only from the distinctness of places; that
distinctness survives the claim of a chunk only because the bitmap of the pool
agrees with its rows; and that needs to be known after a crash or a failed write
at any place, where the bitmaps are rebuilt or the handles give back what they
hold.

| theorem | states |
|---|---|
| `StoreInvariance` | `Spec => []BInv(Nobody)` |
| `StoreTypes` | `TypeOK`: rows are addresses, marks lie in their tables, a call ends in one of the named outcomes |
| `DataReadsBack` | `ReadsBack`: each datum, to the byte, through any crashes and failed writes that damage no id |
| `ChunksNotShared`, `ChunksBelong` | `NoSharing`, `NoOrphans` |
| `BitmapsAgree`, `StatIsEnough` | `MemoryMatchesDisk`, `StatCovers` |
| `CallsAreSafe` | `SafeCalls`, an action property: only insert, replace, erase and del ever have an id at risk |
| `DataFitsAlways` | `DataFit`, if the chunk sizes ascend (`Ordered`): nothing stored or half written runs into the next chunk |

`BehaviorDBProofs` goes from the data up: what `FirstBytes`, `Over`, `Splice` and
the erase make of a sequence; what one durable step makes of the tables
(`SizeEffect`, `FreeEffect`, `BindEffect`, `UnbindEffect`) and of `Store`
(`StoreWritten` to `StoreKept`); one lemma for each step from each place
(`StepKeeps` collects them); crashes and failed writes from any place
(`CrashKeeps`, `FailKeeps`); one lemma for each call (`CallKeeps`). The passing
runs of `BehaviorDB` are within `Roomy`.

`DataFit` needs more than `BInv`, which says nothing of lengths:

    FInv == BInv(Nobody) /\ TodoFits /\ \A r \in Places : Fits(r)

`TodoFits` says that every step the call has left keeps within the chunk it is
about, so a step preserves `Fits` and leaves a plan that fits, and so does a
write that breaks off. That a call plans such steps is where its choice of a
pool matters: the capacity test, `directory()`, the pools from there on. The
last are large enough only if the chunk sizes ascend; that is the hypothesis
`Ordered`, which the message of `validate()` promises (`common.cpp:74`) and its
test, of the first two pools, does not ensure.

### NtApi

The hypothesis is `Roomy` again.

    NInv == Quiet => NtFine
    NtFine == Shape /\ Marks /\ NtShape /\ AnyStage(Kept)

`Quiet` is the time before a client is left with a wrong address
and before an interruption damages an id; all properties of `NtApi` speak of that time only, and neither
flag is ever taken back. `Kept` is what the holders of addresses own, or only that they own something (`Unsure`)
while a call is changing it. `AnyStage(K)` says that the state is at one of
the places of an ordinary call, with `own = due`, or at one of the five of an
nt_ call: `NtToWrite`, `NtToSize`, `NtToEdit`, `NtToResize`, `NtToFree`. These
have no id to bind at their end, so `own` and not the table of ids says who the
chunk belongs to before and after.

What there is to prove is that the two kinds of client do not meet: a chunk an
nt_ call claims is led to by no id and held by nobody, because the bitmap of the
pool agrees with its rows; a chunk an ordinary call frees or moves is not held,
because its id leads to it (`Others`). The proofs are the last part of
`BehaviorDBProofs`. The steps of ordinary calls are those proved there before, used
with `K = Kept`; the rest is one lemma for each nt_ call, for each of their steps, and
for crashes and failed writes inside them.

| theorem | states |
|---|---|
| `NtInvariance` | `NtSpec => []NInv` |
| `AddressesReadBack` | `NtReadsBack`: an address reads back what the completed nt_ calls made of it |
| `IdsKeptApart` | `IdsUndisturbed`: ids read back, and none leads to a held chunk |
| `ChunksHaveOwners` | `ChunksOwned`: without a crash inside a call nothing leaks |

`NtApi` has no type theorem of its own: once `strayed` or `hurt` is true its types
are checked by `nt_mixed` only.

### Only model-checked

- `Returns` and `WalkEnds`: liveness under fairness is out of the provers' reach.
- `TypeOK` in `nt_mixed` once a client has a wrong address or an id is damaged.

## 5. Not modelled, and the plan

Not modelled, and why:

- `overwrite`, `merge_erase`, `pine`, `unpine`, `Lock`, `Unlock`: nothing calls them.
  With the last two goes the growth of `lock_`, which fails apart from that of `bm_` only when
  memory runs out between two lines, and then in an IDPool whose constructor or
  caller is given an exception.
- Ids below `beg_`: the offset wraps to a huge one and the extension throws, or,
  for `beg_ - 1`, asks for no bits at all. No call hands such an id out.
- The conversion of a chunk header to eight hexadecimal digits and back: every
  size fits, and the width is what `TranLog` depends on.
- A log or cell write that fails inside a call of `BehaviorDB`.
- `refHistory` and the streaming code are not built. The logger only writes, the
  tools and examples only call the library. The facade forwards, and its calls
  are the disjuncts of `Calls`.

What could follow, in this order: failing log writes inside `BehaviorDB`; an
abstract store (id to datum) that `BehaviorDB` implements while `hurt` is false, proved
from `BInv`; several broken records in `TranLog`, with what is left of the table after
each.
