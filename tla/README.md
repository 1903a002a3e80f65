# TLA+ models of rust-rocksdb's asynchronous reader and C ABI

This directory holds TLA+ models of the C++ code in `src/`. They are checked
with TLC. Run a check from this directory with
`tlc -workers 2 -config <cfg> <module>`, taking the module and cfg of a run
from `PROJECT.json`. That file lists every run, the property mutants that
test the runs, the source lines each definition models, the findings and the
hazards.

## 1. Inventory

### Components

| Component | Source | State | Operations |
|---|---|---|---|
| Submission Coalescer | `cxxrocksdb.cc` 35-65 | `m_pending_io`: `IO_key (fd, off)` → set of `iov_len` | the bookkeeping half of the submit-queue lambda |
| Ring Driver | `cxxrocksdb.cc` 67-95 | the io_uring SQ ring (`io_uring_size` entries), SQEs the kernel is working on, the CQ ring | `io_uring_get_sqe`, `prep_readv`/`prep_nop`, `io_uring_submit`; the kernel posts CQEs |
| Completion Dispatcher | `cxxrocksdb.cc` 119-185 | reads the CQ, `m_pending_io`, `m_n_pending_sqe` | `io_uring_reap_cq`: one loop iteration per CQE, resuming coroutines |
| Async Reader facade | `cxxrocksdb.cc`, `cxxrocksdb.h` | `m_db`, `m_n_pending_sqe`, `m_io_uring`, `m_submit_queue`, `m_pending_io` | constructor and destructor, `get`, `get_result`, `io_uring_peek_cq`, `pending_io_uring_sqe_count`, `setup_io_uring_sq_handler` |
| Engine read path | outside the repository (`DB::AsyncGet`, `Async_future`, `IO_ctx`) | per lookup: its coroutine and its read buffers | calls the submit-queue lambda once per block read and suspends on each read |
| C ABI (`c.cc`, 7150 lines) | `librocksdb_sys/crocksdb/c.cc` | opaque handles that wrap engine objects | DB open/close, column families, snapshots, iterators, write batches, options, callback adapters (compaction filter, merge operator, comparator, event listener, table-properties collector, SST partitioner), encryption (CTR cipher, key manager), external-SST seqno rewrite, statistics/perf getters, backup, checkpoint, Titan |

### How the parts interact

One thread drives the reader. Call it the driving thread.

1. `get` starts `DB::AsyncGet`. The engine's read path calls the
   submit-queue lambda for each block it needs. The lambda coalesces
   against `m_pending_io`, takes an SQE, prepares a `readv` (or a `nop`),
   calls `io_uring_submit`, counts the submission in `m_n_pending_sqe` and
   suspends the coroutine. It stores the promise in the `IO_ctx`.
2. The kernel consumes SQEs inside `io_uring_submit` and completes them in
   any order.
3. The caller calls `io_uring_reap_cq`. For each CQE, it clears the
   pending map on a `nop`, deletes the ctx, resumes the promise and
   decrements the counter. A resumed lookup runs on inside the loop: it
   either submits its next read or finishes.
4. `get_result` takes the status and frees the buffer and the future.

### What is hard

- Interleaving: the lookups are coroutines, and the kernel completes
  their reads concurrently and out of order. A resumed lookup submits new
  reads from inside the reap loop.
- Partial failure: the pending map is written before the SQE is obtained.
  A failed `io_uring_submit` leaves its SQE in the ring, and a later
  submit hands it to the kernel.
- Counting: `m_n_pending_sqe` must match what is in the ring, and the
  reap loop asserts that it never underflows.
- Liveness: a suspended lookup moves only when the caller drains the CQ.

### What makes each part correct

- Coalescer: every lookup that finishes "ok" has had its buffers written.
  A fully duplicate read is a `nop`. The map is empty when nothing is in
  flight. A failed submission leaves the map unchanged.
- Ring and dispatcher: every lookup is resumed exactly once per read, and
  only while it waits for that read. The counter equals the number of
  submissions that were submitted and not yet reaped. A CQE whose ctx
  never suspended resumes nothing.
- Facade: every started lookup eventually finishes, provided the caller
  drains the CQ. Each lookup is resolved once.

## 2. Plan

Done, most important first:

1. **AsyncGet**: the abstract contract of a lookup.
2. **AsyncReader + MC_AsyncReader**: the coalescer, the ring, the
   dispatcher, `get` and `get_result`, checked to refine AsyncGet.
3. **CApiMemory**: every heap block that crosses the C ABI (error strings,
   copied values, pinnable slices, handle wrappers, callback buffers, the
   logger's large buffer), and the `crocksdb_create_iterators` abort.
4. **SstPartitioner**: the partitioner and factory adapters and the
   partitioner context's boundary/size lists.
5. **ExternalSstSeqNo**: `ExternalSstFileModifier` (Open and
   SetGlobalSeqNo with its chain of validations), with write-back and
   crash of the page cache.
6. **AdapterOwnership**: which holder destroys each callback adapter
   (options, their copies, block-based table options, DBs, wrappers), and
   who destroys a table filter's context (read options, Titan read
   options, iterators), the shared resources (rate limiter, write buffer
   manager, task limiter, statistics, key manager, inspector) and envs.

Next:

- AsyncReader: the release (NDEBUG) build of the reap loop and a
  two-thread variant.
- A retry policy for a failed `io_uring_submit`: the orphaned SQEs that
  fill the SQ ring are never reclaimed (see the hazards), and nothing in
  the code retries.
- The CTR cipher as a pure operator (see section 6 for why it is not here).

## 3. Modules

### AsyncGet (abstract specification)

State per lookup: `aState` (idle, running, done, resolved), `aReads` (the
number of reads delivered so far) and `aStatus`. Actions:

- `Start`: the lookup succeeds at once when it needs no read, or starts
  running, or fails.
- `Deliver`: the next read in plan order is delivered. Afterwards the
  lookup finishes "ok" (after its last read), keeps running, or fails.
- `Resolve`: the finished lookup is resolved.

`Spec` adds weak fairness on `Deliver`.

### AsyncReader (the code)

| Variable | Code |
|---|---|
| `pending` | `m_pending_io`. Its DOMAIN is the set of keys present. |
| `sq` | SQEs prepared but not consumed by the kernel |
| `inflight` | SQEs the kernel consumed and has not completed |
| `cq` | the CQ ring, in order |
| `counter` | `m_n_pending_sqe` |
| `opState`, `cur`, `status` | each lookup's coroutine: where it is, which read it issued last, and its `IOStatus` |
| `filled` | which iovecs of which reads the kernel wrote (the buffer contents, abstracted) |
| `driver` | the driving thread: idle, inside `io_uring_reap_cq`, "aborted" by `assert(false)` on a failed read, or "underflow" when `assert(r >= 1)` fails |
| `submitErrors` | the failed submits so far, bounded by `MaxSubmitErrors` |

`driver` may also be "destroyed".

| Definition | Code |
|---|---|
| `Coalesce` | lines 35-65, translated exactly: the move of `iovs` on an absent key, and `resize` followed by one `push_back` per differing pending length on a present key. Iovecs are sequences of buffer positions; 0 is the zero-length iovec that `resize` creates. |
| `IssueRead` | the whole lambda, in this order: bookkeeping, then `io_uring_get_sqe` (`SqeFree`; on failure, kIOUringSqeFull), then prep, then `io_uring_submit`. A successful submit consumes every prepared SQE, does `fetch_add` and suspends. A failed submit returns kIOUringSubmitError and leaves its SQE in the SQ ring. |
| `Continue` | the engine's read path after a read: finish "ok" after the last read of `Plan[op]`, or issue the next one |
| `Get` | `Async_reader::get`: the lookup runs up to its first suspension |
| `ReapOne` | one iteration of the reap loop. With `res < 0` the debug build hits `assert(false)` and aborts. Otherwise: `ClearNop` for a `nop`, then `ResumeCtx` (resume the promise if it is set, and the lookup runs on), then `fetch_sub`. `assert(r >= 1)` is checked on the count after the resumed lookup's own submission. |
| `ReapEnd` | `io_uring_peek_cqe` finds the CQ empty and the loop returns |
| `GetResult` | `get_result`. It is guarded on the lookup having finished, because spec 4.4 says the result is taken after draining. |
| `Destroy` | `~Async_reader` (lines 11-13): `io_uring_queue_exit` drops the rings. It is enabled only with the constant `CallerDestroys`, and only when the driver is idle and `pending_io_uring_sqe_count()` (the caller's only test, `cxxrocksdb.h` 49-51) reads 0. Spec 4.5 states that precondition. `get_result` is static, so finished lookups can still be resolved afterwards. |
| `Complete` | the kernel: takes any consumed SQE and posts its CQE. A successful `readv` writes its non-empty iovecs. |

Peek and `pending_io_uring_sqe_count` read state and change nothing, so they
are not actions.

### CApiMemory (`c.cc`: buffers across the C ABI)

| Variable | Code |
|---|---|
| `heap` | every block allocated so far: allocator (`malloc`/`strdup`, `new`, `new[]`, a callback's), kind (C string, pinnable slice, handle wrapper, internal), state and the function that released it |
| `errslot` | the caller's `char* err` passed as `errptr` |
| `owned` | the blocks returned to the caller, which it must release |
| `aborted` | the process died (segfault) |
| `lastLog` | the length of the last message the logger callback received, and the length formatted |

`SaveError` is translated exactly: on a failed status it frees `*errptr`
and `strdup`s the message. Every wrapper is an action that takes the
engine's status from a small set: reads copy a found value into a
`malloc`ed buffer, `crocksdb_get_pinned` `new`s a slice and deletes it
unless the read succeeded, the open and create functions return new
wrappers or report through `SaveError`. The callback actions are
the compaction filter, the merge operator, the key manager, the file-system
inspector and the logger (`log_help_`'s stack/heap buffer choice).
`CreateIterators` builds the handle vector exactly as line 1306 does and
aborts on the null handle it hands to the engine.

Several entry points share the shape of an action above and are defined as
aliases of it: write batch save points (`SaveErrorCall`: they only report a
status), the write-batch-with-index iterator and the jemalloc allocator
(`NewWrapper`/`CreateColumnFamily`: a wrapper or an error), and Titan's
blob index decode. `StringResult` models the functions that return a
`malloc`ed copy of a `std::string` (statistics `ToString`, Titan's blob
index encode); the statistics one returns NULL when statistics are off.
The key manager is two actions: `KeyManagerOp` is the engine calling the
adapter, which `delete`s the callback's error string (finding 5), and
`KeyManagerCall` is the C entry points (`crocksdb_key_managed_encrypted_env_*`),
which hand the `strdup`ed error string to the caller as owned.

### SstPartitioner (`c.cc` 6456-6690)

`impl` is the partitioner objects (live, destroyed, or destroyed twice),
`wrap` the `crocksdb_sst_partitioner_t` wrappers and the `unique_ptr` each
holds, `held` the wrappers the caller owns, `engine` the partitioners the
engine owns, and `boundaries`/`sizes` the context's two lists. The factory
adapter's `CreatePartitioner` is one step: the move out of the callback's
wrapper, then the destroy of that wrapper. A callback that returns
nullptr makes both `CreatePartitioner` and
`crocksdb_sst_partitioner_factory_create_partitioner` return nullptr with
nothing changed (6633, 6674). That path is a stutter step and not an
action, so no property is stated about the null checks.

### ExternalSstSeqNo (`c.cc` 5714-5830)

`props` is the file's table properties (version, whether the seqno
property exists, the field's offset). The file's content exists twice:
`cache` (the page cache, which every read and write sees) and `disk`. `last`
is the result of the last call. `Outcome` is the validation chain of Open
and SetGlobalSeqNo as a `CASE` in code order, with every Env call able to
fail. `Writeback` and `Crash` are the kernel's; nothing in the code syncs.

### AdapterOwnership (`c.cc` options setters and adapter create/destroy)

| Variable | Code |
|---|---|
| `obj` | the adapters (C++ objects whose destructor calls the user's `destructor(state)`): class and state |
| `cb` | `shared_ptr` control blocks: the adapter each manages and whether it deletes it |
| `hold` | `crocksdb_options_t`, `crocksdb_block_based_table_options_t` and open DBs, with the slots that hold a `shared_ptr` (one per class of field) and the raw comparator |
| `wrapper` | `crocksdb_logger_t` and `crocksdb_sst_partitioner_factory_t`, each holding a `shared_ptr` |
| `rd` | the live copies of `ReadOptions`: `crocksdb_readoptions_t`, `ctitandb_readoptions_t` and iterators, as a bag of (kind, `table_filter`'s `shared_ptr<TableFilterCtx>`) |
| `mine` | the adapters the caller owns |
| `env` | `crocksdb_env_t`: live, `is_default`, the owned `Env` (an `obj` of class "env"), the base env it wraps, and the key manager's or inspector's control block |

The three ways an adapter is handed over are the classes: "taken" (the
setter wraps the raw pointer in a new `shared_ptr`: merge operator,
compaction filter factory, prefix extractor, filter policy, event listener,
table properties collector factory), "shared" (the setter copies the
wrapper's `shared_ptr`: logger, partitioner factory) and "borrowed" (the
options keep a raw pointer: comparator, compaction filter).
`crocksdb_options_copy` and `DB::Open` copy every slot. An adapter is
destroyed when the last reference to a deleting control block goes
(`Settle`).

A table filter's context is a fourth class, "ctx": owned from the start by
the `TableFilterCtx` that `crocksdb_readoptions_set_table_filter`
make_shared's, whose destructor calls the user's `destroy(ctx)`.
`TableFilter`'s copy constructor shares that control block (`IterCopy`).
`crocksdb_create_iterator` gives the iterator a copy of the read options.
That copy is made inside the engine's `NewIterator`, which is not in the
repository; the comment at `c.cc:4001` states it, and the model takes it
from there. `ctitandb_create_iterator` first assigns the read options into
the Titan read options (`c.cc:6992`). That drops the filter the Titan read
options held, then the iterator copies them. Read-side holders are not
referred to by index, so `rd` is a bag of the live ones. `MaxReaders`
bounds how many are live at once. Keeping them apart from `hold` keeps the
order of creation out of the state.

Shared resources follow the logger's pattern: `SharedCreate` makes the
wrapper and its control block, `WrapperDestroy` drops the wrapper's
reference, and `SetSharedAdapter` copies it into the options. Their getters
(`GetShared`) differ. The partitioner factory and statistics getters wrap
even an empty `shared_ptr`. The rate limiter, write buffer manager and
compaction thread limiter getters return NULL for an empty field.

Envs: `DefaultEnvCreate` points at `Env::Default()`. `MemEnvCreate`,
`CtrEncryptedEnvCreate`, `KeyManagedEncryptedEnvCreate` and
`FileSystemInspectedEnvCreate` new an `Env` that keeps the base env's
`rep` raw, and, for the last two, a `shared_ptr` to the key manager or
inspector. `EnvDestroy` is `if (!env->is_default) delete env->rep`. The
caller destroys an owned env only when no options or layered env uses it.
A default wrapper may go at any time. `OptionsSetEnv` stores the raw
`rep`. Whether an options object or a layered env outlives the `Env` it
was given is this caller precondition, which the C ABI cannot observe.
No property is stated about it, because it would only restate the
precondition. `MaxMade` bounds everything created, because otherwise the classes
multiply beyond five minutes.

A variant of `IterCopy` whose copy makes a new control block for the same
context is caught by `NoUseAfterDestroy`: destroy runs twice.

## 4. Runs

The AsyncReader runs use `MC_AsyncReader` with IO_keys `k1` and `k2` and
lengths {1, 2}:

- `MCPlan3`:
  - `g1` reads `k1` with length 1, then `k2` with length 2;
  - `g2` reads `k1` with length 1 (a duplicate);
  - `g3` reads `k1` with the two iovecs ⟨2, 1⟩, which exercises the
    nested loop of lines 55-62 against a set of pending lengths.
- `MCPlanSame`: two lookups of the same block.

| Run | Expect | Properties | What it shows |
|---|---|---|---|
| core | pass | TypeOK, CounterTracksRing, AbsSpec | Without failures, the reader refines AsyncGet, including its liveness, and the caller may destroy it once the pending count reads 0. Each lookup is resumed once per read, only while it waits, and eventually, provided the kernel completes and the caller drains. The counter always equals what is in the ring. |
| faults | pass | AbsSafety | With failed submits (up to 3), a full two-entry SQ ring and failed reads, no lookup is resumed twice, before its read completed, or after it failed. This relies on the `m_promise != nullptr` check, which keeps the CQEs of orphaned SQEs from resuming anything. Liveness is not checked here, because the code does not have it (section 5). |
| dup_data | violation | OkLookupsHaveData | A coalesced lookup finishes "ok" with an unwritten buffer. |
| pending_leak | violation | PendingEmptyWhenIdle | After its read is reaped, the key stays in `m_pending_io`. |
| sqe_full | violation | SqeFullKeepsPending | A kIOUringSqeFull failure has already changed the map. |
| stray_write | violation | NoStrayWrite | The kernel writes the buffers of a lookup that already failed, through the SQE a failed submit left behind. That SQE is also never counted. |
| capi_memory | pass | TypeOK, HeapAccounted, NoDoubleRelease, LogDeliveredWhole | Every live block is held by the caller or is its error string, and none is released twice. The logger callback receives every message whole. |
| capi_keymanager | violation | ReleaseMatchesAllocator | The key manager adapter `delete`s an error string the C callback `strdup`ed. |
| capi_iterators | violation | NoAbort | `crocksdb_create_iterators` with one column family segfaults. |
| sst_partitioner | pass | TypeOK, PartitionerOwnedOnce, NoLeakedWrapper, SizesMatchSegments | Every partitioner has one owner, no user destructor runs twice, no wrapper leaks, and the context keeps one size per segment. |
| sst_seqno | pass | TypeOK, OkMeansSet, WritesOnlySeqnoField | The rewrite touches only the seqno field of a validated version-2 file, and OK means the file carries the number asked for (until a crash). |
| adapter_ownership | pass | TypeOK, NoUseAfterDestroy, NoLeakedAdapter | Each user destructor and table-filter destroy runs exactly once, after the last holder or copy of ReadOptions that can call it is gone. The same holds for the shared resources and the key manager or inspector an env keeps. |

### Bounds and why they are enough

- AsyncReader:
  - Three lookups and two keys produce every branch of the coalescer: an
    absent key, a present key with an equal length, a present key with a
    different length, and a present key with several pending lengths and a
    two-iovec request.
  - A read path of two reads makes a lookup submit from inside the reap
    loop.
  - `Capacity` 2 with up to 3 failed submits lets the SQ ring fill with
    orphaned SQEs. This reaches kIOUringSqeFull, and it also reaches a
    successful submit that carries an orphan to the kernel.
- CApiMemory: `MaxBlocks` 4 allows an error string to be replaced by a
  second one while a returned value is still live, and a callback buffer
  next to both. `NKeys` 2 gives a multi-get with a found key and a missing
  one. `LogBufferSize` 2 stands for `kBufferSize` 500 and messages of 0..3
  characters cover both sides of it and the boundary itself.
- SstPartitioner: `MaxObjs` 5 lets a partitioner pass through the factory
  twice (five objects: the partitioner and four wrappers, or two
  partitioners and three wrappers). `MaxPush` 3 gives two segments.
- ExternalSstSeqNo: the whole input space is enumerated: every property
  combination, three sequence numbers and every Env failure.
- AdapterOwnership: two adapters or contexts, two write-side holders,
  three live read-side holders and two wrappers.
  - An adapter can be shared by options and their copy or a DB, and by a
    wrapper.
  - A context can be shared by read options, Titan read options and an
    iterator. Three read-side holders are the least that reach
    `TitanCreateIterator`.
  - Either can be replaced in its slot and released in every order.
  - Two envs are enough for a layered env over a default or owned base.
    `MaxMade` 6 caps all creations together. Every pair of classes is
    still reached, and the run takes about two minutes.
  - Three write-side holders together with the read side take over 12
    million states. The model is then out of the five-minute budget, so
    the write side keeps two. A third write-side holder only repeats the
    sharing that two already show.
- Every violation run stops at TLC's first, shortest counterexample.

### Fairness

Spec assumes weak fairness for three things:

- Kernel completion: the kernel completes every consumed SQE.
- `ReapOne` and `ReapEnd`: the caller must drain the CQ (spec section 5).
  This is the caller's obligation.

Under the same fairness, liveness fails once submits can fail. A
suspended lookup is then not always resumed, even when only the
failed-read `assert(false)` is excused. The CQEs of orphaned SQEs drive
`m_n_pending_sqe` to -1, and `assert(r >= 1)` aborts with the lookup
still waiting (section 5). So the faults run checks only the safety part.

`get` and `get_result` are not fair, because a caller may never issue or
resolve a lookup.

The AsyncReader runs say `CHECK_DEADLOCK FALSE` because the program
stops for real once every lookup is resolved, and in faults a debug-build
abort stops it too. A lookup left waiting is still caught: AbsSpec's
liveness catches it.

The C ABI models assume no fairness: the caller may stop calling at any
time. Their runs say `CHECK_DEADLOCK FALSE` because the allocation bounds
end every behaviour, and an abort stops the process. ExternalSstSeqNo
checks deadlock: a crash is always possible.

## 5. Findings

The details are in `PROJECT.json` → findings. The reader does not do what
the spec says:

1. A real `readv` completion never clears `m_pending_io` (lines 161-163,
   and the move at line 48).
2. `new_iov.resize` (line 53) turns a duplicate read into a zero-length
   `readv`. The duplicate lookup resumes "ok" without data. Combined with
   finding 1, this happens even to a later, sequential read of the same
   block. The `nop` path is reachable only for a request with no iovecs.
3. The map is written before `io_uring_get_sqe` can fail.
4. A failed `io_uring_submit` leaves an uncounted SQE that the next submit
   hands to the kernel. The counter then under-counts (`assert(r >= 1)`),
   and the kernel writes buffers of a lookup that already failed.

In `c.cc`:

5. The key manager adapter (line 4452 and its siblings) releases a
   callback's error string with `delete`; the file's convention, and every
   other adapter, uses `malloc`/`free`.
6. `crocksdb_create_iterators` (line 1306, and its Titan copy) constructs
   its vector with `size` null handles and appends the real ones after
   them; the engine dereferences the first null handle.

Observations recorded as hazards, not as runs, in `PROJECT.json`:

- `crocksdb_load_latest_options` (line 3571) sets `*errptr = nullptr` on
  success without freeing it. A caller that reuses its `err` variable after
  an earlier failure leaks the earlier string.
- `crocksdb_writebatch_iterate` (line 1894) ignores the status that
  `WriteBatch::Iterate` returns. A corrupt batch stops the callbacks part
  way and the caller cannot tell.
- Destroying the reader once `pending_io_uring_sqe_count()` reads 0 is
  safe without submit failures (the core run). With them, TLC (faults
  constants with `CallerDestroys = TRUE`) finds the count at 0 while a
  lookup is still suspended:
  1. a failed submit leaves an orphan SQE in the ring;
  2. the next submit carries the orphan to the kernel and is counted once;
  3. the orphan's CQE is reaped, which brings the count to 0.

  Destroying the reader then strands the suspended lookup.
- Even without destruction, failed submits strand a lookup in the debug
  build. TLC finds it in 11 steps under the faults constants:
  1. g3's submit fails and leaves an orphan SQE;
  2. g1's submit hands the orphan to the kernel but counts once;
  3. g2's submit fails and leaves a second orphan;
  4. g1, resumed, submits its next read with that orphan;
  5. the orphan's CQE arrives first, `fetch_sub` returns 0, and
     `assert(r >= 1)` aborts with g1 suspended.

  A liveness property that excuses only the failed-read assert is
  therefore violated. With every run slot in use, it is recorded as the
  hazards at `cxxrocksdb.cc:181` and `:92`.
- In faults, the SQ ring fills with SQEs of failed submits, and every later
  `get` then fails with kIOUringSqeFull: the reader wedges for good.

## 6. Not modelled

- The engine's read path, which is outside the repository and is
  abstracted to `Plan`.
- Buffer contents beyond which iovecs were written.
- `setup_io_uring_sq_handler`, which only assigns read options.
- Construction failure (the constructor throws, so no reader exists).
- The option setters and getters that assign or read one field, the
  statistics, perf and metadata getters: no control of their own.
- The CTR cipher: `CTRBlockCipher` only XORs with a fixed key and its
  Decrypt calls Encrypt; the counter mode is in the engine.
- Durability beyond the external-SST rewrite: nothing else in `c.cc`
  writes files itself.
- The adapters' forwarding methods (Compare, Name, Transform, the event
  listener's callbacks) and the post-write callback placed in a caller
  buffer: they change no state the C ABI owns.
