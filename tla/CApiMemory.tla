------------------------------ MODULE CApiMemory ------------------------------
(***************************************************************************)
(* Heap blocks that cross the C ABI of src/librocksdb_sys/crocksdb/c.cc.   *)
(*                                                                         *)
(* Three parties hand buffers to each other: the caller of the C ABI,      *)
(* the wrappers in c.cc, and the user callbacks the wrappers call (the     *)
(* compaction filter, the merge operator, the encryption key manager and   *)
(* the file system inspector).  A block is allocated by one party and      *)
(* must be released once, by the deallocator that matches its allocator.  *)
(*                                                                         *)
(* Byte contents, lengths and keys are left out: a block is its allocator, *)
(* whether it is live, the function that released it and which release   *)
(* function the caller must use for it.  The engine (rocksdb::DB and the   *)
(* encrypted Env) is a source of statuses: every call it serves may        *)
(* succeed, find nothing (reads only) or fail.                             *)
(***************************************************************************)
EXTENDS Integers, Sequences, SequencesExt

CONSTANTS
  CbAlloc,    \* allocators a user callback may use for a buffer it hands back
  NKeys,      \* length of an array argument: the keys of crocksdb_multi_get,
              \* the column families of an open or of crocksdb_create_iterators
  MaxBlocks,  \* bound on the number of allocations of a behaviour
  LogBufferSize, \* kBufferSize of crocksdb_logger_impl_t::log_help_ (500)
  MaxLogLen   \* bound on the length of a formatted log message

Null == 0     \* the null pointer; blocks are numbered from 1

\* "malloc" covers malloc and strdup, "new" a C++ new of a wrapper object,
\* "new[]" a C++ array new, "rust" a buffer allocated by the Rust global
\* allocator.
Allocators == {"malloc", "new", "new[]", "rust"}
Deallocators == {"free", "delete", "delete[]", "delete_value"}

ASSUME CbAlloc \subseteq Allocators /\ CbAlloc # {}
ASSUME NKeys \in Nat \ {0} /\ MaxBlocks \in Nat
ASSUME LogBufferSize \in Nat \ {0} /\ MaxLogLen \in Nat

VARIABLES
  heap,     \* heap[b]: block b, [alloc, kind, state, with]
  errslot,  \* the caller's char* err that it passes as errptr
  owned,    \* the blocks returned to the caller, which it must release
  aborted,  \* the process died (a segfault or a failed assert)
  lastLog   \* the last message the user's logv callback received: the
            \* length formatted and the length delivered; len -1 before any

vars == <<heap, errslot, owned, aborted, lastLog>>

Status == {"ok", "notfound", "error"}

\* A block freshly allocated with a; kind says how the caller releases it:
\* "cstr" with crocksdb_free, "pinnable" with crocksdb_pinnableslice_destroy,
\* "handle" with the _destroy/_close function of its wrapper type (which
\* deletes the wrapped engine object and the wrapper), "internal" for a
\* block the caller never sees.
Block(a, kind) == [alloc |-> a, kind |-> kind, state |-> "live", with |-> "none"]

Alloc(h, a, kind) == Append(h, Block(a, kind))

\* Releasing a block that is no longer live corrupts the allocator.
Release(h, b, w) ==
  [h EXCEPT ![b].state = IF @ = "live" THEN "freed" ELSE "corrupt", ![b].with = w]

\* free() releases what malloc/strdup allocated and delete what new
\* allocated; a delete_value callback releases the block it allocated itself.
Matches(a, w) == \/ w = "delete_value"
                 \/ a = "malloc" /\ w = "free"
                 \/ a = "new" /\ w = "delete"
                 \/ a = "new[]" /\ w = "delete[]"

-----------------------------------------------------------------------------
(* Mutant form: the previous error string is overwritten, not freed.       *)
SaveErrorNoFree(h, slot, ok) ==
  IF ok THEN [h |-> h, slot |-> slot]
  ELSE [h |-> Alloc(h, "malloc", "cstr"), slot |-> Len(h) + 1]

(* SaveError: on a failed status, free the error string already in         *)
(* *errptr, then strdup the new one.  Returns the heap and the slot.        *)
SaveError(h, slot, ok) ==
  IF ok THEN [h |-> h, slot |-> slot]
  ELSE LET h1 == IF slot = Null THEN h ELSE Release(h, slot, "free")
       IN  [h |-> Alloc(h1, "malloc", "cstr"), slot |-> Len(h1) + 1]

Room(n) == Len(heap) + n <= MaxBlocks

\* The process is running; the step leaves it running (and logs nothing).
Alive == ~aborted /\ aborted' = FALSE /\ UNCHANGED lastLog

\* A wrapper whose only effect on memory is SaveError(errptr, s).
SaveErrorCall ==
  /\ Alive
  /\ Room(1)
  /\ \E ok \in BOOLEAN :
       LET r == SaveError(heap, errslot, ok)
       IN  heap' = r.h /\ errslot' = r.slot
  /\ UNCHANGED owned

-----------------------------------------------------------------------------
(* Actions of the caller of the C ABI.                                     *)

\* crocksdb_put, _delete, _single_delete, _delete_range_cf, _merge, _write
\* and their _cf and multi-batch forms.
WriteOp == SaveErrorCall

\* crocksdb_flush, _flush_cf, _flush_cfs, _flush_wal, _sync_wal, the file
\* deletion switches, _set_db_options, _set_options_cf, _destroy_db and
\* _repair_db.
AdminOp == SaveErrorCall

\* crocksdb_get and crocksdb_get_cf: a found value is copied into a
\* malloc'ed buffer (CopyString); NotFound is not an error.
Get ==
  /\ Alive
  /\ Room(1)
  /\ \E s \in Status :
       \/ s = "ok" /\ heap' = Alloc(heap, "malloc", "cstr")
                   /\ owned' = owned \cup {Len(heap) + 1}
                   /\ UNCHANGED errslot
       \/ s = "notfound" /\ UNCHANGED vars
       \/ s = "error" /\ SaveErrorCall

(* Mutant form: the slot numbers start one block too early.                *)
MultiGetOffByOne ==
  /\ Alive
  /\ Room(NKeys)
  /\ \E st \in [1..NKeys -> Status] :
       LET n == Len(SelectSeq(st, LAMBDA s : s # "notfound"))
       IN  /\ heap' = heap \o [j \in 1..n |-> Block("malloc", "cstr")]
           /\ owned' = owned \cup {Len(heap) + j - 1 : j \in 1..n}
  /\ UNCHANGED errslot

\* crocksdb_multi_get and _multi_get_cf: a copy of each found value and a
\* strdup'ed message for each failed key, all returned to the caller.
MultiGet ==
  /\ Alive
  /\ Room(NKeys)
  /\ \E st \in [1..NKeys -> Status] :
       LET n == Len(SelectSeq(st, LAMBDA s : s # "notfound"))
       IN  /\ heap' = heap \o [j \in 1..n |-> Block("malloc", "cstr")]
           /\ owned' = owned \cup {Len(heap) + j : j \in 1..n}
  /\ UNCHANGED errslot

\* crocksdb_map_property_value, crocksdb_property_value(_cf): a strdup'ed
\* value, or nullptr.
PropertyValue ==
  /\ Alive
  /\ Room(1)
  /\ \E found \in BOOLEAN :
       \/ found /\ heap' = Alloc(heap, "malloc", "cstr")
                /\ owned' = owned \cup {Len(heap) + 1}
       \/ ~found /\ UNCHANGED <<heap, owned>>
  /\ UNCHANGED errslot

(* Mutant form: the slice is deleted whatever the status.                  *)
GetPinnedDeletesAlways ==
  /\ Alive
  /\ Room(1)
  /\ \E s \in Status :
       LET h1 == Release(Alloc(heap, "new", "pinnable"), Len(heap) + 1, "delete")
       IN  \/ s = "ok" /\ heap' = h1 /\ owned' = owned \cup {Len(heap) + 1}
                       /\ UNCHANGED errslot
           \/ s = "notfound" /\ heap' = h1 /\ UNCHANGED <<errslot, owned>>
           \/ s = "error" /\ LET r == SaveError(h1, errslot, FALSE)
                             IN heap' = r.h /\ errslot' = r.slot
                          /\ UNCHANGED owned

\* crocksdb_get_pinned(_cf): the wrapper new's a PinnableSlice, deletes it
\* again unless the read succeeded, and reports a failure other than
\* NotFound through SaveError.
GetPinned ==
  /\ Alive
  /\ Room(2)
  /\ \E s \in Status :
       LET h0 == Alloc(heap, "new", "pinnable")
           h1 == Release(h0, Len(heap) + 1, "delete")
       IN  \/ s = "ok" /\ heap' = h0 /\ owned' = owned \cup {Len(heap) + 1}
                       /\ UNCHANGED errslot
           \/ s = "notfound" /\ heap' = h1 /\ UNCHANGED <<errslot, owned>>
           \/ s = "error" /\ LET r == SaveError(h1, errslot, FALSE)
                             IN heap' = r.h /\ errslot' = r.slot
                          /\ UNCHANGED owned

\* n wrappers allocated with new and handed to the caller.
NewHandles(h, n) == h \o [j \in 1..n |-> Block("new", "handle")]

Handed(n) == owned' = owned \cup {Len(heap) + j : j \in 1..n}

\* The wrapper reports a failed status through SaveError and returns nothing.
Fail(h) ==
  LET r == SaveError(h, errslot, FALSE)
  IN  heap' = r.h /\ errslot' = r.slot /\ UNCHANGED owned

\* The shape of every wrapper that creates an engine object through an
\* out-parameter: SaveError and nullptr when the engine fails, otherwise n
\* new wrappers.
NewOrFail(n) ==
  /\ Alive
  /\ Room(n)
  /\ \/ heap' = NewHandles(heap, n) /\ Handed(n) /\ UNCHANGED errslot
     \/ Fail(heap)

\* crocksdb_open, _open_with_ttl and _open_for_read_only.
OpenDb == NewOrFail(1)

\* crocksdb_open_column_families and its _with_ttl and _for_read_only
\* forms: on success a new handle per column family into the caller's array
\* and a new crocksdb_t; on failure nullptr and no handle.
OpenColumnFamilies == NewOrFail(1 + NKeys)

\* ctitandb_open_column_families: the same for a TitanDB.
TitanOpenColumnFamilies == NewOrFail(1 + NKeys)

\* crocksdb_checkpoint_object_create and crocksdb_backup_engine_open.
CheckpointObjectCreate == NewOrFail(1)

\* ctitandb_checkpoint_object_create, ctitandb_checkpoint_create.
TitanCheckpointCreate == NewOrFail(1) \/ SaveErrorCall

\* crocksdb_env_is_db_locked: LockFile succeeds (and is undone) or fails;
\* a failure is "locked", and is reported through SaveError unless its
\* message says the lock is held.
IsDbLocked ==
  /\ Alive
  /\ Room(1)
  /\ \E outcome \in {"unlocked", "held", "ioerror"} :
       IF outcome = "ioerror" THEN Fail(heap) ELSE UNCHANGED <<heap, errslot, owned>>

\* crocksdb_env_file_exists, _delete_file, crocksdb_env_is_db_locked,
\* crocksdb_sequential_file_create (NewSequentialFile into a unique_ptr,
\* released into a new wrapper on success), _read and _skip.
EnvOps == SaveErrorCall \/ IsDbLocked \/ NewOrFail(1)

\* crocksdb_get_properties_of_all_tables(_cf) and _of_tables_in_range: the
\* collection is new'ed into a unique_ptr before the engine call; on a
\* failure SaveError runs and the unique_ptr deletes it, on success it is
\* released to the caller.
TablePropertiesGet ==
  /\ Alive
  /\ Room(2)
  /\ \/ heap' = NewHandles(heap, 1) /\ Handed(1) /\ UNCHANGED errslot
     \/ Fail(Release(NewHandles(heap, 1), Len(heap) + 1, "delete"))

\* crocksdb_list_column_families: SaveError, then whatever the status a
\* malloc'ed array of fams.size() strdup'ed names (empty after a failure),
\* released by crocksdb_list_column_families_destroy.
ListColumnFamilies ==
  /\ Alive
  /\ Room(2 + NKeys)
  /\ \E ok \in BOOLEAN :
       LET r == SaveError(heap, errslot, ok)
           n == IF ok THEN 1 + NKeys ELSE 1
       IN  /\ heap' = r.h \o [j \in 1..n |-> Block("malloc", "cstr")]
           /\ owned' = owned \cup {Len(r.h) + j : j \in 1..n}
           /\ errslot' = r.slot

\* crocksdb_create_column_family: the handle is new'ed before the engine is
\* called and returned whatever the status.
CreateColumnFamily ==
  /\ Alive
  /\ Room(2)
  /\ \E ok \in BOOLEAN :
       LET r == SaveError(NewHandles(heap, 1), errslot, ok)
       IN  heap' = r.h /\ errslot' = r.slot
  /\ Handed(1)

\* ctitandb_create_column_family: the same against the TitanDB.
TitanCreateColumnFamily == CreateColumnFamily

\* crocksdb_get_all_key_versions: the result is new'ed, filled, and
\* returned whatever SaveError reported.
GetAllKeyVersions == CreateColumnFamily

\* crocksdb_create_iterator(_cf): a new wrapper around the engine's iterator.
NewWrapper ==
  /\ Alive
  /\ Room(1)
  /\ heap' = NewHandles(heap, 1)
  /\ Handed(1)
  /\ UNCHANGED errslot

CreateIterator == NewWrapper

\* crocksdb_create_snapshot, released by crocksdb_release_snapshot.
CreateSnapshot == NewWrapper

\* crocksdb_writebatch_create, _create_with_capacity and _create_from.
WriteBatchCreate == NewWrapper

\* crocksdb_sstfilereader_create, _open, _new_iterator, _verify_checksum and
\* crocksdb_sstfilewriter_create(_cf), _open, _put, _merge, _delete,
\* _delete_range, _finish: new wrappers, or SaveError of the file's status.
SstFileOps == NewWrapper \/ SaveErrorCall

\* crocksdb_ingest_external_file, _cf and _optimized.  The optimized form
\* retries a blocking ingestion after a flush whose status it ignores;
\* either way only the final status reaches SaveError.
IngestOps == SaveErrorCall

\* crocksdb_get_options_from_string, crocksdb_delete_files_in_range, _cf
\* and _in_ranges_cf.
DeleteFilesInRange == SaveErrorCall

\* crocksdb_delete_file and crocksdb_check_in_range.
DeleteFile == SaveErrorCall
CheckInRange == SaveErrorCall

\* crocksdb_livefiles: a new wrapper around the live files' metadata.
Livefiles == NewWrapper

\* crocksdb_approximate_sizes(_cf): the ranges are copied into a
\* new Range[num_ranges] that is delete[]'d after the engine call.
ApproximateSizes ==
  /\ Alive
  /\ Room(1)
  /\ heap' = Release(Alloc(heap, "new[]", "internal"), Len(heap) + 1, "delete[]")
  /\ UNCHANGED <<errslot, owned>>

\* ctitandb_delete_files_in_range(_cf), _in_ranges_cf and the
\* ctitandb_delete_blob_files_in_range family.
TitanDeleteFilesInRange == SaveErrorCall

\* crocksdb_writebatch_pop_save_point and _rollback_to_save_point: the
\* engine's status, which fails when there is no save point, goes to
\* SaveError.
WriteBatchSavePoint == SaveErrorCall

\* crocksdb_writebatch_ref_iterator_create and
\* crocksdb_writebatch_iterator_create: a new wrapper around the engine's
\* iterator, released by crocksdb_writebatch_iterator_destroy.
WriteBatchIteratorCreate == NewWrapper

\* crocksdb_jemalloc_nodump_allocator_create: the allocator wrapper is
\* new'ed before NewJemallocNodumpAllocator and returned whatever
\* SaveError reported.
JemallocAllocatorCreate == CreateColumnFamily

\* ctitandb_decode_blob_index: SaveError of the decode, which returns early
\* on a failure.
TitanDecodeBlobIndex == SaveErrorCall

\* A C string the wrapper returns for the caller to free: made when
\* present, else the wrapper returns NULL.
StringResult(canBeNull) ==
  /\ Alive
  /\ Room(1)
  /\ \E present \in IF canBeNull THEN BOOLEAN ELSE {TRUE} :
       \/ /\ present
          /\ heap' = Alloc(heap, "malloc", "cstr")
          /\ owned' = owned \cup {Len(heap) + 1}
       \/ /\ ~present
          /\ UNCHANGED <<heap, owned>>
  /\ UNCHANGED errslot

\* crocksdb_statistics_to_string and _get_histogram_string: strdup of the
\* engine's text when the statistics object has a rep, NULL otherwise.
StatisticsToString == StringResult(TRUE)

\* ctitandb_encode_blob_index: the encoding is returned through CopyString.
TitanEncodeBlobIndex == StringResult(FALSE)

\* The vector crocksdb_create_iterators hands to NewIterators for the
\* caller's column families 1..size: constructed with size elements, which
\* are null, and then one push_back per caller handle.
ColumnFamiliesVec(size) == [j \in 1..size |-> Null] \o [j \in 1..size |-> j]

\* crocksdb_create_iterators: NewIterators casts every handle of the vector
\* and calls cfd() on it; on a null handle that is a segfault.  The rest of
\* the wrapper (deleting res on failure, one new wrapper per iterator) is
\* reached only with size = 0, where it does nothing.
CreateIterators ==
  /\ ~aborted
  /\ \E size \in 1..NKeys :
       \E j \in DOMAIN ColumnFamiliesVec(size) : ColumnFamiliesVec(size)[j] = Null
  /\ aborted' = TRUE
  /\ UNCHANGED <<heap, errslot, owned, lastLog>>

\* ctitandb_create_iterators: the same code against the TitanDB.
TitanCreateIterators == CreateIterators

\* crocksdb_create_env_logger and crocksdb_create_log_from_options: the
\* logger is new'ed first; when the engine fails it is deleted and NULL is
\* returned, the second form also reporting the status through SaveError.
CreateLogger ==
  /\ Alive
  /\ Room(2)
  /\ \E ok \in BOOLEAN, withErrptr \in BOOLEAN :
       LET h0 == NewHandles(heap, 1)
           h1 == Release(h0, Len(heap) + 1, "delete")
       IN  \/ ok /\ heap' = h0 /\ Handed(1) /\ UNCHANGED errslot
           \/ ~ok /\ withErrptr /\ Fail(h1)
           \/ ~ok /\ ~withErrptr /\ heap' = h1 /\ UNCHANGED <<errslot, owned>>

\* crocksdb_free for a C string; crocksdb_pinnableslice_destroy,
\* crocksdb_close, crocksdb_iter_destroy, crocksdb_release_snapshot and the
\* other _destroy functions for a wrapper.
CallerRelease ==
  /\ Alive
  /\ \E b \in owned :
    /\ heap' = Release(heap, b, IF heap[b].kind = "cstr" THEN "free" ELSE "delete")
    /\ owned' = owned \ {b}
    /\ UNCHANGED errslot

\* The caller reads the error string, frees it and clears its pointer.
CallerTakeError ==
  /\ Alive
  /\ errslot # Null
  /\ heap' = Release(heap, errslot, "free")
  /\ errslot' = Null
  /\ UNCHANGED owned

-----------------------------------------------------------------------------
(* Actions of the engine calling back into user code through c.cc.         *)

Decisions == {"keep", "remove", "change_value", "remove_and_skip_until"}

\* crocksdb_compactionfilter_t::UnsafeFilter: the filter callback hands back
\* a new value for kChangeValue and a key for kRemoveAndSkipUntil; the
\* wrapper copies it and free()s it.  Other decisions hand back nothing.
CompactionFilterOp ==
  /\ Alive
  /\ Room(1)
  /\ \E d \in Decisions, a \in CbAlloc :
       \/ /\ d \in {"change_value", "remove_and_skip_until"}
          /\ heap' = Release(Alloc(heap, a, "internal"), Len(heap) + 1, "free")
       \/ /\ d \in {"keep", "remove"}
          /\ UNCHANGED heap
  /\ UNCHANGED <<errslot, owned>>

\* crocksdb_mergeoperator_t::FullMergeV2 and PartialMergeMulti: the merge
\* callback returns the merged value; the wrapper copies it, then hands it to
\* the delete_value callback when one was given and free()s it otherwise.
MergeOp ==
  /\ Alive
  /\ Room(1)
  /\ \E a \in CbAlloc, hasDeleteValue \in BOOLEAN :
       heap' = Release(Alloc(heap, a, "internal"), Len(heap) + 1,
                       IF hasDeleteValue THEN "delete_value" ELSE "free")
  /\ UNCHANGED <<errslot, owned>>

\* crocksdb_encryption_key_manager_impl_t: GetFile, NewFile, DeleteFile,
\* LinkFile and DeleteFileExt turn the error string a callback allocated
\* with a into a Corruption status and release it with delete.
KeyManagerImpl(h, fails, a) ==
  IF fails THEN Release(Alloc(h, a, "internal"), Len(h) + 1, "delete") ELSE h

\* The encrypted Env calls the key manager.
KeyManagerOp ==
  /\ Alive
  /\ Room(1)
  /\ \E fails \in BOOLEAN, a \in CbAlloc : heap' = KeyManagerImpl(heap, fails, a)
  /\ UNCHANGED <<errslot, owned>>

\* crocksdb_encryption_key_manager_get_file, _new_file, _delete_file,
\* _link_file and _delete_file_ext: the caller calls the key manager, and a
\* failed status comes back as a strdup'ed message, NULL otherwise.
KeyManagerCall ==
  /\ Alive
  /\ Room(2)
  /\ \E fails \in BOOLEAN, a \in CbAlloc :
       LET h1 == KeyManagerImpl(heap, fails, a)
       IN  \/ /\ fails
              /\ heap' = Alloc(h1, "malloc", "cstr")
              /\ owned' = owned \cup {Len(h1) + 1}
           \/ /\ ~fails
              /\ heap' = h1 /\ UNCHANGED owned
  /\ UNCHANGED errslot

\* crocksdb_file_system_inspector_impl_t::Read and Write: the error string a
\* callback sets is turned into an IOError and free()d.  Called by the
\* inspected Env, or by the caller through crocksdb_file_system_inspector_read
\* and _write, which report the status through SaveError.
InspectorOp ==
  /\ Alive
  /\ Room(2)
  /\ \E fails \in BOOLEAN, a \in CbAlloc, byCaller \in BOOLEAN :
       LET h1 == IF fails THEN Release(Alloc(heap, a, "internal"), Len(heap) + 1, "free")
                          ELSE heap
           r  == SaveError(h1, errslot, ~(fails /\ byCaller))
       IN  heap' = r.h /\ errslot' = r.slot
  /\ UNCHANGED owned

\* vsnprintf(buf, size, ...) of a message of num characters: the number of
\* characters it stores before the terminating NUL.
Vsnprintf(size, num) == IF num < size THEN num ELSE size - 1

(* Mutant form: the stack buffer is used when the message fills it.        *)
LogHelpOffByOne(num) ==
  IF num <= LogBufferSize THEN [delivered |-> Vsnprintf(LogBufferSize, num), large |-> FALSE]
  ELSE [delivered |-> Vsnprintf(num + 1, num), large |-> TRUE]

\* crocksdb_logger_impl_t::log_help_: format into the stack buffer; when
\* vsnprintf reports num >= kBufferSize characters, format again into a
\* new char[num + 1].  Returns what logv_internal_ receives and whether
\* the heap buffer was used.
LogHelp(num) ==
  IF num < LogBufferSize THEN [delivered |-> Vsnprintf(LogBufferSize, num), large |-> FALSE]
  ELSE [delivered |-> Vsnprintf(num + 1, num), large |-> TRUE]

\* The engine logs through a logger made by crocksdb_logger_create (both
\* Logv overloads): the large buffer is new[]'ed, handed to the callback
\* and delete[]'d.
LoggerLogv ==
  /\ ~aborted /\ aborted' = FALSE
  /\ \E num \in 0..MaxLogLen :
       LET r == LogHelp(num)
       IN  /\ r.large => Room(1)
           /\ heap' = IF r.large
                      THEN Release(Alloc(heap, "new[]", "internal"), Len(heap) + 1, "delete[]")
                      ELSE heap
           /\ lastLog' = [len |-> num, delivered |-> r.delivered]
  /\ UNCHANGED <<errslot, owned>>

-----------------------------------------------------------------------------
Init ==
  /\ heap = << >>
  /\ errslot = Null
  /\ owned = {}
  /\ aborted = FALSE
  /\ lastLog = [len |-> -1, delivered |-> 0]

Next ==
  \/ WriteOp \/ AdminOp \/ Get \/ MultiGet \/ PropertyValue \/ GetPinned
  \/ OpenDb \/ OpenColumnFamilies \/ CheckpointObjectCreate
  \/ ListColumnFamilies \/ CreateColumnFamily \/ GetAllKeyVersions
  \/ CreateIterator \/ CreateSnapshot \/ WriteBatchCreate \/ CreateIterators
  \/ CreateLogger \/ EnvOps \/ TablePropertiesGet \/ SstFileOps \/ IngestOps
  \/ DeleteFilesInRange \/ DeleteFile \/ CheckInRange \/ Livefiles \/ ApproximateSizes
  \/ TitanOpenColumnFamilies \/ TitanCheckpointCreate \/ TitanCreateColumnFamily
  \/ TitanCreateIterators \/ TitanDeleteFilesInRange
  \/ WriteBatchSavePoint \/ WriteBatchIteratorCreate \/ JemallocAllocatorCreate
  \/ TitanDecodeBlobIndex \/ StatisticsToString \/ TitanEncodeBlobIndex
  \/ CallerRelease \/ CallerTakeError
  \/ CompactionFilterOp \/ MergeOp \/ KeyManagerOp \/ KeyManagerCall \/ InspectorOp \/ LoggerLogv

Spec == Init /\ [][Next]_vars

-----------------------------------------------------------------------------
BlockIds == 1..Len(heap)

TypeOK ==
  /\ heap \in Seq([alloc : Allocators, kind : {"cstr", "pinnable", "handle", "internal"},
                   state : {"live", "freed", "corrupt"}, with : Deallocators \cup {"none"}])
  /\ errslot \in {Null} \cup BlockIds
  /\ owned \subseteq BlockIds
  /\ aborted \in BOOLEAN
  /\ lastLog \in [len : -1..MaxLogLen, delivered : 0..MaxLogLen]

\* Every live block is reachable from the caller: it was returned to it, or
\* it is the error string in its errptr.  A wrapper or callback path that
\* drops a buffer (SaveError overwriting *errptr, a copied callback result
\* not released) leaves a live block nobody holds.
HeapAccounted ==
  \A b \in BlockIds :
    heap[b].state = "live" => (b \in owned \/ b = errslot)

\* No step releases a block that is already released: the wrappers free a
\* buffer only on the paths that do not return it (crocksdb_get_pinned
\* deletes its slice only when the read failed), so a caller that releases
\* what it was given never releases it a second time.
NoDoubleRelease ==
  \A b \in BlockIds : heap[b].state # "corrupt"

\* Every block released in a step is released by the deallocator matching
\* the allocator it came from.  SaveError's comment states the convention:
\* "This is a bug if *errptr is not created by malloc()".
ReleaseMatchesAllocator ==
  [][\A b \in 1..Len(heap') :
       /\ heap'[b].state = "freed"
       /\ b \in BlockIds => heap[b].state = "live"
       => Matches(heap'[b].alloc, heap'[b].with)]_vars

\* No call with valid arguments brings the process down.  The caller of
\* crocksdb_create_iterators passes size live column family handles and
\* expects size iterators back (or an error in *errptr).
NoAbort == ~aborted

\* The user's logv callback always receives the whole formatted message:
\* log_help_ switches to the heap buffer exactly when the message and its
\* terminating NUL do not fit in kBufferSize, so a message of any length,
\* kBufferSize - 1 and kBufferSize included, is never cut short.
LogDeliveredWhole ==
  lastLog.len >= 0 => lastLog.delivered = lastLog.len
====
