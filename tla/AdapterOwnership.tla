--------------------------- MODULE AdapterOwnership ---------------------------
(***************************************************************************)
(* Who destroys the callback adapters of src/librocksdb_sys/crocksdb/c.cc. *)
(*                                                                         *)
(* An adapter is a C++ object around a user state whose destructor calls  *)
(* the user's destructor(state).  The C ABI hands adapters over in three   *)
(* ways, which are the classes of this model:                              *)
(*   "taken"    a raw pointer that a setter wraps in a new shared_ptr:     *)
(*              merge operator, compaction filter factory, prefix          *)
(*              extractor, filter policy, event listener, table           *)
(*              properties collector factory;                             *)
(*   "shared"   a wrapper that already holds a shared_ptr, copied by the  *)
(*              setter: logger, SST partitioner factory;                  *)
(*   "borrowed" a raw pointer the options keep without owning it:         *)
(*              comparator, compaction filter.                            *)
(* Holders are crocksdb_options_t, crocksdb_block_based_table_options_t   *)
(* and open DBs (DB::Open keeps a copy of the options); on the read side  *)
(* crocksdb_readoptions_t, ctitandb_readoptions_t and iterators, which     *)
(* keep copies of the read options and so of their table filter, whose    *)
(* context (class "ctx") a TableFilterCtx owns.  A shared_ptr is  *)
(* a control block: the object it manages and whether it deletes it.  An  *)
(* object is destroyed when the last reference to a control block that    *)
(* deletes it goes away.  Option fields that hold a reference: one slot   *)
(* stands for every single-valued shared_ptr field of its class, the       *)
(* listener list for both vector fields.                                  *)
(*                                                                         *)
(* Envs: a crocksdb_env_t holds a raw Env* and is_default.  The default    *)
(* wrappers all point at the one static Env::Default(); a mem, encrypted,  *)
(* key-managed or inspected env owns its rep, which keeps its base env's   *)
(* rep raw and, for the last two, a shared_ptr to the key manager or       *)
(* inspector (a "shared" adapter).  crocksdb_env_destroy deletes the rep   *)
(* unless is_default; options keep the raw rep.                            *)
(***************************************************************************)
EXTENDS Naturals, Sequences, FiniteSets, Bags, BagsExt

CONSTANTS
  MaxObjs,     \* bound on adapters created
  MaxHolders,  \* bound on options, block-based table options and DBs created
  MaxReaders,  \* bound on read options, Titan read options and iterators created
  MaxWrappers, \* bound on wrappers of a shared_ptr created (loggers, partitioner
               \* factories, rate limiters, key managers, ...)
  MaxEnvs,     \* bound on crocksdb_env_t created
  MaxMade      \* bound on all of these together

ASSUME {MaxObjs, MaxHolders, MaxReaders, MaxWrappers, MaxEnvs, MaxMade} \subseteq Nat

Null == 0

\* The shared_ptr fields of a holder and the raw comparator field.
SharedFields == {"mergeOp", "infoLog", "resource", "table"}

VARIABLES
  obj,      \* obj[i]: adapter i, [cls, state]; state "live" | "destroyed" | "corrupt"
  cb,       \* cb[c]: control block c, [obj, deletes]
  hold,     \* hold[h]: [kind, live, mergeOp, infoLog, resource,
            \*           table, listeners, comparator, env]
  rd,       \* the live holders of a ReadOptions, a bag of [kind, tableFilter],
            \* tableFilter being table_filter's shared_ptr<TableFilterCtx>
  wrapper,  \* wrapper[w]: crocksdb_logger_t or crocksdb_sst_partitioner_factory_t,
            \*             [field, cb, live]
  mine,     \* the adapters the caller owns: created and neither destroyed
            \* nor handed to a setter that takes them
  env       \* env[e]: crocksdb_env_t, [live, default, rep, base, mgr]

vars == <<obj, cb, hold, rd, wrapper, mine, env>>

EmptyHolder(kind) ==
  [kind |-> kind, live |-> TRUE, mergeOp |-> Null, infoLog |-> Null,
   resource |-> Null, table |-> Null, listeners |-> << >>,
   comparator |-> Null, env |-> Null]

\* The control blocks a holder, read-options, wrapper or env configuration
\* keeps alive.
Refs(H, R, W, E) ==
  UNION {{H[h][f] : f \in SharedFields} \cup {H[h].listeners[j] : j \in DOMAIN H[h].listeners}
           : h \in {h \in DOMAIN H : H[h].live}}
  \cup {x.tableFilter : x \in BagToSet(R)}
  \cup {W[w].cb : w \in {w \in DOMAIN W : W[w].live}}
  \cup {E[e].mgr : e \in {e \in DOMAIN E : E[e].live}}

\* The objects after the holders, read options, wrappers and envs change
\* from hold, rd, wrapper, env to H, R, W, E: every deleting control block that loses its
\* last reference deletes its object; deleting an object twice corrupts
\* the user's state.
Settle(C, H, R, W, E) ==
  LET dying == {c \in DOMAIN C : c \in Refs(hold, rd, wrapper, env) \ Refs(H, R, W, E) /\ C[c].deletes}
      n(i)  == Cardinality({c \in dying : C[c].obj = i})
  IN  [i \in DOMAIN obj |->
         IF n(i) = 0 THEN obj[i]
         ELSE [obj[i] EXCEPT !.state = IF @ = "live" /\ n(i) = 1 THEN "destroyed" ELSE "corrupt"]]

\* hold changes to H (and the control blocks to C); objects follow.
Rehold(C, H) ==
  /\ cb' = C
  /\ hold' = H
  /\ obj' = Settle(C, H, rd, wrapper, env)
  /\ UNCHANGED <<rd, env>>

\* The same for the read options.
Reread(C, R) ==
  /\ cb' = C
  /\ rd' = R
  /\ obj' = Settle(C, hold, R, wrapper, env)
  /\ UNCHANGED <<hold, env>>

\* The caller makes one more object, holder, wrapper, env or live reader.
Room == Len(obj) + Len(hold) + Len(wrapper) + Len(env) + BagCardinality(rd) < MaxMade

-----------------------------------------------------------------------------
\* crocksdb_X_create for an adapter of class cls: a new C++ adapter around
\* the caller's state, returned to the caller.
AdapterCreate(cls) ==
  /\ Len(obj) < MaxObjs /\ Room
  /\ obj' = Append(obj, [cls |-> cls, state |-> "live"])
  /\ mine' = mine \cup {Len(obj) + 1}
  /\ UNCHANGED <<cb, hold, rd, wrapper, env>>

MergeOperatorCreate == AdapterCreate("taken")
CompactionFilterFactoryCreate == AdapterCreate("taken")
SliceTransformCreate == AdapterCreate("taken")
\* The built-in adapters made by c.cc itself: the bloom and ribbon filter
\* policies and the fixed-prefix and noop slice transforms wrap an engine
\* object that their destructor deletes; their destructor_ does nothing.
SliceTransformCreateFixedPrefix == AdapterCreate("taken")
SliceTransformCreateNoop == AdapterCreate("taken")
FilterPolicyCreateBloom == AdapterCreate("taken")
EventListenerCreate == AdapterCreate("taken")
TablePropertiesCollectorFactoryCreate == AdapterCreate("taken")
ComparatorCreate == AdapterCreate("borrowed")
CompactionFilterCreate == AdapterCreate("borrowed")

\* crocksdb_X_destroy: delete of an adapter the caller owns.  A borrowed
\* adapter must outlive every holder that points at it.
AdapterDestroy ==
  \E i \in mine :
    /\ obj[i].cls = "borrowed" => \A h \in DOMAIN hold : hold[h].live => hold[h].comparator # i
    /\ obj' = [obj EXCEPT ![i].state = IF @ = "live" THEN "destroyed" ELSE "corrupt"]
    /\ mine' = mine \ {i}
    /\ UNCHANGED <<cb, hold, rd, wrapper, env>>

\* A wrapper around a new shared_ptr: crocksdb_logger_create and
\* crocksdb_sst_partitioner_factory_create (the adapter is new'ed), and the
\* same pattern around engine objects: rate limiters, write buffer
\* managers, concurrent task limiters, statistics, and the key manager and
\* file system inspector (make_shared, their destructor calls the user's).
\* field is the options slot a setter copies the shared_ptr into: "resource"
\* stands for every field the C ABI also reads back, "envPlugin" for the
\* key manager and inspector, which only envs take.
SharedCreate(field) ==
  /\ Len(obj) < MaxObjs /\ Len(wrapper) < MaxWrappers /\ Room
  /\ obj' = Append(obj, [cls |-> "shared", state |-> "live"])
  /\ cb' = Append(cb, [obj |-> Len(obj) + 1, deletes |-> TRUE])
  /\ wrapper' = Append(wrapper, [field |-> field, cb |-> Len(cb) + 1, live |-> TRUE])
  /\ UNCHANGED <<hold, rd, mine, env>>

LoggerCreate == SharedCreate("infoLog")
PartitionerFactoryCreate == SharedCreate("resource")
RateLimiterCreate == SharedCreate("resource")
WriteBufferManagerCreate == SharedCreate("resource")
ConcurrentTaskLimiterCreate == SharedCreate("resource")
StatisticsCreate == SharedCreate("resource")
KeyManagerCreate == SharedCreate("envPlugin")
FileSystemInspectorCreate == SharedCreate("envPlugin")

\* crocksdb_log_destroy, crocksdb_sst_partitioner_factory_destroy and the
\* other wrappers' _destroy: delete of the wrapper, whose shared_ptr drops
\* its reference (crocksdb_ratelimiter_destroy resets it first).
WrapperDestroy ==
  \E w \in DOMAIN wrapper :
    /\ wrapper[w].live
    /\ wrapper' = [wrapper EXCEPT ![w].live = FALSE]
    /\ obj' = Settle(cb, hold, rd, wrapper', env)
    /\ UNCHANGED <<cb, hold, rd, mine, env>>

RateLimiterDestroy == WrapperDestroy
WriteBufferManagerDestroy == WrapperDestroy
ConcurrentTaskLimiterDestroy == WrapperDestroy
StatisticsDestroy == WrapperDestroy
KeyManagerDestroy == WrapperDestroy
FileSystemInspectorDestroy == WrapperDestroy

\* A getter: a new wrapper holding a copy of the options' shared_ptr.  With
\* nullIfEmpty an empty field returns nullptr and makes no wrapper.
GetShared(nullIfEmpty) ==
  /\ Len(wrapper) < MaxWrappers /\ Room
  /\ \E h \in DOMAIN hold :
       /\ hold[h].live /\ hold[h].kind = "options"
       /\ nullIfEmpty => hold[h].resource # Null
       /\ wrapper' = Append(wrapper, [field |-> "resource",
                                      cb |-> hold[h].resource, live |-> TRUE])
  /\ UNCHANGED <<obj, cb, hold, rd, mine, env>>

\* crocksdb_options_get_sst_partitioner_factory and _get_statistics wrap
\* even an empty shared_ptr; _get_ratelimiter, _get_write_buffer_manager,
\* _get_cf_write_buffer_manager and _get_compaction_thread_limiter return
\* nullptr for one.
GetPartitionerFactory == GetShared(FALSE)
GetStatistics == GetShared(FALSE)
GetRateLimiter == GetShared(TRUE)
GetWriteBufferManager == GetShared(TRUE)
GetCompactionThreadLimiter == GetShared(TRUE)

-----------------------------------------------------------------------------
NewHolder(H) ==
  /\ Len(hold) < MaxHolders /\ Room
  /\ hold' = Append(hold, H)
  /\ UNCHANGED <<obj, cb, rd, wrapper, mine, env>>

\* crocksdb_options_create, crocksdb_block_based_options_create.
OptionsCreate == NewHolder(EmptyHolder("options"))
BlockBasedOptionsCreate == NewHolder(EmptyHolder("bbto"))

\* crocksdb_options_copy: Options(other->rep) copies every shared_ptr
\* (sharing its control block) and the raw comparator.
OptionsCopy ==
  \E h \in DOMAIN hold :
    /\ hold[h].live /\ hold[h].kind = "options"
    /\ NewHolder(hold[h])

\* crocksdb_open: DB::Open keeps its own copy of the options.  (A failed
\* open keeps nothing and changes nothing here.)
DbOpen ==
  \E h \in DOMAIN hold :
    /\ hold[h].live /\ hold[h].kind = "options"
    /\ NewHolder([hold[h] EXCEPT !.kind = "db"])

\* crocksdb_options_destroy, crocksdb_block_based_options_destroy and
\* crocksdb_close: the holder is deleted with every reference it holds.
HolderDestroy ==
  \E h \in DOMAIN hold :
    /\ hold[h].live
    /\ Rehold(cb, [hold EXCEPT ![h].live = FALSE])
    /\ UNCHANGED <<wrapper, mine>>

\* A taken adapter i into slot f of holder h: shared_ptr<T>(i) is a new
\* control block that deletes i; the caller gives i up.
(* Mutant form: the slot is set but no control block is made.            *)
NewBlockMissing(i) == cb

NewBlock(i) == Append(cb, [obj |-> i, deletes |-> TRUE])

SetTaken(h, f, i) ==
  /\ Rehold(NewBlock(i), [hold EXCEPT ![h][f] = Len(cb) + 1])
  /\ mine' = mine \ {i}
  /\ UNCHANGED wrapper

\* crocksdb_options_set_merge_operator, _set_compaction_filter_factory,
\* _set_prefix_extractor (reset) on options; crocksdb_block_based_options_
\* set_filter_policy (reset) on block-based table options.  The previous
\* adapter in the slot loses its reference.
SetTakenAdapter ==
  \E h \in DOMAIN hold, i \in mine :
    /\ hold[h].live /\ obj[i].cls = "taken"
    /\ IF hold[h].kind = "bbto" THEN SetTaken(h, "table", i)
       ELSE hold[h].kind = "options" /\ SetTaken(h, "mergeOp", i)

(* Mutant form: the list's shared_ptr is given a deleter that does nothing. *)
AddTakenNoDelete ==
  \E h \in DOMAIN hold, i \in mine :
    /\ hold[h].live /\ hold[h].kind = "options" /\ obj[i].cls = "taken"
    /\ Rehold(Append(cb, [obj |-> i, deletes |-> FALSE]),
              [hold EXCEPT ![h].listeners = Append(@, Len(cb) + 1)])
    /\ mine' = mine \ {i}
    /\ UNCHANGED wrapper

\* crocksdb_options_add_eventlistener and
\* crocksdb_options_add_table_properties_collector_factory: push_back of
\* a new shared_ptr.
AddTakenAdapter ==
  \E h \in DOMAIN hold, i \in mine :
    /\ hold[h].live /\ hold[h].kind = "options" /\ obj[i].cls = "taken"
    /\ Rehold(NewBlock(i), [hold EXCEPT ![h].listeners = Append(@, Len(cb) + 1)])
    /\ mine' = mine \ {i}
    /\ UNCHANGED wrapper

(* Mutant form: a new shared_ptr is made from the wrapper's raw pointer.   *)
SetSharedNewBlock ==
  \E h \in DOMAIN hold, w \in DOMAIN wrapper :
    /\ hold[h].live /\ hold[h].kind = "options" /\ wrapper[w].live /\ wrapper[w].cb # Null
    /\ wrapper[w].field \in SharedFields
    /\ Rehold(NewBlock(cb[wrapper[w].cb].obj),
              [hold EXCEPT ![h][wrapper[w].field] = Len(cb) + 1])
    /\ UNCHANGED <<wrapper, mine>>

\* crocksdb_options_set_info_log (when l is not null),
\* crocksdb_options_set_sst_partitioner_factory and the setters of the
\* other shared_ptr fields: the options' field is assigned the wrapper's
\* shared_ptr.
SetSharedAdapter ==
  \E h \in DOMAIN hold, w \in DOMAIN wrapper :
    /\ hold[h].live /\ hold[h].kind = "options" /\ wrapper[w].live
    /\ wrapper[w].field \in SharedFields
    /\ Rehold(cb, [hold EXCEPT ![h][wrapper[w].field] = wrapper[w].cb])
    /\ UNCHANGED <<wrapper, mine>>

SetRateLimiter == SetSharedAdapter
SetWriteBufferManager == SetSharedAdapter
SetStatistics == SetSharedAdapter

\* crocksdb_options_set_block_based_table_factory: table_factory.reset of a
\* new factory built from a copy of the table options, filter policy
\* included.
SetBlockBasedTableFactory ==
  \E h, t \in DOMAIN hold :
    /\ hold[h].live /\ hold[h].kind = "options"
    /\ hold[t].live /\ hold[t].kind = "bbto"
    /\ Rehold(cb, [hold EXCEPT ![h].table = hold[t].table])
    /\ UNCHANGED <<wrapper, mine>>

\* crocksdb_options_set_comparator and _set_compaction_filter: the raw
\* pointer is stored; the caller still owns the adapter.
SetBorrowedAdapter ==
  \E h \in DOMAIN hold, i \in mine :
    /\ hold[h].live /\ hold[h].kind = "options" /\ obj[i].cls = "borrowed"
    /\ hold' = [hold EXCEPT ![h].comparator = i]
    /\ UNCHANGED <<obj, cb, rd, wrapper, mine, env>>

-----------------------------------------------------------------------------
\* A holder of ReadOptions without a table filter.
NoFilter(kind) == [kind |-> kind, tableFilter |-> Null]

NewReader(x) ==
  /\ BagCardinality(rd) < MaxReaders /\ Room
  /\ rd' = BagAdd(rd, x)

\* crocksdb_readoptions_create, ctitandb_readoptions_create.
ReadOptionsCreate ==
  /\ NewReader(NoFilter("ropts"))
  /\ UNCHANGED <<obj, cb, hold, wrapper, mine, env>>

TitanReadOptionsCreate ==
  /\ NewReader(NoFilter("tropts"))
  /\ UNCHANGED <<obj, cb, hold, wrapper, mine, env>>

\* crocksdb_readoptions_set_table_filter: TableFilter's constructor
\* make_shared's a TableFilterCtx that owns ctx (a new control block), and
\* the assignment to table_filter drops the read options' previous one.
SetTableFilter ==
  \E x \in BagToSet(rd) :
    /\ x.kind = "ropts" /\ Len(obj) < MaxObjs /\ Room
    /\ LET C == NewBlock(Len(obj) + 1)
           R == BagAdd(BagRemove(rd, x), [x EXCEPT !.tableFilter = Len(cb) + 1])
       IN  /\ cb' = C
           /\ rd' = R
           /\ obj' = Append(Settle(C, hold, R, wrapper, env), [cls |-> "ctx", state |-> "live"])
    /\ UNCHANGED <<hold, wrapper, mine, env>>

\* The iterator's copy of read options x: TableFilter's copy constructor
\* shares ctx_, so the copy holds the same control block.
IterCopy(x) == [kind |-> "iter", tableFilter |-> x.tableFilter]

\* crocksdb_create_iterator(_cf): the iterator keeps a copy of the read
\* options it is made with.
CreateIterator ==
  \E d \in DOMAIN hold, x \in BagToSet(rd) :
    /\ hold[d].live /\ hold[d].kind = "db" /\ x.kind = "ropts"
    /\ NewReader(IterCopy(x))
    /\ UNCHANGED <<obj, cb, hold, wrapper, mine, env>>

\* ctitandb_create_iterator(_cf) with Titan read options t: the crocksdb
\* read options are first assigned into t, which drops the table filter t
\* held, and the iterator copies t.
TitanCreateIterator ==
  \E d \in DOMAIN hold, x, t \in BagToSet(rd) :
    /\ hold[d].live /\ hold[d].kind = "db" /\ x.kind = "ropts" /\ t.kind = "tropts"
    /\ BagCardinality(rd) < MaxReaders /\ Room
    /\ Reread(cb, BagAdd(BagAdd(BagRemove(rd, t), [t EXCEPT !.tableFilter = x.tableFilter]),
                         IterCopy(x)))
    /\ UNCHANGED <<wrapper, mine>>

\* crocksdb_readoptions_destroy, ctitandb_readoptions_destroy and
\* crocksdb_iter_destroy: the copy of ReadOptions goes, and its table
\* filter's reference with it.
ReaderDestroy ==
  \E x \in BagToSet(rd) :
    /\ Reread(cb, BagRemove(rd, x))
    /\ UNCHANGED <<wrapper, mine>>

-----------------------------------------------------------------------------
(* crocksdb_env_t holds a raw Env* and is_default.  Every default wrapper  *)
(* shares the static Env::Default(); any other Env is new'ed               *)
(* for its wrapper (an object of class "env").  A layered env keeps        *)
(* base_env->rep raw and, key-managed or inspected, a copy of the plugin's *)
(* shared_ptr (mgr).                                                       *)
LiveEnvs == {e \in DOMAIN env : env[e].live}

NewEnv(E) ==
  /\ Len(env) < MaxEnvs /\ Room
  /\ env' = Append(env, E)

\* crocksdb_default_env_create.
DefaultEnvCreate ==
  /\ NewEnv([live |-> TRUE, default |-> TRUE, rep |-> Null, base |-> Null, mgr |-> Null])
  /\ UNCHANGED <<obj, cb, hold, rd, wrapper, mine>>

\* An env whose Env is new'ed, over the Env of wrapper b (Null: over
\* Env::Default()), holding plugin control block m.
OwnedEnvCreate(b, m) ==
  /\ Len(obj) < MaxObjs /\ Room
  /\ NewEnv([live |-> TRUE, default |-> FALSE, rep |-> Len(obj) + 1, base |-> b, mgr |-> m])
  /\ obj' = Append(obj, [cls |-> "env", state |-> "live"])
  /\ UNCHANGED <<cb, hold, rd, wrapper, mine>>

\* crocksdb_mem_env_create.
MemEnvCreate == OwnedEnvCreate(Null, Null)

\* crocksdb_ctr_encrypted_env_create: the cipher and provider are engine
\* objects only the new Env holds.
CtrEncryptedEnvCreate == \E b \in LiveEnvs : OwnedEnvCreate(b, Null)

\* crocksdb_key_managed_encrypted_env_create and
\* crocksdb_file_system_inspected_env_create.
PluggedEnvCreate ==
  \E b \in LiveEnvs, w \in DOMAIN wrapper :
    /\ wrapper[w].live /\ wrapper[w].field = "envPlugin"
    /\ OwnedEnvCreate(b, wrapper[w].cb)

KeyManagedEncryptedEnvCreate == PluggedEnvCreate
FileSystemInspectedEnvCreate == PluggedEnvCreate

Deleted(state) == IF state = "live" THEN "destroyed" ELSE "corrupt"

\* crocksdb_env_destroy: `if (!env->is_default) delete env->rep`, then the
\* wrapper.  Deleting the Env drops its plugin reference.  The caller
\* destroys a non-default env only once no live options, DB or env was
\* given it; a default one may go at any time, its Env being static.
EnvDestroy ==
  \E e \in LiveEnvs :
    /\ ~env[e].default =>
         /\ \A h \in DOMAIN hold : hold[h].live => hold[h].env # e
         /\ \A d \in LiveEnvs : env[d].base # e
    /\ LET E == [env EXCEPT ![e].live = FALSE]
           O == Settle(cb, hold, rd, wrapper, E)
       IN /\ env' = E
          /\ obj' = IF env[e].default THEN O ELSE [O EXCEPT ![env[e].rep].state = Deleted(@)]
    /\ UNCHANGED <<cb, hold, rd, wrapper, mine>>

\* crocksdb_options_set_env: the raw Env* is stored, nullptr for a null env.
OptionsSetEnv ==
  \E h \in DOMAIN hold, e \in {Null} \cup LiveEnvs :
    /\ hold[h].live /\ hold[h].kind = "options"
    /\ hold' = [hold EXCEPT ![h].env = e]
    /\ UNCHANGED <<obj, cb, rd, wrapper, mine, env>>

-----------------------------------------------------------------------------
Init ==
  /\ obj = << >>
  /\ cb = << >>
  /\ hold = << >>
  /\ rd = EmptyBag
  /\ wrapper = << >>
  /\ mine = {}
  /\ env = << >>

AdapterNext ==
  \/ MergeOperatorCreate \/ CompactionFilterFactoryCreate \/ SliceTransformCreate
  \/ SliceTransformCreateFixedPrefix \/ SliceTransformCreateNoop
  \/ FilterPolicyCreateBloom \/ EventListenerCreate
  \/ TablePropertiesCollectorFactoryCreate \/ ComparatorCreate \/ CompactionFilterCreate
  \/ AdapterDestroy \/ LoggerCreate \/ PartitionerFactoryCreate \/ WrapperDestroy
  \/ GetPartitionerFactory \/ OptionsCreate \/ BlockBasedOptionsCreate \/ OptionsCopy
  \/ DbOpen \/ HolderDestroy \/ SetTakenAdapter \/ AddTakenAdapter \/ SetSharedAdapter
  \/ SetBlockBasedTableFactory \/ SetBorrowedAdapter
  \/ ReadOptionsCreate \/ TitanReadOptionsCreate \/ SetTableFilter \/ CreateIterator
  \/ TitanCreateIterator \/ ReaderDestroy
  \/ RateLimiterCreate \/ WriteBufferManagerCreate \/ ConcurrentTaskLimiterCreate
  \/ StatisticsCreate \/ KeyManagerCreate \/ FileSystemInspectorCreate
  \/ GetStatistics \/ GetRateLimiter \/ GetWriteBufferManager \/ GetCompactionThreadLimiter
  \/ SetRateLimiter \/ SetWriteBufferManager \/ SetStatistics
  \/ RateLimiterDestroy \/ WriteBufferManagerDestroy \/ ConcurrentTaskLimiterDestroy
  \/ StatisticsDestroy \/ KeyManagerDestroy \/ FileSystemInspectorDestroy

EnvNext ==
  \/ DefaultEnvCreate \/ MemEnvCreate \/ CtrEncryptedEnvCreate
  \/ KeyManagedEncryptedEnvCreate \/ FileSystemInspectedEnvCreate
  \/ EnvDestroy \/ OptionsSetEnv

Next == AdapterNext \/ EnvNext

Spec == Init /\ [][Next]_vars
-----------------------------------------------------------------------------
Holders == {h \in DOMAIN hold : hold[h].live}

TypeOK ==
  /\ obj \in Seq([cls : {"taken", "shared", "borrowed", "ctx", "env"},
                  state : {"live", "destroyed", "corrupt"}])
  /\ cb \in Seq([obj : DOMAIN obj, deletes : BOOLEAN])
  /\ \A h \in DOMAIN hold :
       /\ hold[h].kind \in {"options", "bbto", "db"}
       /\ {hold[h][f] : f \in SharedFields} \cup
          {hold[h].listeners[j] : j \in DOMAIN hold[h].listeners} \subseteq {Null} \cup DOMAIN cb
       /\ hold[h].comparator \in {Null} \cup DOMAIN obj
       /\ hold[h].env \in {Null} \cup DOMAIN env
  /\ IsABag(rd)
  /\ BagToSet(rd) \subseteq [kind : {"ropts", "tropts", "iter"}, tableFilter : {Null} \cup DOMAIN cb]
  /\ \A w \in DOMAIN wrapper : wrapper[w].cb \in {Null} \cup DOMAIN cb
  /\ mine \subseteq DOMAIN obj
  /\ env \in Seq([live : BOOLEAN, default : BOOLEAN, rep : {Null} \cup DOMAIN obj,
                  base : {Null} \cup DOMAIN env, mgr : {Null} \cup DOMAIN cb])

\* Every adapter that a live options, table options, DB or wrapper still
\* refers to through a shared_ptr is alive, and no user destructor runs
\* twice, whatever sequence of creates, setters, copies, opens, closes and
\* destroys: copying options and reading the partitioner factory back
\* share the existing control block, so destroying a logger or
\* partitioner-factory wrapper, or the options it was set into, never
\* frees an adapter another holder will call.
NoUseAfterDestroy ==
  /\ \A i \in DOMAIN obj : obj[i].state # "corrupt"
  /\ \A c \in (Refs(hold, rd, wrapper, env) \ {Null}) \cap DOMAIN cb :
       obj[cb[c].obj].state = "live"

\* Every live adapter is still owned by someone: the caller, a live env
\* wrapper (its Env), or a live holder, wrapper or Env through a control
\* block that deletes it.  Once the caller has destroyed its options, DBs,
\* wrappers and envs, every user destructor has run.
NoLeakedAdapter ==
  \A i \in DOMAIN obj :
    obj[i].state = "live" =>
      \/ i \in mine
      \/ \E e \in LiveEnvs : env[e].rep = i
      \/ \E c \in Refs(hold, rd, wrapper, env) \cap DOMAIN cb : cb[c].obj = i /\ cb[c].deletes
====
