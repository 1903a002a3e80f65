---------------------------- MODULE SstPartitioner ----------------------------
(***************************************************************************)
(* The SST partitioner adapters of src/librocksdb_sys/crocksdb/c.cc.       *)
(*                                                                         *)
(* A partitioner is a crocksdb_sst_partitioner_impl_t (the C++ object the  *)
(* engine calls, whose destructor runs the user's destructor(underlying)) *)
(* owned through a unique_ptr by a crocksdb_sst_partitioner_t wrapper or   *)
(* by the engine.  The factory adapter's CreatePartitioner asks the user   *)
(* callback for a wrapper, moves the partitioner out of it and destroys    *)
(* the wrapper; crocksdb_sst_partitioner_factory_create_partitioner wraps  *)
(* the result again for the caller.                                        *)
(*                                                                         *)
(* The context's two lists, next-level boundaries and next-level sizes,   *)
(* are filled by crocksdb_sst_partitioner_context_push_bounary_and_size.  *)
(* Keys and sizes are model values; the engine's own use of a partitioner *)
(* (ShouldPartition, CanDoTrivialMove) reads and changes nothing here.    *)
(***************************************************************************)
EXTENDS Naturals, Sequences, FiniteSets

CONSTANTS
  Keys,      \* boundary keys
  Sizes,     \* segment sizes
  MaxObjs,   \* bound on partitioners plus wrappers allocated
  MaxPush    \* bound on the boundaries pushed into the context

ASSUME MaxObjs \in Nat /\ MaxPush \in Nat

Null == 0

VARIABLES
  impl,        \* impl[i]: partitioner i, "live" | "destroyed" | "corrupt"
  wrap,        \* wrap[w]: wrapper w, [rep |-> partitioner or Null, live]
  held,        \* the wrappers the caller (or its callback) owns
  engine,      \* the partitioners the engine owns (unique_ptr<SstPartitioner>)
  boundaries,  \* context->rep->output_next_level_boundaries
  sizes        \* context->rep->output_next_level_size

vars == <<impl, wrap, held, engine, boundaries, sizes>>

Room(n) == Len(impl) + Len(wrap) + n <= MaxObjs

\* Deleting a partitioner runs destructor(underlying); a second run on the
\* same object corrupts the user's state.
Destroy(im, i) == [im EXCEPT ![i] = IF @ = "live" THEN "destroyed" ELSE "corrupt"]

\* delete of a wrapper: its unique_ptr deletes the partitioner it still owns.
DeleteWrapper(w) ==
  /\ wrap' = [wrap EXCEPT ![w].live = FALSE]
  /\ impl' = IF wrap[w].rep = Null THEN impl ELSE Destroy(impl, wrap[w].rep)

-----------------------------------------------------------------------------
\* crocksdb_sst_partitioner_create: a new partitioner and a new wrapper that
\* owns it (rep.reset), returned to the caller.
PartitionerCreate ==
  /\ Room(2)
  /\ impl' = Append(impl, "live")
  /\ wrap' = Append(wrap, [rep |-> Len(impl) + 1, live |-> TRUE])
  /\ held' = held \cup {Len(wrap) + 1}
  /\ UNCHANGED <<engine, boundaries, sizes>>

\* crocksdb_sst_partitioner_destroy: delete partitioner.
PartitionerDestroy ==
  \E w \in held :
    /\ DeleteWrapper(w)
    /\ held' = held \ {w}
    /\ UNCHANGED <<engine, boundaries, sizes>>

(* Mutant form: the wrapper is read after its rep was reset.               *)
TakePartitionerResetFirst(w) ==
  [rep |-> Null, wrap |-> [wrap EXCEPT ![w].rep = Null, ![w].live = FALSE]]

(* Mutant form: the partitioner is copied out, not moved.                  *)
TakePartitionerNoMove(w) ==
  [rep |-> wrap[w].rep, wrap |-> [wrap EXCEPT ![w].live = FALSE]]

(* Mutant form: the callback's wrapper is never destroyed.                 *)
TakePartitionerKeepsWrapper(w) ==
  [rep |-> wrap[w].rep, wrap |-> [wrap EXCEPT ![w].rep = Null]]

\* The factory adapter's CreatePartitioner after the callback returned
\* wrapper w: std::move(partitioner->rep), then
\* crocksdb_sst_partitioner_destroy(partitioner), which deletes a wrapper
\* whose unique_ptr is now empty.  Returns the partitioner and the wrappers.
TakePartitioner(w) ==
  [rep |-> wrap[w].rep, wrap |-> [wrap EXCEPT ![w].rep = Null, ![w].live = FALSE]]

\* The destroyed wrapper's partitioner (its rep, when the mutant forms leave
\* it set) is deleted along with it.
ImplAfterTake(w, t) ==
  IF t.wrap[w].live \/ t.wrap[w].rep = Null THEN impl ELSE Destroy(impl, t.wrap[w].rep)

\* The engine calls the factory (the factory adapter's CreatePartitioner)
\* for a compaction and the callback hands over a wrapper it created.  (A
\* callback returning nullptr leaves the engine without a partitioner and
\* changes nothing.)
EngineCreatePartitioner ==
  \E w \in held :
    LET t == TakePartitioner(w)
    IN  /\ wrap' = t.wrap
        /\ impl' = ImplAfterTake(w, t)
        /\ engine' = engine \cup {t.rep}
        /\ held' = held \ {w}
        /\ UNCHANGED <<boundaries, sizes>>

\* The engine's unique_ptr goes out of scope at the end of the compaction.
EngineRelease ==
  \E i \in engine :
    /\ impl' = Destroy(impl, i)
    /\ engine' = engine \ {i}
    /\ UNCHANGED <<wrap, held, boundaries, sizes>>

\* crocksdb_sst_partitioner_factory_create_partitioner: the factory's
\* CreatePartitioner, as above, then a new wrapper that owns the
\* partitioner.  (When the callback returns nullptr, so does this call,
\* and nothing changes.)
FactoryCreatePartitioner ==
  /\ Room(1)
  /\ \E w \in held :
       LET t == TakePartitioner(w)
       IN  /\ wrap' = Append(t.wrap, [rep |-> t.rep, live |-> TRUE])
           /\ impl' = ImplAfterTake(w, t)
           /\ held' = (held \ {w}) \cup {Len(wrap) + 1}
           /\ UNCHANGED <<engine, boundaries, sizes>>

(* Mutant form: the size of the first (left) boundary is kept as well.     *)
PushBoundaryAndSizeAlways(k, sz) ==
  /\ sizes' = Append(sizes, sz)
  /\ boundaries' = Append(boundaries, k)

\* crocksdb_sst_partitioner_context_push_bounary_and_size: the size is
\* pushed unless this is the first boundary, then the boundary.
PushBoundaryAndSize(k, sz) ==
  /\ sizes' = IF boundaries # << >> THEN Append(sizes, sz) ELSE sizes
  /\ boundaries' = Append(boundaries, k)

ContextPush ==
  /\ Len(boundaries) < MaxPush
  /\ \E k \in Keys, sz \in Sizes : PushBoundaryAndSize(k, sz)
  /\ UNCHANGED <<impl, wrap, held, engine>>

-----------------------------------------------------------------------------
Init ==
  /\ impl = << >>
  /\ wrap = << >>
  /\ held = {}
  /\ engine = {}
  /\ boundaries = << >>
  /\ sizes = << >>

Next ==
  \/ PartitionerCreate \/ PartitionerDestroy
  \/ EngineCreatePartitioner \/ EngineRelease \/ FactoryCreatePartitioner
  \/ ContextPush

Spec == Init /\ [][Next]_vars

-----------------------------------------------------------------------------
TypeOK ==
  /\ impl \in Seq({"live", "destroyed", "corrupt"})
  /\ wrap \in Seq([rep : 0..Len(impl), live : BOOLEAN])
  /\ held \subseteq 1..Len(wrap)
  /\ engine \subseteq 1..Len(impl)
  /\ boundaries \in Seq(Keys)
  /\ sizes \in Seq(Sizes)

\* Who owns partitioner i: the live wrappers whose unique_ptr holds it, and
\* the engine.
Owners(i) ==
  {w \in 1..Len(wrap) : wrap[w].live /\ wrap[w].rep = i}
  \cup (IF i \in engine THEN {0} ELSE {})

\* Across any sequence of creates, destroys and factory calls, a live
\* partitioner has exactly one owner and a destroyed one none, and no
\* destructor(underlying) runs twice.  The move out of the callback's
\* wrapper in CreatePartitioner is what keeps the wrapper's delete from
\* destroying a partitioner the engine or the caller now uses.
PartitionerOwnedOnce ==
  \A i \in 1..Len(impl) :
    /\ impl[i] # "corrupt"
    /\ impl[i] = "live" => Cardinality(Owners(i)) = 1
    /\ impl[i] = "destroyed" => Owners(i) = {}

\* No wrapper outlives its owner: every live wrapper is one the caller
\* holds.  The wrapper the callback hands to CreatePartitioner is deleted
\* there after the move.
NoLeakedWrapper ==
  \A w \in 1..Len(wrap) : wrap[w].live => w \in held

\* After any sequence of pushes the context has one size per segment: no
\* size for the first (left) boundary and one for each later boundary, so
\* index i of get_next_level_size and i + 1 of get_next_level_boundary are
\* in range for every i below the segment count.
SizesMatchSegments ==
  Len(sizes) = IF boundaries = << >> THEN 0 ELSE Len(boundaries) - 1
====
