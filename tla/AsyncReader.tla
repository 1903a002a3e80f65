------------------------------ MODULE AsyncReader ------------------------------
(***************************************************************************)
(* Async_reader (src/cxxrocksdb/src/cxxrocksdb.cc): point lookups whose    *)
(* disk reads go through an io_uring ring, with duplicate reads to the     *)
(* same (fd, offset) coalesced in m_pending_io.                            *)
(*                                                                         *)
(* Actors: the single driving thread (get, get_result, io_uring_reap_cq,   *)
(* and every coroutine it resumes), and the kernel, which consumes SQEs    *)
(* in io_uring_submit and posts their CQEs in any order.  The storage      *)
(* engine's read path (DB::AsyncGet) is abstracted to Plan: the sequence   *)
(* of reads a lookup hands to the submit-queue lambda, one after the       *)
(* other, each issued when the previous one is resumed.                    *)
(*                                                                         *)
(* Buffer contents are abstracted to which iovec positions the kernel has  *)
(* written: <<op, i, j>> is iovec j of read i of lookup op.  In an SQE the *)
(* iovec list is a sequence of positions j, and 0 stands for the           *)
(* zero-length iovec a value-initialised element of new_iov is.           *)
(***************************************************************************)
EXTENDS Integers, Sequences, FiniteSets, SequencesExt, Functions

CONSTANTS
  Ops,             \* the Async_reader::get calls
  Keys,            \* IO_key values, i.e. (fd, offset) pairs
  Lens,            \* iov_len values
  Plan,            \* Plan[op]: sequence of reads [key |-> k, lens |-> <<l1, ...>>]
  Capacity,        \* io_uring_size: number of SQ entries of the ring
  SubmitCanFail,   \* io_uring_submit may return a negative error
  ReadCanFail,     \* a readv CQE may carry res < 0
  MaxSubmitErrors, \* bound on the number of failed io_uring_submit calls
  CallerDestroys   \* the caller destroys the reader once its pending count is 0

ASSUME Capacity \in Nat \ {0}
ASSUME MaxSubmitErrors \in Nat
ASSUME CallerDestroys \in BOOLEAN
ASSUME \A op \in Ops : \A i \in 1..Len(Plan[op]) :
         Plan[op][i].key \in Keys /\ Plan[op][i].lens \in Seq(Lens) /\ Plan[op][i].lens # << >>

VARIABLES
  pending,      \* m_pending_io: IO_key -> set of lengths; DOMAIN = keys present
  sq,           \* SQEs prepared in the SQ ring and not yet consumed by the kernel
  inflight,     \* SQEs the kernel consumed and has not completed
  cq,           \* CQEs in the order the kernel posted them
  counter,      \* m_n_pending_sqe
  opState,      \* per lookup: "idle" | "suspended" | "done" | "resolved"
  cur,          \* per lookup: index in Plan[op] of the read it issued last
  status,       \* per lookup: the IOStatus it finished with, "none" before
  filled,       \* iovec positions <<op, i, j>> the kernel has written
  driver,       \* the driving thread: "idle" | "reaping", "aborted" by
                \* assert(false) on a failed read, "underflow" when
                \* assert(r >= 1) fails, or "destroyed" once the reader is gone
  submitErrors  \* failed io_uring_submit calls so far (bounded)

vars == <<pending, sq, inflight, cq, counter, opState, cur, status, filled,
          driver, submitErrors>>

Failures == {"sqe_full", "submit_error"}

\* The two asserts of io_uring_reap_cq that end the debug build.
Aborted == {"aborted", "underflow"}

-----------------------------------------------------------------------------
(* Mutant form: the zero-length iovecs' length is recorded as pending.    *)
CoalesceRecordsPadding(pend, r) ==
  IF r.key \notin DOMAIN pend
  THEN [pend |-> pend @@ (r.key :> ToSet(r.lens)),
        iov |-> [j \in 1..Len(r.lens) |-> j], ctxIov |-> << >>]
  ELSE [pend |-> [pend EXCEPT ![r.key] = @ \cup ToSet(r.lens) \cup {0}],
        iov |-> [j \in 1..Len(r.lens) |-> 0], ctxIov |-> r.lens]

(* The submit-queue lambda's bookkeeping, lines 35-65.  Returns the new    *)
(* pending map, the iovec list handed to readv and what is left in         *)
(* ctx->m_iov (moved from when the key was absent).                        *)
Coalesce(pend, r) ==
  IF r.key \notin DOMAIN pend
  THEN [pend   |-> pend @@ (r.key :> ToSet(r.lens)),
        iov    |-> [j \in 1..Len(r.lens) |-> j],
        ctxIov |-> << >>]
  ELSE LET Differing(j) == pend[r.key] \ {r.lens[j]}
           newLens == {r.lens[j] : j \in {j \in 1..Len(r.lens) : Differing(j) # {}}}
       IN [pend   |-> [pend EXCEPT ![r.key] = @ \cup newLens],
           \* new_iov.resize(iovs.size()), then one push_back per pending
           \* length that differs from the iovec's length
           iov    |-> [j \in 1..Len(r.lens) |-> 0]
                        \o FlattenSeq([j \in 1..Len(r.lens) |->
                                         [c \in 1..Cardinality(Differing(j)) |-> j]]),
           ctxIov |-> r.lens]

(* The nop branch of the reap loop, lines 133-160: erase the lengths of    *)
(* ctx->m_iov from the key's set and the key once its set is empty.        *)
ClearNop(pend, k, lens) ==
  IF k \notin DOMAIN pend THEN pend
  ELSE LET left == pend[k] \ ToSet(lens)
       IN IF left = {} THEN Restrict(pend, DOMAIN pend \ {k})
                       ELSE [pend EXCEPT ![k] = left]

\* io_uring_get_sqe returns an entry: the SQ ring is not full of entries
\* the kernel has not consumed.
SqeFree(q) == Len(q) < Capacity

Finish(op, st) ==
  /\ opState' = [opState EXCEPT ![op] = "done"]
  /\ status' = [status EXCEPT ![op] = st]

(* The submit-queue lambda for read i of lookup op, lines 25-96, run on    *)
(* the ring state pend, q, fl, cnt.  The pending map is updated before the *)
(* SQE is obtained, whatever happens after.                                *)
IssueRead(op, i, pend, q, fl, cnt) ==
  LET r   == Plan[op][i]
      c   == Coalesce(pend, r)
      sqe == [op |-> op, i |-> i, key |-> r.key,
              kind |-> IF c.iov = << >> THEN "nop" ELSE "readv",
              iov |-> c.iov, ctxIov |-> c.ctxIov, promise |-> FALSE]
  IN /\ pending' = c.pend
     /\ cur' = [cur EXCEPT ![op] = i]
     /\ \/ /\ ~SqeFree(q)                        \* io_uring_get_sqe: nullptr
           /\ Finish(op, "sqe_full")
           /\ sq' = q /\ inflight' = fl /\ counter' = cnt
           /\ UNCHANGED submitErrors
        \/ /\ SqeFree(q)
           /\ \/ \* io_uring_submit consumes every prepared SQE; the lookup
                 \* suspends in co_await, which sets ctx->m_promise
                 /\ sq' = << >>
                 /\ inflight' = fl \cup ToSet(q) \cup {[sqe EXCEPT !.promise = TRUE]}
                 /\ counter' = cnt + 1
                 /\ opState' = [opState EXCEPT ![op] = "suspended"]
                 /\ UNCHANGED <<status, submitErrors>>
              \/ \* io_uring_submit < 0: the SQE stays in the SQ ring
                 /\ SubmitCanFail
                 /\ submitErrors < MaxSubmitErrors
                 /\ sq' = Append(q, sqe) /\ inflight' = fl /\ counter' = cnt
                 /\ Finish(op, "submit_error")
                 /\ submitErrors' = submitErrors + 1

(* The lookup runs on after its read i (i = 0: it has just started): it    *)
(* completes, or issues its next read.                                     *)
Continue(op, i, pend, q, fl, cnt) ==
  \/ /\ i = Len(Plan[op])
     /\ Finish(op, "ok")
     /\ pending' = pend /\ sq' = q /\ inflight' = fl /\ counter' = cnt
     /\ UNCHANGED <<cur, submitErrors>>
  \/ /\ i < Len(Plan[op])
     /\ IssueRead(op, i + 1, pend, q, fl, cnt)

-----------------------------------------------------------------------------
(* Actions of the driving thread.                                          *)

\* Async_reader::get: DB::AsyncGet runs up to its first suspension.
Get(op) ==
  /\ driver = "idle"
  /\ opState[op] = "idle"
  /\ Continue(op, 0, pending, sq, inflight, counter)
  /\ UNCHANGED <<cq, filled, driver>>

(* Mutant forms used to test the properties (see PROJECT.json).          *)
ResumeCtxNever(e, pend, cnt) ==
  /\ pending' = pend
  /\ counter' = cnt
  /\ UNCHANGED <<sq, inflight, opState, cur, status, submitErrors>>

ResumeCtxUnguarded(e, pend, cnt) == Continue(e.op, e.i, pend, sq, inflight, cnt)

ResumeCtxNoFetchSub(e, pend, cnt) ==
  \/ e.promise /\ Continue(e.op, e.i, pend, sq, inflight, cnt + 1)
  \/ ~e.promise /\ ResumeCtxNever(e, pend, cnt + 1)

(* Lines 164-172, and the fetch_sub of line 180 (cnt is the count after    *)
(* it): the ctx is deleted and its promise, when set, resumed; the lookup  *)
(* runs on before the counter is decremented.                              *)
ResumeCtx(e, pend, cnt) ==
  \/ e.promise /\ Continue(e.op, e.i, pend, sq, inflight, cnt)
  \/ /\ ~e.promise
     /\ pending' = pend
     /\ counter' = cnt
     /\ UNCHANGED <<sq, inflight, opState, cur, status, submitErrors>>

\* One iteration of the io_uring_reap_cq loop on the CQE at the head.
ReapOne ==
  /\ driver \in {"idle", "reaping"}
  /\ cq # << >>
  /\ LET e    == Head(cq).sqe
         pend == IF e.kind = "nop" THEN ClearNop(pending, e.key, e.ctxIov)
                                   ELSE pending
     IN \/ \* res < 0: assert(false)
           /\ Head(cq).res = "err"
           /\ driver' = "aborted"
           /\ UNCHANGED <<pending, sq, inflight, cq, counter, opState, cur,
                          status, filled, submitErrors>>
        \/ /\ Head(cq).res = "ok"
           /\ cq' = Tail(cq)
           /\ ResumeCtx(e, pend, counter - 1)
           \* assert(r >= 1) on the value fetch_sub returned
           /\ driver' = IF counter' >= 0 THEN "reaping" ELSE "underflow"
           /\ UNCHANGED filled

\* io_uring_peek_cqe finds the CQ empty: io_uring_reap_cq returns.
ReapEnd ==
  /\ driver = "reaping"
  /\ cq = << >>
  /\ driver' = "idle"
  /\ UNCHANGED <<pending, sq, inflight, cq, counter, opState, cur, status,
                 filled, submitErrors>>

\* Async_reader::get_result, called once the lookup has finished.  It is
\* static and touches only the Async_result, so it outlives the reader.
GetResult(op) ==
  /\ driver \in {"idle", "destroyed"}
  /\ opState[op] = "done"
  /\ opState' = [opState EXCEPT ![op] = "resolved"]
  /\ UNCHANGED <<pending, sq, inflight, cq, counter, cur, status, filled,
                 driver, submitErrors>>

(* Async_reader::~Async_reader, lines 11-13: io_uring_queue_exit unmaps   *)
(* the rings and the kernel drops what it still holds.  Spec 4.5 leaves it *)
(* to the caller to destroy the reader with no read in flight, and the     *)
(* one test the reader offers is pending_io_uring_sqe_count()              *)
(* (cxxrocksdb.h 49-51): the modelled caller destroys the reader between   *)
(* calls once that count reads 0.                                          *)
Destroy ==
  /\ CallerDestroys
  /\ driver = "idle"
  /\ counter = 0
  /\ driver' = "destroyed"
  /\ sq' = << >> /\ inflight' = {} /\ cq' = << >>
  /\ UNCHANGED <<pending, counter, opState, cur, status, filled, submitErrors>>

-----------------------------------------------------------------------------
(* The kernel completes a consumed SQE and posts its CQE.  A readv that    *)
(* succeeds writes every non-empty iovec of its list.                      *)
Complete(e) ==
  /\ driver \notin Aborted
  /\ e \in inflight
  /\ \E res \in IF ReadCanFail /\ e.kind = "readv" THEN {"ok", "err"} ELSE {"ok"} :
       /\ inflight' = inflight \ {e}
       /\ cq' = Append(cq, [sqe |-> e, res |-> res])
       /\ filled' = IF e.kind = "readv" /\ res = "ok"
                    THEN filled \cup {<<e.op, e.i, j>> : j \in ToSet(e.iov) \ {0}}
                    ELSE filled
  /\ UNCHANGED <<pending, sq, counter, opState, cur, status, driver, submitErrors>>

-----------------------------------------------------------------------------
Init ==
  /\ pending = [k \in {} |-> {}]
  /\ sq = << >>
  /\ inflight = {}
  /\ cq = << >>
  /\ counter = 0
  /\ opState = [op \in Ops |-> "idle"]
  /\ cur = [op \in Ops |-> 0]
  /\ status = [op \in Ops |-> "none"]
  /\ filled = {}
  /\ driver = "idle"
  /\ submitErrors = 0

Next ==
  \/ \E op \in Ops : Get(op) \/ GetResult(op)
  \/ ReapOne
  \/ ReapEnd
  \/ Destroy
  \/ \E e \in inflight : Complete(e)

(* The kernel completes what it consumed, and the caller drains the CQ     *)
(* whenever CQEs are ready (the caller obligation of io_uring_reap_cq).    *)
Fairness ==
  /\ WF_vars(\E e \in inflight : Complete(e))
  /\ WF_vars(ReapOne)
  /\ WF_vars(ReapEnd)

Spec == Init /\ [][Next]_vars /\ Fairness

-----------------------------------------------------------------------------
(* Properties.                                                             *)

Sqe == [op : Ops, i : Nat, key : Keys, kind : {"readv", "nop"},
        iov : Seq(Nat), ctxIov : Seq(Lens), promise : BOOLEAN]

TypeOK ==
  /\ DOMAIN pending \subseteq Keys
  /\ \A k \in DOMAIN pending : pending[k] \subseteq Lens
  /\ sq \in Seq(Sqe) /\ Len(sq) <= Capacity
  /\ inflight \subseteq Sqe
  /\ cq \in Seq([sqe : Sqe, res : {"ok", "err"}])
  /\ counter \in Int
  /\ opState \in [Ops -> {"idle", "suspended", "done", "resolved"}]
  /\ cur \in [Ops -> Nat]
  /\ status \in [Ops -> {"none", "ok"} \cup Failures]
  /\ driver \in {"idle", "reaping", "destroyed"} \cup Aborted
  /\ submitErrors \in 0..MaxSubmitErrors

(* m_n_pending_sqe is the number of submissions handed to the ring and not *)
(* yet reaped: the count fetch_add in the submit lambda and fetch_sub in   *)
(* io_uring_reap_cq keep, and what pending_io_uring_sqe_count reports.     *)
CounterTracksRing ==
  counter = Cardinality(inflight) + Len(cq)

(* The lookups refine AsyncGet: each is started once, resumed once per     *)
(* read of its plan and only while it waits for that read, finishes once,  *)
(* with "ok" only after all its reads, and is resolved once.  Under the    *)
(* fairness of Spec a lookup that waits for a read is eventually resumed.  *)
Abs == INSTANCE AsyncGet
         WITH aState  <- [op \in Ops |-> IF opState[op] = "suspended"
                                         THEN "running" ELSE opState[op]],
              aReads  <- [op \in Ops |-> IF opState[op] = "idle" THEN 0
                                         ELSE IF status[op] = "ok" THEN cur[op]
                                         ELSE cur[op] - 1],
              aStatus <- status

AbsSpec == Abs!Spec
AbsSafety == Abs!SafetySpec

(* A lookup that finished "ok" has had every iovec of every one of its     *)
(* reads written by the kernel: a read coalesced with another one in the   *)
(* submit lambda is still given its data (spec 8.1, 8.5).                  *)
OkLookupsHaveData ==
  \A op \in Ops : status[op] = "ok" =>
    \A i \in 1..Len(Plan[op]) : \A j \in 1..Len(Plan[op][i].lens) :
      <<op, i, j>> \in filled

(* Once nothing is in the ring, m_pending_io is empty: the reap loop       *)
(* clears the lengths of every completed read (spec 4.3 step 3, 8.3).      *)
PendingEmptyWhenIdle ==
  (sq = << >> /\ inflight = {} /\ cq = << >>) => DOMAIN pending = {}

(* A lookup that fails with kIOUringSqeFull leaves m_pending_io as it was  *)
(* (spec 4.2 and 8.6: bookkeeping and submission are one unit).           *)
SqeFullKeepsPending ==
  [][\A op \in Ops : (status'[op] = "sqe_full" /\ status[op] # "sqe_full")
                       => pending' = pending]_vars

(* The kernel writes a readv's buffers only while the lookup that issued   *)
(* it is suspended waiting for exactly that read.                           *)
NoStrayWrite ==
  [][\A e \in inflight \ inflight' :
       e.kind = "readv" => (opState[e.op] = "suspended" /\ cur[e.op] = e.i)]_vars

================================================================================
