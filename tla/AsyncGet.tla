------------------------------- MODULE AsyncGet -------------------------------
(***************************************************************************)
(* What Async_reader promises a caller of one asynchronous point lookup,   *)
(* with the ring, the coalescing and the counters left out.  A lookup is   *)
(* started once, has the reads its plan names delivered to it one at a     *)
(* time and in plan order, finishes exactly once (with "ok" only after     *)
(* every read was delivered, or with a failure before that) and is         *)
(* resolved once after it finished.  AsyncReader is checked against this   *)
(* module through a refinement mapping.                                    *)
(***************************************************************************)
EXTENDS Naturals, Sequences

CONSTANTS
  Ops,       \* the lookups
  Plan,      \* Plan[op]: the reads the lookup needs, in order
  Failures   \* the failure statuses a lookup may finish with

VARIABLES
  aState,    \* "idle" | "running" | "done" | "resolved"
  aReads,    \* number of reads delivered to the lookup
  aStatus    \* the status it finished with, "none" before

avars == <<aState, aReads, aStatus>>

Init ==
  /\ aState = [op \in Ops |-> "idle"]
  /\ aReads = [op \in Ops |-> 0]
  /\ aStatus = [op \in Ops |-> "none"]

\* The lookup stops with status st.
Stop(op, st) ==
  /\ aState' = [aState EXCEPT ![op] = "done"]
  /\ aStatus' = [aStatus EXCEPT ![op] = st]

\* The lookup starts: it needs no read and succeeds, or it waits for its
\* first read, or it fails before any read was delivered.
Start(op) ==
  /\ aState[op] = "idle"
  /\ UNCHANGED aReads
  /\ \/ Len(Plan[op]) = 0 /\ Stop(op, "ok")
     \/ /\ Len(Plan[op]) > 0
        /\ \/ aState' = [aState EXCEPT ![op] = "running"] /\ UNCHANGED aStatus
           \/ \E f \in Failures : Stop(op, f)

\* One read is delivered; then the lookup is complete, waits for the next
\* read, or fails issuing it.
Deliver(op) ==
  /\ aState[op] = "running"
  /\ aReads[op] < Len(Plan[op])
  /\ aReads' = [aReads EXCEPT ![op] = @ + 1]
  /\ \/ aReads'[op] = Len(Plan[op]) /\ Stop(op, "ok")
     \/ /\ aReads'[op] < Len(Plan[op])
        /\ \/ UNCHANGED <<aState, aStatus>>
           \/ \E f \in Failures : Stop(op, f)

Resolve(op) ==
  /\ aState[op] = "done"
  /\ aState' = [aState EXCEPT ![op] = "resolved"]
  /\ UNCHANGED <<aReads, aStatus>>

Next == \E op \in Ops : Start(op) \/ Deliver(op) \/ Resolve(op)

\* Safety only: what a lookup may do.
SafetySpec == Init /\ [][Next]_avars

\* A running lookup is eventually given its next read or finishes.
Spec == SafetySpec /\ \A op \in Ops : WF_avars(Deliver(op))

================================================================================
