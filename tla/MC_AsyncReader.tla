---------------------------- MODULE MC_AsyncReader ----------------------------
(* Instantiation of AsyncReader for TLC.  Plans use two IO_keys and the    *)
(* lengths 1 and 2, so that the same (fd, offset) is read by several       *)
(* lookups with equal and with different lengths, and with two iovecs.     *)
EXTENDS AsyncReader, TLC

CONSTANTS k1, k2, g1, g2, g3

\* g1 reads two blocks; g2 reads the first block of g1 again; g3 reads at
\* the same offset with two iovecs, one of them of a different length.
MCPlan3 ==
  (g1 :> << [key |-> k1, lens |-> <<1>>], [key |-> k2, lens |-> <<2>>] >>)
  @@ (g2 :> << [key |-> k1, lens |-> <<1>>] >>)
  @@ (g3 :> << [key |-> k1, lens |-> <<2, 1>>] >>)

\* Two lookups of the same block.
MCPlanSame ==
  (g1 :> << [key |-> k1, lens |-> <<1>>] >>)
  @@ (g2 :> << [key |-> k1, lens |-> <<1>>] >>)

================================================================================
