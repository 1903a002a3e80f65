\* Fault-free ring: three lookups sharing IO_key k1, each read submitted
\* and completed; refinement of AsyncGet (with its liveness) and the
\* in-flight counter.
CONSTANTS
  Ops = {g1, g2, g3}
  Keys = {k1, k2}
  k1 = k1
  k2 = k2
  g1 = g1
  g2 = g2
  g3 = g3
  Lens = {1, 2}
  Plan <- MCPlan3
  Capacity = 2
  SubmitCanFail = FALSE
  ReadCanFail = FALSE
  MaxSubmitErrors = 0
  CallerDestroys = TRUE
SPECIFICATION Spec
\* The program stops once every lookup is resolved; a lookup left waiting
\* is caught by the liveness of AbsSpec instead.
CHECK_DEADLOCK FALSE
INVARIANT TypeOK
INVARIANT CounterTracksRing
PROPERTY AbsSpec
