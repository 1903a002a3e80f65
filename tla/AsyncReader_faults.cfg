\* io_uring_submit failures and failed reads, with a two-entry SQ ring that two failed submits fill:
\* the refinement's safety part must survive every failure path.
CONSTANTS
  Keys = {k1, k2}
  k1 = k1
  k2 = k2
  g1 = g1
  g2 = g2
  g3 = g3
  Lens = {1, 2}
  Ops = {g1, g2, g3}
  Plan <- MCPlan3
  Capacity = 2
  SubmitCanFail = TRUE
  ReadCanFail = TRUE
  MaxSubmitErrors = 3
  CallerDestroys = FALSE
SPECIFICATION Spec
\* A failed read aborts the process (assert), which really stops it.
CHECK_DEADLOCK FALSE
PROPERTY AbsSafety
