\* Two lookups of the same block, no faults: the second one finishing ok
\* without its buffer written.
CONSTANTS
  Keys = {k1, k2}
  k1 = k1
  k2 = k2
  g1 = g1
  g2 = g2
  g3 = g3
  Lens = {1, 2}
  Ops = {g1, g2}
  Plan <- MCPlanSame
  Capacity = 2
  SubmitCanFail = FALSE
  ReadCanFail = FALSE
  MaxSubmitErrors = 0
  CallerDestroys = FALSE
SPECIFICATION Spec
CHECK_DEADLOCK FALSE
INVARIANT OkLookupsHaveData
