\* The SQE of a failed submit is consumed later, and the kernel writes the
\* buffers of a lookup that has already failed.
CONSTANTS
  Keys = {k1, k2}
  k1 = k1
  k2 = k2
  g1 = g1
  g2 = g2
  g3 = g3
  Lens = {1, 2}
  Ops = {g1, g2}
  Plan <- MCPlanSame
  Capacity = 2
  SubmitCanFail = TRUE
  ReadCanFail = FALSE
  MaxSubmitErrors = 1
  CallerDestroys = FALSE
SPECIFICATION Spec
CHECK_DEADLOCK FALSE
PROPERTY NoStrayWrite
