\* A failed submit leaves its SQE in a one-entry ring; the next lookup finds
\* the ring full after recording its lengths in m_pending_io.
CONSTANTS
  Keys = {k1, k2}
  k1 = k1
  k2 = k2
  g1 = g1
  g2 = g2
  g3 = g3
  Lens = {1, 2}
  Ops = {g1, g2}
  Plan <- MCPlan3
  Capacity = 1
  SubmitCanFail = TRUE
  ReadCanFail = FALSE
  MaxSubmitErrors = 1
  CallerDestroys = FALSE
SPECIFICATION Spec
CHECK_DEADLOCK FALSE
PROPERTY SqeFullKeepsPending
