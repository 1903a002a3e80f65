SPECIFICATION Spec
CONSTANTS
  CbAlloc = {"malloc"}
  NKeys = 2
  MaxBlocks = 2
  LogBufferSize = 2
  MaxLogLen = 3
INVARIANT NoAbort
CHECK_DEADLOCK FALSE
