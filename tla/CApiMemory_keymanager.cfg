\* The key manager releases a callback's error string with delete.
SPECIFICATION Spec
CONSTANTS
  CbAlloc = {"malloc"}
  NKeys = 2
  MaxBlocks = 3
  LogBufferSize = 2
  MaxLogLen = 3
PROPERTIES ReleaseMatchesAllocator
CHECK_DEADLOCK FALSE
