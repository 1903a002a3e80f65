\* Buffers across the C ABI with callbacks that follow the file's malloc
\* convention: no block is lost and none is released twice.
SPECIFICATION Spec
CONSTANTS
  CbAlloc = {"malloc"}
  NKeys = 2
  MaxBlocks = 4
  LogBufferSize = 2
  MaxLogLen = 3
INVARIANTS TypeOK HeapAccounted NoDoubleRelease LogDeliveredWhole
CHECK_DEADLOCK FALSE
