SPECIFICATION Spec
CONSTANTS
  SeqNos = {0, 1, 2}
  Versions = {1, 2}
INVARIANTS TypeOK OkMeansSet
PROPERTIES WritesOnlySeqnoField
