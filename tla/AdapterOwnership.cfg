\* Two adapters or table-filter contexts; two write-side holders (options
\* and their copy, table options or a DB); three live read-side holders
\* (read options, Titan read options, an iterator); two wrappers.  Enough
\* for an adapter or context shared by two holders and a wrapper or by
\* three copies of ReadOptions, replaced in a slot, and released in every
\* order.  Two envs: a default or owned base and a layered env on it.
\* MaxMade = 6 bounds all creations together, so that every combination of
\* two classes is reached while the state space stays within minutes.
CONSTANTS
  MaxObjs = 2
  MaxHolders = 2
  MaxReaders = 3
  MaxWrappers = 2
  MaxEnvs = 2
  MaxMade = 6
SPECIFICATION Spec
INVARIANTS TypeOK NoUseAfterDestroy NoLeakedAdapter
CHECK_DEADLOCK FALSE
