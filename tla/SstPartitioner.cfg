SPECIFICATION Spec
CONSTANTS
  Keys = {k1, k2}
  Sizes = {s1, s2}
  MaxObjs = 5
  MaxPush = 3
INVARIANTS TypeOK PartitionerOwnedOnce NoLeakedWrapper SizesMatchSegments
CHECK_DEADLOCK FALSE
