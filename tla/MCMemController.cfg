CONSTANTS
  Lines <- ThreeLines
  Offsets = {0, 4}
  PageLines <- TwoPageLines
  RdMax = 2
  WrMax = 2
  MgMax = 2
  High = 2
  Low = 0
  HasRefresh = TRUE
  MaxReqs = 3
  MaxMigs = 1
  MaxRefresh = 1
SPECIFICATION MCSpec
INVARIANTS ReadsFresh ServingExact RowTableSound
PROPERTIES HitsSpared Drained
CHECK_DEADLOCK FALSE
