CONSTANTS
  VPages = {1, 2, 3, 4, 5}
  L1MaxPages = 2
  Chunk = 1
  L2Frames = 2
  Thold = 1
  Limit = 2
  MaxCount = 3
SPECIFICATION MCSpec
INVARIANTS FlatInjective FramesPartitioned
PROPERTIES EvictionsColder
\* A process that ran out of memory has ended.
CHECK_DEADLOCK FALSE
