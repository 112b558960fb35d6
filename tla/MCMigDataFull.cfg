\* No migration; a write queue of one entry.
SPECIFICATION Spec
CONSTANTS
  p1 = p1
  p2 = p2
  p3 = p3
  a1 = a1
  a2 = a2
  b1 = b1
  b2 = b2
  Pages <- OnePage
  NoPage = NoPage
  PageSizes = {2}
  L1Frames <- OneL1
  L2Frames <- NoFrames
  NoFrame = NoFrame
  Offsets = {0}
  NoVal = NoVal
  Junk = Junk
  WrMax = 1
  MgMax = 2
  MaxMigs = 0
  MaxReqs = 5
\* The bounds of the model let it stop.
CHECK_DEADLOCK FALSE
INVARIANTS CacheCoherent
