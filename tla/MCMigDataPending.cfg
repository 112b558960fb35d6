\* Two lines of one page are missed before the page is moved.
SPECIFICATION Spec
CONSTANTS
  p1 = p1
  p2 = p2
  p3 = p3
  a1 = a1
  a2 = a2
  b1 = b1
  b2 = b2
  Pages <- TwoPages
  NoPage = NoPage
  PageSizes = {2}
  L1Frames <- TwoL1
  L2Frames <- TwoL2
  NoFrame = NoFrame
  Offsets = {0}
  NoVal = NoVal
  Junk = Junk
  WrMax = 4
  MgMax = 2
  MaxMigs = 1
  MaxReqs = 2
\* The bounds of the model let it stop.
CHECK_DEADLOCK FALSE
INVARIANTS SentMustWait
