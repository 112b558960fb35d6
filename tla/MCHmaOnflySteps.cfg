SPECIFICATION Spec
CONSTANTS
  p0 = p0
  p1 = p1
  p2 = p2
  p3 = p3
  f1 = f1
  f2 = f2
  f3 = f3
  Pages <- FourPages
  Page0 = p0
  NoPage = NoPage
  L1Frames <- TwoFrames
  L2Frames <- TwoFrames
  NoFrame = NoFrame
  Thold = 0
  RemapMax = 3
  MaxCount = 1
INVARIANTS
  RemapBounded
PROPERTIES
  ImplementsPageMap
  MigrationEnds
  ArEnds
