SPECIFICATION Spec
CONSTANTS
  p0 = p0
  p1 = p1
  p2 = p2
  p3 = p3
  f1 = f1
  f2 = f2
  f3 = f3
  Pages <- FourPages
  Page0 = p0
  NoPage = NoPage
  L1Frames <- TwoFrames
  L2Frames <- ThreeFrames
  NoFrame = NoFrame
  Thold = 1
  RemapMax = 5
  MaxCount = 2
SYMMETRY Symmetry
INVARIANTS
  TypeOK
  NoAliasing
  RemapMatchesFlags
  RemapFrames
  PairSymmetric
  ArExclusive
  LruSound
  NoExit
PROPERTIES
  ArPagesStay
