\* Pages of 2KB: 64 busy cycles for 32 lines.
SPECIFICATION Spec
CONSTANTS
  p1 = p1
  p2 = p2
  p3 = p3
  NumCores = 2
  Pages <- ThreePages
  NoPage = NoPage
  CoreOf <- TwoCores
  LinesInPage = 2
  BzCycles <- Bz4
  WaitCycles <- Wait
  OverheadCycles = 2
  OsCycles = 2
INVARIANTS AllLinesFlushed HaltSound OsHaltInTime
PROPERTIES TlbUpdated CoresRun
