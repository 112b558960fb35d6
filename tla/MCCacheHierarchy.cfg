CONSTANTS
  a1 = a1
  a2 = a2
  b1 = b1
  b2 = b2
  NCores = 2
  Lines <- FourLines
  Owner <- OwnerOf
  L1Index <- OneSet
  LlcIndex <- OneSet
  L1Assoc = 1
  LlcAssoc = 2
  L1Mshrs = 1
  LlcMshrs = 2
  L1Lat = 2
  LlcLat = 3
  MaxReqs = 5
  MaxInvs = 1
SPECIFICATION Spec
INVARIANTS Inclusive MshrsSound WritesKept LoadsUnderWay
