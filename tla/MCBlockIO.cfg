SPECIFICATION FairBlockSpec
CONSTANTS
  Num = 2
  IdxMod = 4
  Bufs = {1, 2}
  NoBuf = NULL
  b1 = b1
  b2 = b2
  b3 = b3
  p1 = p1
  p2 = p2
  q1 = q1
  Buffers <- MCBuffers
  Files <- MCContiguous
  Mapped = {}
  Errors = TRUE
INVARIANTS FlagsFollowIO OnlyErrorPanics
PROPERTIES BlockTransfers EveryBioEnds WaitersLeave
