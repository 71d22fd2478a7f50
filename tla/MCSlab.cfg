CONSTANTS
  Pages = {p1, p2}
  Num = 3
  BootLimit = 1
  TunedLimit = 3
  ObjFreelist = TRUE
SPECIFICATION FairSpec
INVARIANTS
  OneOwner
  FreelistStorage
  ListsMatch
  CountersMatch
PROPERTIES
  CallsReturn
  ImplementsAllocator
