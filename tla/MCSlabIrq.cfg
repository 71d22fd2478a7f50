CONSTANTS
  Pages = {p1, p2}
  Num = 2
  BootLimit = 1
  TunedLimit = 3
  ObjFreelist = TRUE
SPECIFICATION SpecIrq
INVARIANT RefillFindsArrayEmpty
