SPECIFICATION FairDriverSpec
CONSTANTS
  Num = 2
  IdxMod = 4
  Bufs = {b1, b2}
  NoBuf = NULL
INVARIANTS FreeListExact OnePlacePerHead NoLostInterrupt
PROPERTIES EveryBufReturns RingTransfers
