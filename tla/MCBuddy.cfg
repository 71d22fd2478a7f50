CONSTANTS
  PhysMax = 111
  PageSize = 4
  CacheBytes = 2
  MaxRegions = 3
  MaxCalls = 4
  MaxOrder = 3
  StructPage = 1
  ChunkSize = 4
  Dma32Pfn = 18
  Orders = {0, 1, 2}
  MaxAllocs = 4
  MemRanges <- MCMemRanges
  ResRanges <- MCResRanges
  Requests <- MCRequests
  ExactSizes <- MCExactSizes
SPECIFICATION BuddySpec
INVARIANTS
  IteratorsExact
  AllocDisjoint
  BlocksDisjoint
  NoFreeBuddies
PROPERTIES
  HandOver
