-------------------------------- MODULE Buddy --------------------------------
(***************************************************************************)
(* buddy/buddy.c: zone setup on top of memblock, memblock_free_all handing *)
(* the free memory over block by block, then alloc_pages, free_pages and   *)
(* the exact variants.  Pages are page frame numbers; `s' is the record of *)
(* everything the list operations touch:                                   *)
(*   list, nr_free   free_area[zone][order]                                *)
(*   initialized     the zones whose free lists have been initialised      *)
(*   private, type, refcount   page->private, page_type, _refcount         *)
(* mem_map comes zeroed from memblock and nothing initialises it, so       *)
(* page_type starts without the PAGE_TYPE_BASE bits and the zone number in *)
(* page->flags stays 0.                                                    *)
(***************************************************************************)
EXTENDS Memblock

CONSTANTS
  MaxOrder,     \* MAX_ORDER
  StructPage,   \* sizeof(struct page)
  ChunkSize,    \* RESERVED_CHUNK_SIZE
  Dma32Pfn,     \* PFN of 4 GiB, the end of ZONE_DMA32
  Orders,       \* orders callers ask alloc_pages for
  ExactSizes,   \* sizes callers ask alloc_pages_exact for
  MaxAllocs     \* bound on the blocks handed out

ASSUME BuddyAssumption ==
  /\ MaxOrder \in Nat \ {0} /\ StructPage \in Nat \ {0} /\ ChunkSize \in Nat
  /\ Dma32Pfn \in Nat /\ Orders \subseteq 0 .. MaxOrder - 1 /\ MaxAllocs \in Nat

VARIABLES
  s,            \* free lists and per-page fields
  managed,      \* zone->managed_pages
  zonelist,     \* node_zonelists[ZONELIST_FALLBACK]: zone numbers
  map,          \* page frames mem_map covers: [start, end)
  PgReserved,   \* pages with PG_reserved
  todo,         \* [start, end) frame ranges memblock_free_all has left
  totalram,     \* _totalram_pages
  held,         \* blocks callers have
  allocs,       \* blocks handed out so far, at most MaxAllocs
  want          \* order of the request that panicked

bvars == <<s, managed, zonelist, map, PgReserved, todo, totalram, held, allocs, want>>
vars  == <<mbvars, phase, bvars>>

Pow(n) == 2 ^ n
Pfns   == 0 .. PfnDown(PhysMax)
Zones  == 0 .. 2               \* ZONE_DMA32, ZONE_NORMAL, ZONE_MOVABLE
Areas  == Zones \X (0 .. MaxOrder - 1)
MaxOrderPages == Pow(MaxOrder - 1)

-----------------------------------------------------------------------------
(* Free lists                                                              *)
AddToFreeList(t, p, z, o) ==
  [t EXCEPT !.list[<<z, o>>] = <<p>> \o @, !.nr_free[<<z, o>>] = @ + 1]
AddToFreeListTail(t, p, z, o) ==
  [t EXCEPT !.list[<<z, o>>] = Append(@, p), !.nr_free[<<z, o>>] = @ + 1]
SetPageOrder(t, p, o) ==
  [t EXCEPT !.private[p] = o, !.type[p] = @ \ {"buddy"}]
DelPageFromFreeList(t, p, z, o) ==
  [t EXCEPT !.list[<<z, o>>] = RemoveFirst(@, p), !.nr_free[<<z, o>>] = @ - 1,
            !.private[p] = 0, !.type[p] = @ \cup {"buddy"}]

\* page_zonenum: the zone bits of page->flags, which nothing sets.
PageZone(p) == 0

\* PG_buddy is inverted: a page is PageBuddy when the base bits of page_type
\* are set and the PG_buddy bit is clear.
PageBuddy(t, p) == "base" \in t.type[p] /\ "buddy" \notin t.type[p]
FindBuddyPfn(p, o) == IF (p \div Pow(o)) % 2 = 0 THEN p + Pow(o) ELSE p - Pow(o)
PageIsBuddy(t, p, b, o) ==
  PageBuddy(t, b) /\ t.private[b] = o /\ PageZone(p) = PageZone(b)

(* The merge loop of __free_one_page: at[o] is where it is after trying to *)
(* merge at every order below o.                                           *)
Coalesce(t, p, z, order) ==
  LET at[o \in order .. MaxOrder - 1] ==
        IF o = order THEN [t |-> t, p |-> p, order |-> order]
        ELSE LET c == at[o - 1]
                 b == FindBuddyPfn(c.p, o - 1)
             IN  IF c.order = o - 1 /\ PageIsBuddy(c.t, c.p, b, o - 1)
                 THEN [t |-> DelPageFromFreeList(c.t, b, z, o - 1),
                       p |-> Lesser(c.p, b), order |-> o]
                 ELSE c
  IN  at[MaxOrder - 1]
BuddyMergeLikely(t, p, o) ==
  /\ o < MaxOrder - 2
  /\ LET combined == Lesser(p, FindBuddyPfn(p, o))
     IN  PageIsBuddy(t, combined, FindBuddyPfn(combined, o + 1), o + 1)
FreeOnePage(t, p, z, order) ==
  LET c == Coalesce(t, p, z, order)
      u == SetPageOrder(c.t, c.p, c.order)
  IN  IF BuddyMergeLikely(u, c.p, c.order)
      THEN AddToFreeListTail(u, c.p, z, c.order)
      ELSE AddToFreeList(u, c.p, z, c.order)

(* __free_pages: drop the reference, free the block if it was the last.    *)
PutPages(t, p, order) ==
  LET u == [t EXCEPT !.refcount[p] = @ - 1]
  IN  IF u.refcount[p] = 0 THEN FreeOnePage(u, p, PageZone(p), order) ELSE u

(* free_page for each page of [from, to).                                  *)
FreeEach(t, from, to) ==
  FoldLeft(LAMBDA u, p : PutPages(u, p, 0), t, [k \in 1 .. to - from |-> from + k - 1])

(* __free_pages_core: the only place that gives a page a reference.        *)
FreePagesCore(t, p, order) ==
  PutPages([t EXCEPT !.refcount = [q \in Pfns |->
              IF q = p THEN 1 ELSE IF q \in p .. p + Pow(order) - 1 THEN 0 ELSE @[q]]],
           p, order)

\* Mutant of Expand: puts the lower halves back.
ExpandLower(t, p, z, low, high) ==
  FoldLeft(LAMBDA u, h : SetPageOrder(AddToFreeList(u, p, z, h), p, h),
           t, [k \in 1 .. high - low |-> high - k])

(* __rmqueue_smallest: the first block of the smallest order that has one, *)
(* its upper halves put back by expand.                                    *)
Expand(t, p, z, low, high) ==
  FoldLeft(LAMBDA u, h : SetPageOrder(AddToFreeList(u, p + Pow(h), z, h), p + Pow(h), h),
           t, [k \in 1 .. high - low |-> high - k])
Candidates(t, z, order) == {o \in order .. MaxOrder - 1 : t.list[<<z, o>>] # <<>>}
SmallestOrder(t, z, order) ==
  CHOOSE o \in Candidates(t, z, order) : \A q \in Candidates(t, z, order) : o <= q
RmqueuePage(t, z, order) == Head(t.list[<<z, SmallestOrder(t, z, order)>>])
Rmqueue(t, z, order) ==
  LET o == SmallestOrder(t, z, order)
      p == RmqueuePage(t, z, order)
  IN  Expand(DelPageFromFreeList(t, p, z, o), p, z, order, o)

-----------------------------------------------------------------------------
(* Zones: init_module of buddy.c up to build_all_zonelists_init            *)
MaxLowPfn == PfnDown(REnd(Last(memory)))
PfnRanges == {<<PfnUp(r.base), PfnDown(REnd(r))>> :
                r \in {r \in ToSet(memory) : PfnUp(r.base) < PfnDown(REnd(r))}}
NodeStart == IF PfnRanges = {} THEN 0
             ELSE CHOOSE a \in {r[1] : r \in PfnRanges} : \A r \in PfnRanges : a <= r[1]
NodeEnd   == IF PfnRanges = {} THEN 0
             ELSE CHOOSE e \in {r[2] : r \in PfnRanges} : \A r \in PfnRanges : e >= r[2]

\* arch_zone_lowest_possible_pfn and arch_zone_highest_possible_pfn;
\* ZONE_MOVABLE is skipped and stays empty.
DramStart == PfnDown(memory[1].base)
Dma32High   == Greater(Lesser(Dma32Pfn, MaxLowPfn), DramStart)
ZoneHigh(z) == <<Dma32High, Greater(MaxLowPfn, Dma32High), 0>>[z + 1]
ZoneLow(z)  == <<DramStart, Dma32High, 0>>[z + 1]
ZoneStart(z) == Clamp(NodeStart, ZoneLow(z), ZoneHigh(z))
ZoneEnd(z)   == Clamp(NodeEnd, ZoneLow(z), ZoneHigh(z))
SpannedPages(z) ==
  IF PfnRanges = {} \/ ZoneEnd(z) < NodeStart \/ ZoneStart(z) > NodeEnd THEN 0
  ELSE Lesser(ZoneEnd(z), NodeEnd) - Greater(ZoneStart(z), NodeStart)
AbsentPages(z) ==
  LET in(r) == Clamp(r[2], ZoneStart(z), ZoneEnd(z)) - Clamp(r[1], ZoneStart(z), ZoneEnd(z))
  IN  IF PfnRanges = {} THEN 0
      ELSE ZoneEnd(z) - ZoneStart(z) - MapThenSumSet(in, PfnRanges)
PresentPages(z) == SpannedPages(z) - AbsentPages(z)
MemmapPages(z)  == PfnUp(SpannedPages(z) * StructPage)
FreeSize(z) == IF PresentPages(z) >= MemmapPages(z)
               THEN PresentPages(z) - MemmapPages(z) ELSE PresentPages(z)

\* build_zonerefs_node: the zones with managed pages, highest first.
BuildZonelist == SelectSeq(<<2, 1, 0>>, LAMBDA z : FreeSize(z) # 0)

AlignDown(p) == RoundDown(p, MaxOrderPages)
AlignUp(p)   == RoundDown(p + MaxOrderPages - 1, MaxOrderPages)

BuddyInit ==
  /\ MemblockInit
  /\ s = [list |-> [a \in Areas |-> <<>>], nr_free |-> [a \in Areas |-> 0], initialized |-> {},
          private |-> [p \in Pfns |-> 0], type |-> [p \in Pfns |-> {}],
          refcount |-> [p \in Pfns |-> 0]]
  /\ managed = [z \in Zones |-> 0] /\ zonelist = <<>>
  /\ map = [start |-> 0, end |-> 0] /\ PgReserved = {}
  /\ todo = <<>> /\ totalram = 0 /\ held = {} /\ allocs = 0 /\ want = 0

(* zone_sizes_init with alloc_node_mem_map, then the zonelist.  The free   *)
(* lists of a zone that spans no pages are not initialised.                *)
SetupZones ==
  /\ phase = "memblock"
  /\ LET spanned == MapThenSumSet(SpannedPages, Zones)
         start == AlignDown(NodeStart)
         end   == AlignUp(NodeStart + spanned)
     IN  IF spanned = 0
         THEN phase' = "chunk" /\ UNCHANGED <<memory, reserved, stopped, got, map>>
         ELSE /\ MemblockAlloc((end - start) * StructPage, CacheBytes, "chunk", "panic")
              /\ map' = [start |-> start, end |-> end]
  /\ managed' = [z \in Zones |-> FreeSize(z)]
  /\ zonelist' = BuildZonelist
  /\ s' = [s EXCEPT !.initialized = {z \in Zones : SpannedPages(z) # 0}]
  /\ UNCHANGED <<calls, PgReserved, todo, totalram, held, allocs, want>>

(* reserve_first_chunk_for_cpu_cache                                       *)
ReserveChunk ==
  /\ phase = "chunk"
  /\ MemblockAlloc(ChunkSize, PageSize, "free_all", "free_all")
  /\ UNCHANGED <<calls, bvars>>

-----------------------------------------------------------------------------
(* memblock_free_all                                                       *)
\* Mutant of PfnRange: rounds outwards.
PfnRangeOut(r) == [start |-> PfnDown(r.start), end |-> Lesser(PfnUp(r.end), MaxLowPfn)]

PfnRange(r) == [start |-> PfnUp(r.start), end |-> Lesser(PfnDown(r.end), MaxLowPfn)]
RangesToFree ==
  SelectSeq([k \in DOMAIN FreeRanges |-> PfnRange(FreeRanges[k])],
            LAMBDA r : r.start < r.end)

\* for_each_reserved_mem_region passes the last byte of the region as `end',
\* and reserve_bootmem_region marks the pages up to PFN_UP(end).
BootmemReserved ==
  UNION {PfnDown(r.base) .. PfnUp(REnd(r) - 1) - 1 : r \in ToSet(reserved)} \cap Pfns

FreeAllBegin ==
  /\ phase = "free_all"
  /\ phase' = IF stopped THEN "panic" ELSE "freeing"
  /\ stopped' = TRUE
  /\ managed' = [z \in Zones |-> 0]
  /\ PgReserved' = BootmemReserved
  /\ todo' = RangesToFree
  /\ UNCHANGED <<memory, reserved, got, calls, s, zonelist, map, totalram, held,
                 allocs, want>>

(* One turn of the loop of __free_pages_memory: the largest aligned block  *)
(* at `start' that stays below `end'.                                      *)
\* Mutant of FreeOrder: hands over page by page.
FreeOrderZero(start, end) == 0

FreeOrder(start, end) ==
  CHOOSE o \in 0 .. MaxOrder - 1 :
    /\ start % Pow(o) = 0 /\ start + Pow(o) <= end
    /\ o = MaxOrder - 1 \/ start % Pow(o + 1) # 0 \/ start + Pow(o + 1) > end
FreePagesMemory ==
  /\ phase = "freeing" /\ todo # <<>> /\ PageZone(Head(todo).start) \in s.initialized
  /\ LET r == Head(todo)
         o == FreeOrder(r.start, r.end)
         next == r.start + Pow(o)
     IN  /\ s' = FreePagesCore(s, r.start, o)
         /\ managed' = [managed EXCEPT ![PageZone(r.start)] = @ + Pow(o)]
         /\ PgReserved' = PgReserved \ (r.start .. next - 1)
         /\ todo' = IF next < r.end THEN <<[r EXCEPT !.start = next]>> \o Tail(todo)
                    ELSE Tail(todo)
  /\ UNCHANGED <<mbvars, phase, zonelist, map, totalram, held, allocs, want>>

\* The first page goes to a list whose head is still zero: list_add faults.
FreePagesFault ==
  /\ phase = "freeing" /\ todo # <<>> /\ PageZone(Head(todo).start) \notin s.initialized
  /\ phase' = "panic"
  /\ UNCHANGED <<mbvars, bvars>>

FreeAllDone ==
  /\ phase = "freeing" /\ todo = <<>>
  /\ totalram' = totalram +
       MapThenSumSet(LAMBDA r : r.end - r.start, ToSet(RangesToFree))
  /\ phase' = "up"
  /\ UNCHANGED <<mbvars, s, managed, zonelist, map, PgReserved, todo, held, allocs, want>>

-----------------------------------------------------------------------------
(* alloc_pages and free_pages                                              *)

\* get_page_from_freelist: the first zone of the zonelist at or below the one
\* the gfp mask names; rmqueue panics when that zone has no block.  Order 0
\* goes through the per-cpu list, which has batch 1 and is empty before and
\* after each call.
Preferred(highest) == SelectSeq(zonelist, LAMBDA z : z <= highest)
CanAlloc(order, highest) ==
  Preferred(highest) # <<>> /\ Candidates(s, Head(Preferred(highest)), order) # {}

AllocPanic(order, highest) ==
  /\ phase = "up" /\ ~CanAlloc(order, highest)
  /\ phase' = "oom" /\ want' = order
  /\ UNCHANGED <<mbvars, s, managed, zonelist, map, PgReserved, todo, totalram, held,
                 allocs>>

AllocPages(order, highest) ==
  /\ phase = "up" /\ allocs < MaxAllocs /\ CanAlloc(order, highest)
  /\ LET z == Head(Preferred(highest))
     IN  /\ s' = Rmqueue(s, z, order)
         /\ held' = held \cup {[pfn |-> RmqueuePage(s, z, order), n |-> Pow(order),
                                order |-> order, exact |-> FALSE]}
  /\ allocs' = allocs + 1
  /\ UNCHANGED <<mbvars, phase, managed, zonelist, map, PgReserved, todo, totalram, want>>

\* alloc_pages_exact: a block of get_order(size) pages whose tail
\* make_alloc_exact frees page by page.
GetOrder(size) == CHOOSE o \in 0 .. MaxOrder - 1 :
  /\ Pow(o) * PageSize >= size
  /\ o = 0 \/ Pow(o - 1) * PageSize < size
AllocPagesExact(size) ==
  /\ phase = "up" /\ allocs < MaxAllocs /\ CanAlloc(GetOrder(size), 1)
  /\ LET o == GetOrder(size)
         z == Head(Preferred(1))
         p == RmqueuePage(s, z, o)
         n == PfnUp(size)
     IN  /\ s' = FreeEach(Rmqueue(s, z, o), p + n, p + Pow(o))
         /\ held' = held \cup {[pfn |-> p, n |-> n, order |-> o, exact |-> TRUE]}
  /\ allocs' = allocs + 1
  /\ UNCHANGED <<mbvars, phase, managed, zonelist, map, PgReserved, todo, totalram, want>>

FreePages ==
  /\ phase = "up"
  /\ \E b \in held :
       /\ s' = IF b.exact THEN FreeEach(s, b.pfn, b.pfn + b.n)   \* free_pages_exact
               ELSE PutPages(s, b.pfn, b.order)                  \* free_pages
       /\ held' = held \ {b}
  /\ UNCHANGED <<mbvars, phase, managed, zonelist, map, PgReserved, todo, totalram,
                 allocs, want>>

\* panic() never returns; and the run ends after MaxAllocs blocks.
Halted == /\ phase \in {"panic", "oom"} \/ (phase = "up" /\ allocs = MaxAllocs)
          /\ UNCHANGED vars

BuddyNext ==
  \/ MemblockNext /\ UNCHANGED bvars
  \/ SetupZones \/ ReserveChunk
  \/ FreeAllBegin \/ FreePagesMemory \/ FreePagesFault \/ FreeAllDone
  \/ \E o \in Orders, highest \in {0, 1} : AllocPages(o, highest) \/ AllocPanic(o, highest)
  \/ \E n \in ExactSizes : AllocPagesExact(n) \/ AllocPanic(GetOrder(n), 1)
  \/ FreePages
  \/ Halted

BuddySpec == BuddyInit /\ [][BuddyNext]_vars

-----------------------------------------------------------------------------
(* Properties                                                              *)

Run(p, n) == p .. p + n - 1
FreeBlocks == UNION {{[p |-> s.list[a][k], order |-> a[2]] : k \in DOMAIN s.list[a]} :
                       a \in Areas}
FreePageSet == UNION {Run(b.p, Pow(b.order)) : b \in FreeBlocks}
HeldPageSet == UNION {Run(b.pfn, b.n) : b \in held}

\* Pages that lie wholly in memory and that no reservation touches.
UsablePages ==
  {p \in Pfns : Span(p * PageSize, PageSize) \subseteq Bytes(memory) \ Bytes(reserved)}

\* mem_map, whose ends alloc_node_mem_map aligns to MAX_ORDER blocks, covers
\* every struct page that freeing or splitting a block looks at: the block,
\* its buddy and the buddy of the combined block.
BuddyInMap ==
  \A b \in FreeBlocks :
    LET up == Lesser(b.p, FindBuddyPfn(b.p, b.order))
    IN  Run(b.p, Pow(b.order))
          \cup (IF b.order < MaxOrder - 1 THEN {FindBuddyPfn(b.p, b.order)} ELSE {})
          \cup (IF b.order < MaxOrder - 2 THEN {FindBuddyPfn(up, b.order + 1)} ELSE {})
        \subseteq map.start .. map.end - 1

\* Free blocks are aligned to their size, are recorded with their order,
\* overlap neither each other nor a block a caller has, and consist of usable
\* pages that are no longer PG_reserved; nr_free counts them; and every struct
\* page their freeing and splitting reads lies in mem_map (__free_one_page,
\* expand, alloc_node_mem_map).
BlocksDisjoint ==
  /\ BuddyInMap
  /\ \A a \in Areas : s.nr_free[a] = Len(s.list[a])
  /\ \A a \in Areas : \A j, k \in DOMAIN s.list[a] : s.list[a][j] = s.list[a][k] => j = k
  /\ \A b \in FreeBlocks : /\ b.p % Pow(b.order) = 0 /\ s.private[b.p] = b.order
                           /\ Run(b.p, Pow(b.order)) \subseteq UsablePages \ PgReserved
  /\ \A b, c \in FreeBlocks :
       b # c => Run(b.p, Pow(b.order)) \cap Run(c.p, Pow(c.order)) = {}
  /\ \A b \in held : Run(b.pfn, b.n) \cap FreePageSet = {}
  /\ \A b, c \in held : b # c => Run(b.pfn, b.n) \cap Run(c.pfn, c.n) = {}

\* Free memory is as coalesced as it can be: no two free blocks of one order
\* are buddies, though page_is_buddy never finds a PageBuddy page and nothing
\* is ever merged.  memblock_free_all hands over maximal blocks and expand
\* leaves at most one block of a pair.
NoFreeBuddies ==
  \A z \in Zones, o \in 0 .. MaxOrder - 2 :
    \A k \in DOMAIN s.list[<<z, o>>] :
      ~ Contains(s.list[<<z, o>>], FindBuddyPfn(s.list[<<z, o>>][k], o))

\* memblock_free_all gives the buddy allocator every usable page, exactly
\* those, and its two counters say so.
HandOver ==
  [][phase = "freeing" /\ phase' = "up" =>
       /\ FreePageSet = UsablePages
       /\ totalram' = Cardinality(UsablePages)
       /\ MapThenSumSet(LAMBDA z : managed[z], Zones) = totalram']_vars

\* alloc_pages panics only when no zone of its zonelist has a block left.
PanicOnlyWhenEmpty ==
  phase = "oom" => \A z \in ToSet(zonelist) : Candidates(s, z, want) = {}

\* Every usable page is on a free list or with a caller: what free_pages and
\* free_pages_exact release can be allocated again.
NoLeak == phase = "up" => UsablePages \subseteq FreePageSet \cup HeldPageSet
=============================================================================
