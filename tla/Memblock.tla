------------------------------ MODULE Memblock ------------------------------
(***************************************************************************)
(* memblock/memblock.c: the boot-time allocator.  `memory' and `reserved'  *)
(* are the region arrays of struct memblock (cnt is the length, an empty   *)
(* array is one region of size zero); allocation reserves the topmost free *)
(* range that fits.  Buddy.tla continues with memblock_free_all.           *)
(*                                                                         *)
(* Boot code is sequential: each exported call is one action.  total_size, *)
(* which nothing reads, is left out.                                       *)
(***************************************************************************)
EXTENDS Integers, Sequences, SequencesExt, FiniteSets

CONSTANTS
  PhysMax,      \* PHYS_ADDR_MAX
  PageSize,     \* PAGE_SIZE
  CacheBytes,   \* SMP_CACHE_BYTES
  MaxRegions,   \* INIT_MEMBLOCK_REGIONS
  MemRanges,    \* <<base, size>> the device tree may describe
  ResRanges,    \* <<base, size>> that may be reserved
  Requests,     \* <<size, align>> asked of memblock_alloc
  MaxCalls      \* bound on the calls made before the buddy allocator starts

ASSUME MemblockAssumption ==
  /\ PhysMax \in Nat /\ PageSize \in Nat \ {0} /\ CacheBytes \in Nat \ {0}
  /\ MaxRegions \in Nat \ {0} /\ MaxCalls \in Nat

VARIABLES
  memory, reserved,   \* memblock.memory.regions, memblock.reserved.regions
  stopped,            \* _memblock_stopped
  got,                \* ranges memblock_alloc has returned
  calls,              \* calls made so far, at most MaxCalls
  phase               \* where the boot sequence is; "panic" after panic()

mbvars == <<memory, reserved, stopped, got, calls>>

Lesser(a, b)  == IF a < b THEN a ELSE b
Greater(a, b) == IF a > b THEN a ELSE b
Clamp(x, lo, hi) == Lesser(Greater(x, lo), hi)
RoundDown(x, align) == x - (x % align)
PfnUp(a)   == (a + PageSize - 1) \div PageSize
PfnDown(a) == a \div PageSize

Region(base, end) == [base |-> base, size |-> end - base]
REnd(r) == r.base + r.size
NoRegions == <<[base |-> 0, size |-> 0]>>
Overflow == <<>>

-----------------------------------------------------------------------------
(* memblock_add_range, second pass: the parts of [base, end) between the   *)
(* regions that overlap it, each inserted before the region it precedes.   *)
InsertRegions(regions, base, end) ==
  LET part(b, e) == IF b < e THEN <<Region(b, e)>> ELSE <<>>
      rest[k \in 1 .. Len(regions) + 1, b \in 0 .. PhysMax] ==
        IF k > Len(regions) THEN part(b, end)
        ELSE LET r == regions[k]
             IN  IF r.base >= end
                 THEN part(b, end) \o SubSeq(regions, k, Len(regions))
                 ELSE IF REnd(r) <= b THEN <<r>> \o rest[k + 1, b]
                 ELSE part(b, r.base) \o <<r>> \o rest[k + 1, Lesser(REnd(r), end)]
  IN  rest[1, base]

(* memblock_merge_regions: a region that starts where the one before it    *)
(* ends becomes part of it.                                                *)
MergeRegions(regions) ==
  LET merge(m, r) == IF m # <<>> /\ REnd(Last(m)) = r.base
                     THEN Append(Front(m), Region(Last(m).base, REnd(r)))
                     ELSE Append(m, r)
  IN  FoldLeft(merge, <<>>, regions)

AddRange(regions, base, size) ==
  LET end == base + Lesser(size, PhysMax - base)
      new == InsertRegions(regions, base, end)
  IN  IF end = base THEN regions
      ELSE IF regions[1].size = 0 THEN <<Region(base, end)>>
      ELSE IF Len(new) = Len(regions) THEN regions
      ELSE IF Len(new) > MaxRegions THEN Overflow
      ELSE MergeRegions(new)

-----------------------------------------------------------------------------
(* Gap b of the reserved array: what lies before its region b (0-based), or *)
(* after its last region.                                                  *)
GapStart(b) == IF b = 0 THEN 0 ELSE REnd(reserved[b])
GapEnd(b)   == IF b < Len(reserved) THEN reserved[b + 1].base ELSE PhysMax
Common(a, b) == [start |-> Greater(memory[a].base, GapStart(b)),
                 end   |-> Lesser(REnd(memory[a]), GapEnd(b))]

\* Mutant of FreeRanges: at most one range of each memory region.
FreeRangesFirst ==
  LET next[a \in 1 .. Len(memory) + 1, b \in 0 .. Len(reserved) + 1] ==
        IF a > Len(memory) THEN <<>>
        ELSE IF b > Len(reserved) THEN next[a + 1, b]
        ELSE IF GapStart(b) >= REnd(memory[a]) THEN next[a + 1, b]
        ELSE IF memory[a].base < GapEnd(b) THEN <<Common(a, b)>> \o next[a + 1, b]
        ELSE next[a, b + 1]
  IN  next[1, 0]

(* for_each_free_mem_range: __next_mem_range, called until it signals the  *)
(* end, walks the memory regions (idx_a) and the gaps (idx_b) upwards.     *)
FreeRanges ==
  LET next[a \in 1 .. Len(memory) + 1, b \in 0 .. Len(reserved) + 1] ==
        IF a > Len(memory) THEN <<>>
        ELSE IF b > Len(reserved) THEN next[a + 1, b]
        ELSE IF GapStart(b) >= REnd(memory[a]) THEN next[a + 1, b]
        ELSE IF memory[a].base < GapEnd(b)
        THEN <<Common(a, b)>> \o (IF REnd(memory[a]) <= GapEnd(b)
                                  THEN next[a + 1, b] ELSE next[a, b + 1])
        ELSE next[a, b + 1]
  IN  next[1, 0]

(* for_each_free_mem_range_reverse: __next_mem_range_rev, downwards.       *)
FreeRangesReverse ==
  LET next[a \in 0 .. Len(memory), b \in -1 .. Len(reserved)] ==
        IF a = 0 THEN <<>>
        ELSE IF b < 0 THEN next[a - 1, b]
        ELSE IF GapEnd(b) <= memory[a].base THEN next[a - 1, b]
        ELSE IF REnd(memory[a]) > GapStart(b)
        THEN <<Common(a, b)>> \o (IF memory[a].base >= GapStart(b)
                                  THEN next[a - 1, b] ELSE next[a, b - 1])
        ELSE next[a, b - 1]
  IN  next[Len(memory), Len(reserved)]

(* __memblock_find_range_top_down between PAGE_SIZE and the limit: the end *)
(* of the first range, from above, that holds an aligned block; 0 if none. *)
FindTopDown(size, align) ==
  LET ranges == FreeRangesReverse
      lo(k) == Clamp(ranges[k].start, PageSize, PhysMax)
      hi(k) == Clamp(ranges[k].end, PageSize, PhysMax)
      cand(k) == RoundDown(hi(k) - size, align)
      fits == {k \in DOMAIN ranges : hi(k) >= size /\ cand(k) >= lo(k)}
  IN  IF fits = {} THEN 0
      ELSE cand(CHOOSE k \in fits : \A j \in fits : k <= j)

(* memblock_reserve; panic("overflow") when the array is full.             *)
Reserve(base, size) ==
  LET new == AddRange(reserved, base, size)
  IN  IF new = Overflow
      THEN phase' = "panic" /\ UNCHANGED reserved
      ELSE reserved' = new /\ UNCHANGED phase

\* Mutant of MemblockAlloc: what was found is not reserved.
MemblockAllocFree(size, align, next, fail) ==
  LET found == FindTopDown(size, IF align = 0 THEN CacheBytes ELSE align)
  IN  /\ UNCHANGED <<memory, stopped, reserved>>
      /\ phase' = IF found = 0 THEN fail ELSE next
      /\ got' = IF found = 0 THEN got
                ELSE got \cup {[base |-> found, size |-> size, align |-> align]}

(* memblock_alloc_range_nid: find and reserve; the caller goes on to phase *)
(* `next', or to `fail' when it gets 0.                                    *)
MemblockAlloc(size, align, next, fail) ==
  LET found == FindTopDown(size, IF align = 0 THEN CacheBytes ELSE align)
      new   == AddRange(reserved, found, size)
  IN  /\ UNCHANGED <<memory, stopped>>
      /\ IF stopped \/ (found # 0 /\ new = Overflow)
         THEN phase' = "panic" /\ UNCHANGED <<reserved, got>>
         ELSE /\ phase' = IF found = 0 THEN fail ELSE next
              /\ reserved' = IF found = 0 THEN reserved ELSE new
              /\ got' = IF found = 0 THEN got
                        ELSE got \cup {[base |-> found, size |-> size, align |-> align]}

-----------------------------------------------------------------------------
MemblockInit ==
  /\ memory = NoRegions /\ reserved = NoRegions
  /\ stopped = FALSE /\ got = {} /\ calls = 0
  /\ phase = "memory"

(* memblock's init_module adds the memory of the device tree, then         *)
(* reserves the kernel image; other callers reserve and allocate more.     *)
Add ==
  /\ phase = "memory" /\ calls < MaxCalls
  /\ \E r \in MemRanges :
       LET new == AddRange(memory, r[1], r[2])
       IN  IF new = Overflow
           THEN phase' = "panic" /\ UNCHANGED memory
           ELSE memory' = new /\ UNCHANGED phase
  /\ calls' = calls + 1
  /\ UNCHANGED <<reserved, stopped, got>>

ReserveKernel ==
  /\ phase = "memory" /\ memory # NoRegions
  /\ \E r \in ResRanges :
       /\ reserved' = AddRange(reserved, r[1], r[2])
       /\ phase' = "memblock"
  /\ UNCHANGED <<memory, stopped, got, calls>>

ReserveMore ==
  /\ phase = "memblock" /\ calls < MaxCalls
  /\ \E r \in ResRanges : Reserve(r[1], r[2])
  /\ calls' = calls + 1
  /\ UNCHANGED <<memory, stopped, got>>

Alloc ==
  /\ phase = "memblock" /\ calls < MaxCalls
  /\ \E q \in Requests : MemblockAlloc(q[1], q[2], phase, phase)
  /\ calls' = calls + 1

MemblockNext == Add \/ ReserveKernel \/ ReserveMore \/ Alloc

-----------------------------------------------------------------------------
(* Properties                                                              *)

Span(base, size)  == base .. base + size - 1
Bytes(regions) == UNION {Span(regions[k].base, regions[k].size) : k \in DOMAIN regions}

\* Each array stays sorted, with a gap between any two regions and no empty
\* region but the one of an empty array: what the iterators and the merge of
\* memblock_add_range rely on.
Canonical(regions) ==
  /\ Len(regions) \in 1 .. MaxRegions
  /\ regions # NoRegions => \A k \in DOMAIN regions : regions[k].size > 0
  /\ \A k \in 1 .. Len(regions) - 1 : REnd(regions[k]) < regions[k + 1].base
RegionsCanonical == Canonical(memory) /\ Canonical(reserved)

\* Both arrays stay canonical, and the free ranges the two iterators produce
\* are exactly the memory that is not reserved, each byte once, in ascending
\* and in descending order (memblock_add_range, __next_mem_range and _rev).
IteratorsExact ==
  /\ RegionsCanonical
  /\ phase # "memory" =>
       LET up == FreeRanges
           down == FreeRangesReverse
           ranges == {[base |-> r.start, size |-> r.end - r.start] : r \in ToSet(up)}
       IN  /\ down = Reverse(up)
           /\ UNION {Span(r.base, r.size) : r \in ranges} = Bytes(memory) \ Bytes(reserved)
           /\ \A k \in DOMAIN up : up[k].start < up[k].end
           /\ \A k \in 1 .. Len(up) - 1 : up[k].end <= up[k + 1].start

\* What memblock_alloc has handed out lies in memory, stays reserved, is
\* aligned and never overlaps another allocation.
AllocDisjoint ==
  /\ \A g \in got : /\ Span(g.base, g.size) \subseteq Bytes(memory) \cap Bytes(reserved)
                    /\ g.align # 0 => g.base % g.align = 0
  /\ \A g, h \in got : g # h => Span(g.base, g.size) \cap Span(h.base, h.size) = {}

=============================================================================
