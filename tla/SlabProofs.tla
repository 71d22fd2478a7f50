----------------------------- MODULE SlabProofs -----------------------------
(***************************************************************************)
(* Theorems about Slab, for every number of pages, slab size, array cache  *)
(* limit and freelist placement.                                           *)
(***************************************************************************)
EXTENDS SlabOwner, SlabLists, FiniteSetTheorems

-----------------------------------------------------------------------------
(* The invariant *)

\* If some object of a slab is not on its freelist, the slab has an active
\* object: an injective freelist of Num entries would name every object.
LEMMA SomeActive ==
  ASSUME SlabInv, NEW p \in Grown, NEW x \in Idx, x \notin FreeIn(p)
  PROVE  page[p].active \in 1 .. Num
<1>1. p \in Pages /\ page[p].active \in 0 .. Num
  BY DEF SlabInv, TypeOK, PageOK, Grown
<1>2. SUFFICES ASSUME page[p].active = 0 PROVE FALSE
  BY <1>1, SlabAssumption
<1> DEFINE f == page[p].fl
<1>3. f \in [Idx -> Idx \ {x}]
  <2>1. f \in [Idx -> Idx]
    BY SMTT(60), <1>1, <1>2 DEF SlabInv, TypeOK, PageOK, Idx
  <2>2. \A k \in Idx : f[k] # x
    BY <1>2 DEF FreeIn, Idx
  <2> QED
    BY SMTT(60), <2>1, <2>2
<1>4. IsFiniteSet(Idx) /\ Cardinality(Idx) = Num
  BY FS_Interval, SlabAssumption DEF Idx
<1>5. IsFiniteSet(Idx \ {x}) /\ Cardinality(Idx \ {x}) = Num - 1
  BY <1>4, FS_RemoveElement
<1>6. \E j, k \in Idx : j # k /\ f[j] = f[k]
  <2> HIDE DEF f
  <2>1. Cardinality(Idx \ {x}) < Cardinality(Idx)
    BY SMTT(60), <1>4, <1>5, SlabAssumption
  <2> QED
    BY SMTT(60), <1>3, <1>4, <1>5, <2>1, FS_PigeonHole
<1> QED
  BY SMTT(60), <1>2, <1>6 DEF SlabInv, OneOwner, Idx

\* A fresh cache satisfies the invariant.
LEMMA InitInv == Init => SlabInv
<1> SUFFICES ASSUME Init PROVE SlabInv
  OBVIOUS
<1> USE SlabAssumption
<1>1. Grown = {} /\ \A p \in Pages : page[p] = NoSlab
  BY DEF Init, Grown, NoSlab
<1>2. PageOK(NoSlab)
  BY DEF PageOK, NoSlab, Empty, NULL
<1>3. TypeOK
  BY <1>1, <1>2 DEF Init, TypeOK, PCs, Empty
<1>4. Locals /\ NoBug /\ FreelistStorage
  BY <1>1 DEF Init, Locals, NoBug, FreelistStorage
<1>5. ListsMatch
  BY <1>1 DEF Init, ListsMatch, Distinct, InList, Listed
<1>6. InCache = {} /\ InPrev = {} /\ InHand = {}
  BY DEF Init, InCache, InPrev, PrevLive, InHand
<1>7. OneOwner
  BY <1>1, <1>6 DEF Init, OneOwner, PrevLive
<1> QED
  BY Zenon, <1>3, <1>4, <1>5, <1>7 DEF SlabInv

\* The invariant holds in every reachable state of the cache.
THEOREM Invariance == Spec => []SlabInv
<1>1. SlabInv => Counted
  BY SomeActive DEF Counted
<1>2. SlabInv /\ [Next]_vars => SlabInv'
  BY Zenon, <1>1, TypeStep, OwnerStep, StorageStep, ListsStep DEF SlabInv
<1> QED
  BY InitInv, <1>2, PTL DEF Spec

\* kmalloc and kfree keep the array cache within its limit and every page,
\* list and local of its type, for every slab size and array limit.
THEOREM TypeCorrect == Spec => []TypeOK
<1>1. SlabInv => TypeOK
  BY DEF SlabInv
<1> QED
  BY Invariance, <1>1, PTL

\* No object is ever handed out twice, on a freelist twice, or lost.
THEOREM OneOwnerAlways == Spec => []OneOwner
<1>1. SlabInv => OneOwner
  BY DEF SlabInv
<1> QED
  BY Invariance, <1>1, PTL

\* The freelist of an OBJFREELIST slab always lives in a free object, the last
\* one that will be allocated.
THEOREM FreelistNeverOverwritten == Spec => []FreelistStorage
<1>1. SlabInv => FreelistStorage
  BY DEF SlabInv
<1> QED
  BY Invariance, <1>1, PTL

\* Each slab is on exactly the list its active count says.
THEOREM ListsAlwaysMatch == Spec => []ListsMatch
<1>1. SlabInv => ListsMatch
  BY DEF SlabInv
<1> QED
  BY Invariance, <1>1, PTL

\* No BUG_ON of cache_alloc_refill and alloc_block can fire.
THEOREM NeverBug == Spec => []NoBug
<1>1. SlabInv => NoBug
  BY DEF SlabInv
<1> QED
  BY Invariance, <1>1, PTL

\* The objects of the pages handed to the cache.
GrownObjects == {o \in Objects : o[1] \in Grown}
StockExact == Stock = GrownObjects \ held

\* What the cache keeps is every object of its pages that no caller has.
LEMMA StockIs == SlabInv => StockExact
<1> SUFFICES ASSUME SlabInv PROVE Stock = GrownObjects \ held
  BY DEF StockExact
<1>1. held \subseteq Objects /\ InCache \subseteq Objects /\ InPrev \subseteq Objects
  BY Zenon DEF SlabInv, TypeOK, InCache, InPrev, PrevLive
<1>2. InHand \subseteq Objects
  BY DEF SlabInv, Locals, InHand
<1>3. \A o \in Objects : o \in held \cup InCache \cup InPrev \cup InHand
                           <=> o[1] \in Grown /\ o[2] \notin FreeIn(o[1])
  <2> SUFFICES ASSUME NEW p \in Pages, NEW x \in Idx
      PROVE  <<p, x>> \in held \cup InCache \cup InPrev \cup InHand
               <=> p \in Grown /\ x \notin FreeIn(p)
    BY DEF Objects
  <2> QED BY DEF SlabInv, OneOwner
<1>4. held \cap InCache = {} /\ held \cap InPrev = {} /\ held \cap InHand = {}
  BY DEF SlabInv, OneOwner
<1> HIDE DEF SlabInv
<1> QED
  BY <1>1, <1>2, <1>3, <1>4, Zenon DEF Stock, OnFreelist, GrownObjects

\* One array entry handed out was held by nobody.
LEMMA PopTakes ==
  ASSUME SlabInv, pc \notin {"flush", "tune"}, avail > 0, Pop
  PROVE  \E o \in GrownObjects \ held : held' = held \cup {o}
<1> DEFINE o == entry[avail - 1]
<1>1. avail - 1 \in 0 .. avail - 1 /\ Live(avail - 1)
  BY SMTT(60), SlabAssumption DEF SlabInv, TypeOK, Live
<1>2. o \in Objects /\ o \in InCache
  BY Zenon, <1>1 DEF SlabInv, TypeOK, InCache
<1>3. o \in Stock
  BY <1>2 DEF Stock
<1> QED
  BY Zenon, <1>3, StockIs DEF Pop, StockExact

\* Only cache_grow_begin hands pages to the cache.
LEMMA GrownStep ==
  ASSUME SlabInv, [Next]_vars
  PROVE  Grown \subseteq Grown' /\ (pc # "direct_grow" \/ avail > 0 => Grown' = Grown)
<1> USE DEF ac, lists, cnt, alloc, free
<1>0. DOMAIN page = Pages
  BY DEF SlabInv, TypeOK
<1>1. CASE RefillSlab
  BY SMTT(60), <1>0, <1>1, FirstSlabFacts DEF RefillSlab, FixupPage, Grown, SlabInv
<1>2. CASE GrowBegin
  BY SMTT(60), <1>0, <1>2 DEF GrowBegin, CacheInitObjs, Grown, SlabInv, TypeOK
<1>3. CASE GrowEnd
  BY <1>0, <1>3 DEF GrowEnd, FixupPage, Grown
<1>4. CASE FreeBlock
  BY Zenon, <1>0, <1>4 DEF FreeBlock, SlabPutObj, Grown
<1>5. ASSUME page' = page PROVE Grown' = Grown
  BY <1>5 DEF Grown
<1>6. CASE \/ CacheAlloc \/ CacheAllocEmpty \/ RefillStart \/ RefillDone
           \/ RefillReturn \/ GrowReturn \/ CacheFree \/ CacheFreeFull
           \/ TuneCpucache \/ FlushDone \/ TuneDone \/ UNCHANGED vars
  BY Zenon, <1>5, <1>6 DEF CacheAlloc, CacheAllocEmpty, RefillStart, RefillDone,
     RefillReturn, GrowReturn, CacheFree, CacheFreeFull, TuneCpucache, FlushDone,
     TuneDone, vars
<1> QED
  BY Zenon, <1>1, <1>2, <1>3, <1>4, <1>6 DEF Next, RefillStep, FreeStep, Halted

\* The cache implements the abstract allocator: kmalloc hands out only objects
\* in stock, whatever refilling, growing, flushing and tuning go on, and no
\* object given back is lost.
THEOREM Refinement == Spec => ImplementsAllocator
<1>1. Init => Abstract!Init
  BY DEF Init, Abstract!Init, Stock, InCache, InPrev, InHand, OnFreelist, PrevLive,
     Grown, NoSlab
<1>2. SlabInv /\ SlabInv' /\ [Next]_vars => [Abstract!Next]_<<held, Stock>>
  <2> SUFFICES ASSUME SlabInv, SlabInv', [Next]_vars
               PROVE  [Abstract!Next]_<<held, Stock>>
    OBVIOUS
  <2> USE DEF ac, lists, cnt, alloc, free
  <2>1. Stock = GrownObjects \ held /\ Stock' = GrownObjects' \ held'
    <3>1. StockExact /\ StockExact'
      BY StockIs, PTL
    <3> QED BY <3>1 DEF StockExact
  <2>2. Grown \subseteq Grown' /\ (pc # "direct_grow" \/ avail > 0 => Grown' = Grown)
    BY GrownStep
  <2>3. GrownObjects \subseteq GrownObjects' /\ GrownObjects' \subseteq Objects
    BY <2>2 DEF GrownObjects, Objects
  <2>4. ASSUME pc # "direct_grow" \/ avail > 0 PROVE GrownObjects' = GrownObjects
    BY <2>2, <2>4 DEF GrownObjects, Objects
  <2>5. held \subseteq GrownObjects
    <3>1. ASSUME NEW p \in Pages, NEW x \in Idx, <<p, x>> \in held PROVE p \in Grown
      BY ZenonT(60), <3>1 DEF SlabInv, OneOwner
    <3>2. held \subseteq Objects
      BY DEF SlabInv, TypeOK
    <3>3. ASSUME NEW o \in held PROVE o \in GrownObjects
      <4>1. PICK p \in Pages, x \in Idx : o = <<p, x>>
        BY <3>2 DEF Objects
      <4> QED BY SMTT(60), <3>1, <3>2, <4>1 DEF GrownObjects
    <3> QED BY <3>3
  <2> HIDE DEF SlabInv
  <2>6. ASSUME \E o \in GrownObjects \ held : held' = held \cup {o},
               GrownObjects' = GrownObjects
        PROVE  Abstract!Alloc
    BY SMTT(60), <2>1, <2>6 DEF Abstract!Alloc
  <2>7. CASE CacheAlloc
    BY Zenon, <2>4, <2>6, <2>7, PopTakes DEF CacheAlloc, Abstract!Next
  <2>8. CASE RefillReturn
    BY Zenon, <2>4, <2>6, <2>8, PopTakes DEF RefillReturn, Abstract!Next
  <2>9. ASSUME held' = held PROVE [Abstract!Next]_<<held, Stock>>
    <3> DEFINE fresh == GrownObjects' \ GrownObjects
    <3>1. Stock' = Stock \cup fresh
      BY Zenon, <2>1, <2>3, <2>5, <2>9
    <3>2. fresh \in SUBSET (Objects \ (held \cup Stock))
      BY Zenon, <2>1, <2>3, <2>5
    <3> HIDE DEF fresh
    <3> QED BY Zenon, <2>9, <3>1, <3>2 DEF Abstract!Next, Abstract!Grow
  <2>10. CASE GrowReturn
    BY ZenonT(60), <2>4, <2>6, <2>9, <2>10, PopTakes DEF GrowReturn, Abstract!Next
  <2>11. CASE CacheFree \/ CacheFreeFull
    <3>1. PICK o \in held : held' = held \ {o}
      BY <2>11 DEF CacheFree, CacheFreeFull
    <3>2. GrownObjects' = GrownObjects
      BY <2>4, <2>11 DEF CacheFree, CacheFreeFull
    <3>3. Stock' = Stock \cup {o}
      BY Zenon, <2>1, <2>5, <3>1, <3>2
    <3> QED BY SMTT(60), <3>1, <3>3 DEF Abstract!Next, Abstract!Free
  <2>12. ASSUME \/ CacheAllocEmpty \/ RefillStart \/ RefillSlab \/ RefillDone
                \/ GrowBegin \/ GrowEnd \/ TuneCpucache \/ FreeStep \/ UNCHANGED vars
         PROVE  held' = held
    BY Zenon, <2>12 DEF CacheAllocEmpty, RefillStart, RefillSlab, RefillDone, GrowBegin,
       GrowEnd, TuneCpucache, FreeStep, FreeBlock, FlushDone, TuneDone, vars
  <2> QED
    BY Zenon, <2>7, <2>8, <2>9, <2>10, <2>11, <2>12 DEF Next, RefillStep, Halted
<1> QED
  BY <1>1, <1>2, Invariance, PTL DEF Spec, ImplementsAllocator, Abstract!Spec

-----------------------------------------------------------------------------
(* The counters of kmem_cache_node                                         *)

\* A freelist names no object twice.
OneToOne(pg) == \A j, k \in pg.active .. Num - 1 : pg.fl[j] = pg.fl[k] => j = k

\* Finitely many slabs have finitely many free objects.
LEMMA FreeSetFinite ==
  ASSUME NEW L, IsFiniteSet(L), NEW pg
  PROVE  IsFiniteSet(FreeSet(L, pg))
<1>1. IsFiniteSet(Idx)
  BY FS_Interval, SlabAssumption DEF Idx
<1>2. IsFiniteSet(L \X Idx)
  BY <1>1, FS_Product
<1>3. FreeSet(L, pg) \in SUBSET (L \X Idx)
  BY DEF FreeSet, Objects
<1> QED
  BY <1>2, <1>3, FS_Subset

\* A slab contributes the objects from `active' to the end of its freelist.
LEMMA PageCount ==
  ASSUME NEW L \in SUBSET Pages, IsFiniteSet(L), NEW p \in L, NEW pg,
         PageOK(pg[p]), OneToOne(pg[p])
  PROVE  Cardinality(FreeSet(L, pg))
           = Cardinality(FreeSet(L \ {p}, pg)) + (Num - pg[p].active)
<1> DEFINE a == pg[p].active
           D == a .. Num - 1
           f == [k \in D |-> <<p, pg[p].fl[k]>>]
           T == {f[k] : k \in D}
           R == FreeSet(L \ {p}, pg)
<1>1. a \in 0 .. Num /\ pg[p].fl \in [D -> Idx] /\ Num \in Nat
  BY Zenon, SlabAssumption DEF PageOK
<1>a. \A k \in D : f[k] = <<p, pg[p].fl[k]>> /\ f[k] \in Objects /\ f[k][1] = p
                  /\ f[k][2] = pg[p].fl[k]
  BY Zenon, <1>1 DEF Objects
<1>2. FreeSet(L, pg) = R \cup T
  <2> HIDE DEF f
  <2>1. ASSUME NEW o \in FreeSet(L, pg), o[1] = p PROVE o \in T
    <3>1. o \in Objects /\ o = <<p, o[2]>>
      BY <2>1 DEF FreeSet, Objects
    <3>2. PICK k \in D : pg[p].fl[k] = o[2]
      BY SMTT(60), <2>1 DEF FreeSet
    <3> QED
      BY <1>a, <3>1, <3>2
  <2>2. ASSUME NEW k \in D PROVE f[k] \in FreeSet(L, pg)
    BY <1>a DEF FreeSet
  <2>3. R = {o \in FreeSet(L, pg) : o[1] # p}
    BY DEF FreeSet
  <2> HIDE DEF R, D
  <2> QED
    BY <2>1, <2>2, <2>3
<1>3. R \cap T = {}
  <2>1. \A o \in R : o[1] # p
    BY DEF FreeSet
  <2> HIDE DEF R, f, D
  <2> QED
    BY SMTT(60), <1>a, <2>1
<1>4. IsFiniteSet(D) /\ Cardinality(D) = Num - a
  <2> HIDE DEF a
  <2>1. a \in Int /\ Num - 1 \in Int /\ a <= Num
    BY <1>1
  <2>2. IsFiniteSet(D) /\ Cardinality(D) = IF a > Num - 1 THEN 0 ELSE (Num - 1) - a + 1
    BY Zenon, <2>1, FS_Interval
  <2> HIDE DEF D
  <2> QED
    BY SMTT(60), <1>1, <2>1, <2>2
<1>5. IsFiniteSet(T) /\ Cardinality(T) = Num - a
  <2>1. f \in Bijection(D, T)
    <3>1. f \in Surjection(D, T)
      BY SMTT(60) DEF Surjection
    <3>2. \A j, k \in D : f[j] = f[k] => j = k
      BY DEF OneToOne
    <3> HIDE DEF f
    <3> QED
      BY Zenon, <3>1, <3>2 DEF Bijection, Injection, Surjection, IsInjective
  <2> QED
    BY ZenonT(60), <1>4, <2>1, FS_Bijection DEF ExistsBijection
<1>6. IsFiniteSet(R) /\ Cardinality(R) \in Nat
  BY FreeSetFinite, FS_RemoveElement, FS_CardinalityType, Zenon
<1> HIDE DEF T, R, a, D
<1>7. Cardinality(R \cup T) = Cardinality(R) + Cardinality(T) - Cardinality(R \cap T)
  BY SMTT(60), <1>5, <1>6, FS_Union
<1>8. Cardinality(R \cap T) = 0
  BY SMTT(60), <1>3, FS_EmptySet
<1>9. Cardinality(FreeSet(L, pg)) = Cardinality(R) + (Num - a)
  BY SMTT(60), <1>1, <1>2, <1>5, <1>6, <1>7, <1>8
<1> QED
  BY <1>9 DEF R, a

\* What the invariant says about the freelists of the slabs.
SlabsOK ==
  /\ Listed \subseteq Grown /\ Grown \subseteq Pages
  /\ \A p \in Grown : PageOK(page[p]) /\ OneToOne(page[p])

LEMMA PageFacts == SlabInv => SlabsOK
<1> SUFFICES ASSUME SlabInv PROVE SlabsOK
  OBVIOUS
<1>1. Listed \subseteq Grown /\ Grown \subseteq Pages
  BY DEF Listed, Grown
<1>2. \A p \in Grown : PageOK(page[p])
  BY ZenonT(60), <1>1 DEF SlabInv, TypeOK
<1>3. \A p \in Grown : OneToOne(page[p])
  BY DEF SlabInv, OneOwner, OneToOne
<1> QED
  BY SMTT(60), <1>1, <1>2, <1>3 DEF SlabsOK

\* One page changes, p, and is one of the slabs counted afterwards.
LEMMA OneSlab ==
  ASSUME SlabInv, SlabInv', IsFiniteSet(Grown'), NEW p \in Listed', Listed' = Listed \cup {p},
         \A q \in Pages : q # p => page'[q] = page[q]
  PROVE  Cardinality(FreeSet(Listed', page'))
           = Cardinality(FreeSet(Listed \ {p}, page)) + (Num - page'[p].active)
<1>1. SlabsOK'
  BY PageFacts, PTL
<1>2. Listed' \in SUBSET Pages /\ IsFiniteSet(Listed')
  BY SMTT(60), <1>1, FS_Subset DEF SlabsOK
<1>3. PageOK(page'[p]) /\ OneToOne(page'[p])
  BY <1>1 DEF SlabsOK
<1>4. FreeSet(Listed' \ {p}, page') = FreeSet(Listed \ {p}, page)
  <2>1. Listed' \ {p} = Listed \ {p}
    OBVIOUS
  <2> QED
    BY SMTT(60), <2>1, OtherPages
<1> HIDE DEF SlabInv
<1>5. Cardinality(FreeSet(Listed', page'))
        = Cardinality(FreeSet(Listed' \ {p}, page')) + (Num - page'[p].active)
  BY SMTT(60), <1>2, <1>3, PageCount
<1> QED
  BY <1>4, <1>5

\* The counters of a fresh cache.
LEMMA InitCounters == Init => CountersInv
<1> SUFFICES ASSUME Init PROVE CountersInv
  OBVIOUS
<1>1. Grown = {} /\ Listed = {}
  BY DEF Init, Grown, NoSlab, Listed
<1>2. FreeSet(Listed, page) = {}
  BY Zenon, <1>1 DEF FreeSet
<1> QED
  BY SMTT(60), <1>1, <1>2, FS_EmptySet DEF Init, CountersInv, Pending

\* What the steps of the counters need to know about sizes.
LEMMA StepCounts ==
  ASSUME SlabInv, SlabInv', CountersInv
  PROVE  Counts
<1>1. /\ IsFiniteSet(Grown) /\ Listed \subseteq Grown /\ Grown \subseteq Pages
      /\ IsFiniteSet(Listed) /\ Cardinality(FreeSet(Listed, page)) \in Nat
  <2>1. IsFiniteSet(Listed) /\ IsFiniteSet(Grown)
    BY CountFacts, FS_Subset
  <2> QED
    BY Zenon, <2>1, CountFacts, FreeSetFinite, FS_CardinalityType
<1>2. \A p \in Pages : IsFiniteSet(Grown \cup {p})
  BY Zenon, <1>1, FS_AddElement
<1>3. ASSUME NEW p \in Grown
      PROVE  /\ Cardinality(Grown \ {p}) \in Nat
             /\ Cardinality(Grown) = Cardinality(Grown \ {p}) + 1
  <2>1. Cardinality(Grown \ {p}) = Cardinality(Grown) - 1 /\ Cardinality(Grown) \in Nat
    BY Zenon, <1>1, FS_RemoveElement, FS_CardinalityType
  <2>2. Cardinality(Grown \ {p}) \in Nat
    BY Zenon, <1>1, FS_RemoveElement, FS_CardinalityType
  <2> QED
    BY SMTT(60), <2>1, <2>2
<1>4. ASSUME NEW p \in Listed', Grown' = Grown, Listed' = Listed \cup {p},
             \A q \in Pages : q # p => page'[q] = page[q]
      PROVE  Cardinality(FreeSet(Listed', page'))
               = Cardinality(FreeSet(Listed, page))
                 + (IF p \in Listed THEN page[p].active ELSE Num) - page'[p].active
  <2> DEFINE before == Cardinality(FreeSet(Listed, page))
             after  == Cardinality(FreeSet(Listed', page'))
             rest   == Cardinality(FreeSet(Listed \ {p}, page))
             a      == page[p].active
             b      == page'[p].active
  <2>1. after = rest + (Num - b)
    BY <1>1, <1>4, OneSlab, Zenon
  <2>2. SlabsOK /\ SlabsOK'
    BY PageFacts, PTL
  <2>3. b \in Nat /\ Num \in Nat /\ before \in Nat
    BY SMTT(60), <1>1, <2>2, SlabAssumption DEF SlabsOK, PageOK
  <2>4. rest \in Nat
    <3>1. IsFiniteSet(Listed \ {p})
      BY Zenon, <1>1, FS_RemoveElement
    <3> QED
      BY Zenon, <3>1, FreeSetFinite, FS_CardinalityType
  <2>5. CASE p \in Listed
    <3>1. PageOK(page[p]) /\ OneToOne(page[p])
      BY Zenon, <1>1, <2>2, <2>5 DEF SlabsOK
    <3>2. before = rest + (Num - a)
      BY Zenon, <1>1, <2>5, <3>1, PageCount
    <3>3. a \in Nat
      BY <3>1, SlabAssumption DEF PageOK
    <3> HIDE DEF before, after, rest, a, b
    <3>4. after = before + a - b
      BY SMTT(60), <2>1, <2>3, <2>4, <3>2, <3>3
    <3> QED
      BY Zenon, <2>5, <3>4 DEF before, after, a, b
  <2>6. CASE p \notin Listed
    <3>1. Listed \ {p} = Listed
      BY <2>6
    <3>2. before = rest
      BY <3>1
    <3> HIDE DEF before, after, rest, a, b
    <3>3. after = before + Num - b
      BY Zenon, <2>1, <2>3, <2>4, <3>2
    <3> QED
      BY SMTT(60), <2>6, <3>3 DEF before, after, b
  <2> QED
    BY <2>5, <2>6
<1> QED
  BY Zenon, <1>1, <1>2, <1>3, <1>4 DEF Counts

\* Between calls free_objects, free_slabs and total_slabs are the number of free
\* objects, of free slabs and of slabs, for every slab size and array limit.
THEOREM CountersAlwaysMatch == Spec => []CountersMatch
<1>1. CountersInv => CountersMatch
  <2> SUFFICES ASSUME CountersInv, pc = "idle" PROVE CountersMatch
    BY DEF CountersMatch
  <2>1. Listed = Grown /\ Pending = 0
    BY DEF Listed, Pending
  <2>2. FreeSet(Grown, page) = OnFreelist
    BY DEF FreeSet, OnFreelist, FreeIn
  <2>3. Cardinality(FreeSet(Listed, page)) \in Nat
    BY Zenon, <2>1, FreeSetFinite, FS_CardinalityType DEF CountersInv
  <2> QED
    BY SMTT(60), <2>1, <2>2, <2>3 DEF CountersInv, CountersMatch
<1>2. SlabInv /\ SlabInv' /\ CountersInv /\ [Next]_vars => CountersInv'
  BY CountersStep, StepCounts, SomeActive DEF Counted
<1> QED
  BY <1>1, <1>2, InitCounters, Invariance, PTL DEF Spec
=============================================================================
