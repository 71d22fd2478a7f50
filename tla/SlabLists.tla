----------------------------- MODULE SlabLists ------------------------------
(***************************************************************************)
(* The proofs that every step of Slab keeps the freelist in a free object  *)
(* and each slab on the list its active count says.                        *)
(***************************************************************************)
EXTENDS SlabTypes

-----------------------------------------------------------------------------
(* The freelist inside a free object *)

\* FreelistStorage for one slab page.
StorageOK(g) ==
  IF ObjFreelist
  THEN g.freelist = IF g.active < Num THEN g.fl[Num - 1] ELSE NULL
  ELSE g.freelist = OnSlab

\* fixup_slab_list gives up the freelist exactly when the slab becomes full.
LEMMA FixupStorage ==
  ASSUME NEW p, PageOK(page[p]), StorageOK(page[p]),
         NEW active \in page[p].active .. Num
  PROVE  StorageOK(FixupPage(p, active))
<1> USE SlabAssumption
<1>1. page[p].active \in 0 .. Num /\ active \in 0 .. Num /\ page[p].active <= active
  BY DEF PageOK
<1>2. CASE active = Num
  BY <1>1, <1>2 DEF StorageOK, FixupPage
<1>3. CASE active # Num
  <2>1. active < Num /\ page[p].active < Num /\ Num - 1 \in active .. Num - 1
    BY <1>1, <1>3
  <2>2. FixupPage(p, active).fl[Num - 1] = page[p].fl[Num - 1]
    BY <2>1 DEF FixupPage
  <2>3. /\ FixupPage(p, active).active = active
        /\ FixupPage(p, active).freelist = page[p].freelist
    BY <1>3 DEF FixupPage
  <2> QED
    BY <2>1, <2>2, <2>3 DEF StorageOK
<1> QED
  BY <1>2, <1>3

\* slab_put_obj restores the freelist of a full slab inside the freed object,
\* which is then the last entry of the freelist.
LEMMA PutStorage ==
  ASSUME NEW p, PageOK(page[p]), StorageOK(page[p]), page[p].active \in 1 .. Num,
         NEW x \in Idx
  PROVE  StorageOK(SlabPutObj(p, x))
<1> USE SlabAssumption
<1> DEFINE a == page[p].active - 1
           g == SlabPutObj(p, x)
<1>1. /\ a \in 0 .. Num - 1 /\ Num - 1 \in a .. Num - 1 /\ g.active = a /\ a < Num
      /\ g.fl[Num - 1] = IF Num - 1 = a THEN x ELSE page[p].fl[Num - 1]
      /\ g.freelist = IF page[p].freelist = NULL THEN x ELSE page[p].freelist
  BY DEF SlabPutObj
<1>2. page[p].active < Num => page[p].fl[Num - 1] \in Idx
  BY DEF PageOK
<1>3. \A y \in Idx : y # NULL
  BY DEF Idx, NULL
<1>4. OnSlab # NULL
  BY DEF OnSlab, NULL
<1>5. (page[p].active < Num <=> Num - 1 # a)
  OBVIOUS
<1> HIDE DEF a, g
<1> QED
  BY <1>1, <1>2, <1>3, <1>4, <1>5 DEF StorageOK, g

\* A step that touches one page and leaves it well formed keeps the invariant.
LEMMA OnePage ==
  ASSUME FreelistStorage, NEW p \in Pages,
         \A q \in Pages : q # p => page'[q] = page[q],
         page'[p].slab => StorageOK(page'[p])
  PROVE  FreelistStorage'
BY DEF FreelistStorage, StorageOK, Grown

\* Every step keeps the freelist in a free object.
LEMMA StorageStep ==
  ASSUME SlabInv, Counted, [Next]_vars
  PROVE  FreelistStorage'
<1> USE SlabAssumption DEF ac, lists, cnt, alloc, free
<1>0. /\ TypeOK /\ Locals /\ FreelistStorage /\ DOMAIN page = Pages
      /\ batchcount \in 1 .. limit /\ limit \in Nat
      /\ \A p \in Pages : PageOK(page[p])
      /\ \A p \in Grown : p \in Pages /\ StorageOK(page[p])
  BY Zenon, BatchFits DEF SlabInv, TypeOK, FreelistStorage, StorageOK, Grown
<1>1. ASSUME page' = page PROVE FreelistStorage'
  BY Zenon, <1>0, <1>1 DEF FreelistStorage, Grown
<1>2. CASE RefillSlab
  <2> DEFINE p == FirstSlab
             active == page[p].active + AllocCount(p)
  <2>1. p \in Grown /\ p \in Pages /\ page[p].active \in 0 .. Num - 1
        /\ page[p].freelist # NULL
    BY Zenon, <1>0, <1>2, FirstSlabFacts DEF RefillSlab
  <2>2. page' = [page EXCEPT ![p] = FixupPage(p, active)]
    BY <1>2, <2>1 DEF RefillSlab
  <2>3. batch \in Int /\ batch > 0
    BY Zenon, <1>0, <1>2 DEF RefillSlab, TypeOK
  <2>4. active \in page[p].active .. Num
    BY <2>1, <2>3 DEF AllocCount, Min2
  <2> HIDE DEF active, p
  <2>5. StorageOK(FixupPage(p, active))
    BY <1>0, <2>1, <2>4, FixupStorage
  <2> QED
    BY <1>0, <2>1, <2>2, <2>5, OnePage
<1>3. CASE GrowBegin
  <2>1. ASSUME NEW p \in Pages, page' = [page EXCEPT ![p] = CacheInitObjs]
        PROVE  FreelistStorage'
    <3>1. StorageOK(CacheInitObjs)
      BY DEF CacheInitObjs, StorageOK, Idx
    <3> QED
      BY <1>0, <2>1, <3>1, OnePage
  <2> QED
    BY <1>1, <1>3, <2>1 DEF GrowBegin
<1>4. CASE GrowEnd
  <2>1. cur \in Grown /\ page[cur].active = 0 /\ avail = 0 /\ batch = batchcount
    BY <1>0, <1>4 DEF GrowEnd, Locals, CacheInitObjs, Grown
  <2>2. AllocCount(cur) \in page[cur].active .. Num /\ AllocCount(cur) # 0
    BY <1>0, <2>1 DEF AllocCount, Min2
  <2>3. page' = [page EXCEPT ![cur] = FixupPage(cur, AllocCount(cur))]
    BY <1>4, <2>1, <2>2 DEF GrowEnd
  <2>4. StorageOK(FixupPage(cur, AllocCount(cur)))
    BY Zenon, <1>0, <2>1, <2>2, FixupStorage
  <2> QED
    BY <1>0, <2>1, <2>3, <2>4, OnePage
<1>5. CASE FreeBlock
  <2> DEFINE p == Objpp[i][1]
             x == Objpp[i][2]
  <2>1. p \in Grown /\ p \in Pages /\ x \in Idx /\ page[p].active \in 1 .. Num
    BY Zenon, <1>0, <1>5, FreeBlockFacts DEF FreeBlock
  <2>2. page' = [page EXCEPT ![p] = SlabPutObj(p, x)]
    BY Zenon, <1>5 DEF FreeBlock
  <2> HIDE DEF p, x
  <2>3. StorageOK(SlabPutObj(p, x))
    BY <1>0, <2>1, PutStorage
  <2> QED
    BY Zenon, <1>0, <2>1, <2>2, <2>3, OnePage
<1>6. ASSUME \/ CacheAlloc \/ CacheAllocEmpty \/ RefillStart \/ RefillDone
             \/ RefillReturn \/ GrowReturn \/ CacheFree \/ CacheFreeFull
             \/ TuneCpucache \/ FlushDone \/ TuneDone \/ UNCHANGED vars
      PROVE  FreelistStorage'
  <2>1. page' = page
    BY Zenon, <1>6 DEF CacheAlloc, CacheAllocEmpty, RefillStart, RefillDone, RefillReturn,
       GrowReturn, CacheFree, CacheFreeFull, TuneCpucache, FlushDone, TuneDone, vars
  <2> QED
    BY <2>1, <1>1
<1> QED
  BY <1>2, <1>3, <1>4, <1>5, <1>6 DEF Next, RefillStep, FreeStep, Halted

-----------------------------------------------------------------------------
(* The slab lists *)

\* ListsMatch over explicit values: L is the set of listed pages.
Match(part, full, free0, L, pg) ==
  /\ Distinct(part) /\ Distinct(full) /\ Distinct(free0)
  /\ \A q \in Pages :
       /\ InList(part, q) <=> q \in L /\ pg[q].active \in 1 .. Num - 1
       /\ InList(full, q) <=> q \in L /\ pg[q].active = Num
       /\ InList(free0, q) <=> q \in L /\ pg[q].active = 0

\* ListsMatch is Match of the state.
LEMMA MatchState ==
  ListsMatch <=> Match(slabs_partial, slabs_full, slabs_free, Listed, page)
BY DEF ListsMatch, Match

\* The pages differ only in p.
OnlyPage(pg, new, p) == \A q \in Pages : q # p => new[q] = pg[q]

\* The lists are lists of pages.
PageLists(part, full, free0) ==
  part \in Seq(Pages) /\ full \in Seq(Pages) /\ free0 \in Seq(Pages)

\* What fixup_slab_list does with page p, which is not on the full list.
FixedUp(part, full, free0, pg, p, part2, full2, free2, new) ==
  /\ PageLists(part, full, free0)
  /\ p \in Pages /\ ~InList(full, p) /\ OnlyPage(pg, new, p)
  /\ new[p].active \in 1 .. Num
  /\ free2 = ListDel(free0, p)
  /\ new[p].active = Num => full2 = ListAdd(full, p) /\ part2 = ListDel(part, p)
  /\ new[p].active # Num => full2 = full /\ part2 = ListAdd(ListDel(part, p), p)

\* fixup_slab_list moves a slab that is not on the full list to the full or to
\* the partial list.
LEMMA FixupMatch ==
  ASSUME NEW part, NEW full, NEW free0, NEW L, NEW pg, NEW p,
         NEW part2, NEW full2, NEW free2, NEW new,
         Match(part, full, free0, L, pg),
         FixedUp(part, full, free0, pg, p, part2, full2, free2, new)
  PROVE  Match(part2, full2, free2, L \cup {p}, new)
<1>a. /\ part \in Seq(Pages) /\ full \in Seq(Pages) /\ free0 \in Seq(Pages)
      /\ p \in Pages /\ ~InList(full, p) /\ OnlyPage(pg, new, p)
      /\ new[p].active \in 1 .. Num
  BY Zenon DEF FixedUp, PageLists
<1> USE SlabAssumption, <1>a
<1> DEFINE part1 == ListDel(part, p)
           free1 == ListDel(free0, p)
<1>0. Distinct(part) /\ Distinct(full) /\ Distinct(free0)
  BY Zenon DEF Match
<1>1. /\ part1 \in Seq(Pages) /\ Distinct(part1)
      /\ \A q : InList(part1, q) <=> InList(part, q) /\ q # p
  BY Zenon, <1>0, ListDelType, ListDelIn, ListDelDistinct
<1>2. /\ free1 \in Seq(Pages) /\ Distinct(free1)
      /\ \A q : InList(free1, q) <=> InList(free0, q) /\ q # p
  BY Zenon, <1>0, ListDelType, ListDelIn, ListDelDistinct
<1> HIDE DEF part1, free1
<1>3. /\ \A q : InList(ListAdd(part1, p), q) <=> q = p \/ InList(part1, q)
      /\ Distinct(ListAdd(part1, p))
  BY Zenon, <1>1, ListAddFacts
<1>4. /\ \A q : InList(ListAdd(full, p), q) <=> q = p \/ InList(full, q)
      /\ Distinct(ListAdd(full, p))
  BY Zenon, <1>0, ListAddFacts
<1>5. CASE new[p].active = Num
  <2>1. Match(part1, ListAdd(full, p), free1, L \cup {p}, new)
    BY <1>5, <1>0, <1>1, <1>2, <1>4 DEF Match, OnlyPage
  <2> QED
    BY Zenon, <2>1, <1>5 DEF part1, free1, FixedUp
<1>6. CASE new[p].active # Num
  <2>1. Match(ListAdd(part1, p), full, free1, L \cup {p}, new)
    BY SMTT(60), <1>6, <1>0, <1>1, <1>2, <1>3 DEF Match, OnlyPage
  <2> QED
    BY Zenon, <2>1, <1>6 DEF part1, free1, FixedUp
<1> QED
  BY Zenon, <1>5, <1>6

\* What free_block does with page p, which has an active object.
PutBack(part, full, free0, pg, p, part2, full2, free2, new) ==
  /\ PageLists(part, full, free0)
  /\ p \in Pages /\ pg[p].active # 0 /\ OnlyPage(pg, new, p)
  /\ new[p].active \in 0 .. Num - 1
  /\ full2 = ListDel(full, p)
  /\ new[p].active = 0 => free2 = ListAdd(free0, p) /\ part2 = ListDel(part, p)
  /\ new[p].active # 0 => free2 = free0 /\ part2 = ListAddTail(ListDel(part, p), p)

\* free_block moves a slab with an active object to the partial or, when that
\* was the last one, to the free list.
LEMMA PutMatch ==
  ASSUME NEW part, NEW full, NEW free0, NEW L, NEW pg, NEW p,
         NEW part2, NEW full2, NEW free2, NEW new,
         Match(part, full, free0, L, pg), p \in L,
         PutBack(part, full, free0, pg, p, part2, full2, free2, new)
  PROVE  Match(part2, full2, free2, L, new)
<1>a. /\ part \in Seq(Pages) /\ full \in Seq(Pages) /\ free0 \in Seq(Pages)
      /\ p \in Pages /\ pg[p].active # 0 /\ OnlyPage(pg, new, p)
      /\ new[p].active \in 0 .. Num - 1
  BY Zenon DEF PutBack, PageLists
<1> USE SlabAssumption, <1>a
<1> DEFINE part1 == ListDel(part, p)
           full1 == ListDel(full, p)
<1>0. Distinct(part) /\ Distinct(full) /\ Distinct(free0) /\ ~InList(free0, p)
  BY Zenon DEF Match
<1>1. /\ part1 \in Seq(Pages) /\ Distinct(part1)
      /\ \A q : InList(part1, q) <=> InList(part, q) /\ q # p
  BY Zenon, <1>0, ListDelType, ListDelIn, ListDelDistinct
<1>2. /\ full1 \in Seq(Pages) /\ Distinct(full1)
      /\ \A q : InList(full1, q) <=> InList(full, q) /\ q # p
  BY Zenon, <1>0, ListDelType, ListDelIn, ListDelDistinct
<1> HIDE DEF part1, full1
<1>3. /\ \A q : InList(ListAddTail(part1, p), q) <=> q = p \/ InList(part1, q)
      /\ Distinct(ListAddTail(part1, p))
  BY Zenon, <1>1, ListAddTailFacts
<1>4. /\ \A q : InList(ListAdd(free0, p), q) <=> q = p \/ InList(free0, q)
      /\ Distinct(ListAdd(free0, p))
  BY Zenon, <1>0, ListAddFacts
<1>5. CASE new[p].active = 0
  <2>1. Match(part1, full1, ListAdd(free0, p), L, new)
    BY SMTT(60), <1>5, <1>0, <1>1, <1>2, <1>4 DEF Match, OnlyPage
  <2> QED
    BY Zenon, <2>1, <1>5 DEF part1, full1, PutBack
<1>6. CASE new[p].active # 0
  <2>1. Match(ListAddTail(part1, p), full1, free0, L, new)
    BY SMTT(60), <1>6, <1>0, <1>1, <1>2, <1>3 DEF Match, OnlyPage
  <2> QED
    BY Zenon, <2>1, <1>6 DEF part1, full1, PutBack
<1> QED
  BY Zenon, <1>5, <1>6

\* Every step keeps each slab on the list its active count says and reaches
\* none of the BUG_ONs.
LEMMA ListsStep ==
  ASSUME SlabInv, Counted, [Next]_vars
  PROVE  ListsMatch' /\ NoBug'
<1> USE SlabAssumption DEF ac, lists, cnt, alloc, free
<1>0. /\ TypeOK /\ Locals /\ ListsMatch /\ NoBug /\ DOMAIN page = Pages
      /\ batchcount \in 1 .. limit /\ limit \in Nat
      /\ slabs_partial \in Seq(Pages) /\ slabs_full \in Seq(Pages)
      /\ slabs_free \in Seq(Pages)
      /\ \A p \in Grown : p \in Pages
      /\ Match(slabs_partial, slabs_full, slabs_free, Listed, page)
  BY Zenon, BatchFits, MatchState DEF SlabInv, TypeOK, Grown
<1>n. ListsMatch' <=> Match(slabs_partial', slabs_full', slabs_free', Listed', page')
  BY Zenon DEF ListsMatch, Match
<1>2. CASE RefillSlab
  <2> DEFINE p == FirstSlab
             active == page[p].active + AllocCount(p)
  <2>1. p \in Grown /\ p \in Pages /\ p \in Listed /\ page[p].active \in 0 .. Num - 1
        /\ page[p].freelist # NULL /\ page[p].slab
    BY <1>0, <1>2, FirstSlabFacts DEF RefillSlab, Grown
  <2>2. /\ page' = [page EXCEPT ![p] = FixupPage(p, active)]
        /\ FixupLists(p, active) /\ pc' = pc /\ cur' = cur /\ pc = "refill"
    BY <1>2, <2>1 DEF RefillSlab
  <2>3. batch \in Int /\ batch > 0
    BY <1>0, <1>2 DEF RefillSlab, TypeOK
  <2>4. active \in 1 .. Num
    BY <2>1, <2>3 DEF AllocCount, Min2
  <2> HIDE DEF active, p
  <2>5. page'[p].active = active /\ page'[p].slab = page[p].slab
    BY <1>0, <2>1, <2>2 DEF FixupPage
  <2>6. OnlyPage(page, page', p)
    BY <1>0, <2>2 DEF OnlyPage
  <2>7. ~InList(slabs_full, p)
    BY <1>0, <2>1 DEF ListsMatch
  <2>8. Listed' = Listed \cup {p}
    <3>1. Grown' = Grown
      BY Zenon, <2>1, <2>5, <2>6 DEF Grown, OnlyPage
    <3> QED
      BY <3>1, <2>1, <2>2 DEF Listed
  <2>9. Match(slabs_partial', slabs_full', slabs_free', Listed \cup {p}, page')
    <3>1. FixedUp(slabs_partial, slabs_full, slabs_free, page, p,
                  slabs_partial', slabs_full', slabs_free', page')
      BY <1>0, <2>1, <2>2, <2>4, <2>5, <2>6, <2>7 DEF FixupLists, FixedUp, PageLists
    <3> QED
      BY <1>0, <3>1, FixupMatch
  <2> QED
    BY <1>0, <1>n, <2>2, <2>8, <2>9 DEF NoBug
<1>3. CASE GrowBegin
  <2>0. pc = "direct_grow" /\ lists' = lists
    BY <1>3 DEF GrowBegin
  <2>1. ASSUME NEW p \in Pages \ Grown, page' = [page EXCEPT ![p] = CacheInitObjs],
               cur' = p, pc' = "grow_end"
        PROVE  ListsMatch' /\ NoBug'
    <3>1. page'[p].slab /\ OnlyPage(page, page', p)
      BY <1>0, <2>1 DEF CacheInitObjs, OnlyPage
    <3>2. Grown' = Grown \cup {p}
      BY <2>1, <3>1 DEF Grown, OnlyPage
    <3>3. Listed' = Grown /\ Listed = Grown
      BY <2>0, <2>1, <3>2 DEF Listed
    <3>4. Match(slabs_partial, slabs_full, slabs_free, Grown, page')
      BY <1>0, <2>1, <3>1, <3>3 DEF Match, OnlyPage
    <3> QED
      BY <1>n, <2>0, <2>1, <3>3, <3>4 DEF NoBug
  <2>2. ASSUME page' = page, pc' = "panic" PROVE ListsMatch' /\ NoBug'
    <3>1. Listed' = Listed
      BY <2>0, <2>2 DEF Listed, Grown
    <3> QED
      BY <1>0, <1>n, <2>0, <2>2, <3>1 DEF NoBug
  <2> QED
    BY <1>3, <2>1, <2>2 DEF GrowBegin
<1>4. CASE GrowEnd
  <2>1. /\ cur \in Grown /\ cur \in Pages /\ page[cur].slab /\ page[cur].active = 0
        /\ avail = 0 /\ batch = batchcount /\ pc = "grow_end"
    BY <1>0, <1>4 DEF GrowEnd, Locals, CacheInitObjs, Grown
  <2> DEFINE active == AllocCount(cur)
  <2>2. active \in 1 .. Num
    BY <1>0, <2>1 DEF AllocCount, Min2
  <2>3. /\ page' = [page EXCEPT ![cur] = FixupPage(cur, active)]
        /\ FixupLists(cur, active) /\ pc' = "grow_return" /\ cur' = cur
    BY <1>4, <2>1, <2>2 DEF GrowEnd
  <2> HIDE DEF active
  <2>5. page'[cur].active = active /\ page'[cur].slab = page[cur].slab
    BY <1>0, <2>1, <2>3 DEF FixupPage
  <2>6. OnlyPage(page, page', cur)
    BY <1>0, <2>3 DEF OnlyPage
  <2>7. ~InList(slabs_full, cur)
    BY Zenon, <1>0, <2>1 DEF ListsMatch, Listed
  <2>8. Listed' = Listed \cup {cur}
    <3>1. Grown' = Grown
      BY Zenon, <2>1, <2>5, <2>6 DEF Grown, OnlyPage
    <3> QED
      BY <3>1, <2>1, <2>3 DEF Listed
  <2>9. Match(slabs_partial', slabs_full', slabs_free', Listed \cup {cur}, page')
    <3>1. FixedUp(slabs_partial, slabs_full, slabs_free, page, cur,
                  slabs_partial', slabs_full', slabs_free', page')
      BY <1>0, <2>1, <2>2, <2>3, <2>5, <2>6, <2>7 DEF FixupLists, FixedUp, PageLists
    <3> QED
      BY <1>0, <3>1, FixupMatch
  <2> QED
    BY <1>n, <2>3, <2>8, <2>9 DEF NoBug
<1>5. CASE FreeBlock
  <2> DEFINE p == Objpp[i][1]
             g == SlabPutObj(p, Objpp[i][2])
  <2>1. p \in Grown /\ p \in Pages /\ page[p].slab /\ page[p].active \in 1 .. Num
    BY Zenon, <1>0, <1>5, FreeBlockFacts DEF FreeBlock, Grown
  <2>2. /\ page' = [page EXCEPT ![p] = g] /\ pc' = pc /\ cur' = cur
        /\ pc \in {"flush", "tune"}
        /\ slabs_full' = ListDel(slabs_full, p)
        /\ g.active = 0 => /\ slabs_free' = ListAdd(slabs_free, p)
                           /\ slabs_partial' = ListDel(slabs_partial, p)
        /\ g.active # 0 => /\ slabs_partial' = ListAddTail(ListDel(slabs_partial, p), p)
                           /\ slabs_free' = slabs_free
    BY Zenon, <1>5 DEF FreeBlock
  <2>3. g.active = page[p].active - 1 /\ g.slab = page[p].slab
    BY Zenon DEF SlabPutObj
  <2> HIDE DEF g, p
  <2>4. page'[p] = g /\ OnlyPage(page, page', p)
    BY <1>0, <2>1, <2>2 DEF OnlyPage
  <2>5. Listed' = Listed /\ p \in Listed
    <3>1. Grown' = Grown
      BY Zenon, <2>1, <2>3, <2>4 DEF Grown, OnlyPage
    <3> QED
      BY <3>1, <2>1, <2>2 DEF Listed
  <2>6. page'[p].active \in 0 .. Num - 1 /\ page'[p].active = g.active
    BY <2>1, <2>3, <2>4
  <2>7. Match(slabs_partial', slabs_full', slabs_free', Listed, page')
    <3>1. PutBack(slabs_partial, slabs_full, slabs_free, page, p,
                  slabs_partial', slabs_full', slabs_free', page')
      BY <1>0, <2>1, <2>2, <2>4, <2>6 DEF PutBack, PageLists
    <3> QED
      BY <1>0, <2>5, <3>1, PutMatch
  <2> QED
    BY <1>0, <1>n, <2>2, <2>5, <2>7 DEF NoBug
<1>6. ASSUME \/ CacheAlloc \/ CacheAllocEmpty \/ RefillStart \/ RefillDone
             \/ RefillReturn \/ GrowReturn \/ CacheFree \/ CacheFreeFull
             \/ TuneCpucache \/ FlushDone \/ TuneDone \/ UNCHANGED vars
      PROVE  ListsMatch' /\ NoBug'
  <2>1. page' = page /\ lists' = lists /\ (pc = "grow_end" <=> pc' = "grow_end")
        /\ (pc = "grow_end" => cur' = cur)
    BY ZenonT(60), <1>6 DEF CacheAlloc, CacheAllocEmpty, RefillStart, RefillDone, RefillReturn,
       GrowReturn, CacheFree, CacheFreeFull, TuneCpucache, FlushDone, TuneDone, vars
  <2>2. pc' # "bug"
    <3>1. \/ pc' = pc \/ pc' \in {"refill_start", "direct_grow", "idle", "flush", "tune"}
          \/ RefillStart
      BY Zenon, <1>6 DEF CacheAlloc, CacheAllocEmpty, RefillDone, RefillReturn,
         GrowReturn, CacheFree, CacheFreeFull, TuneCpucache, FlushDone, TuneDone, vars
    <3>2. ASSUME RefillStart PROVE pc' # "bug"
      BY <1>0, <3>2 DEF RefillStart, Locals
    <3> QED
      BY <1>0, <3>1, <3>2 DEF NoBug
  <2>3. Listed' = Listed
    BY Zenon, <2>1 DEF Listed, Grown
  <2> QED
    BY <1>0, <1>n, <2>1, <2>2, <2>3 DEF NoBug
<1> QED
  BY <1>2, <1>3, <1>4, <1>5, <1>6 DEF Next, RefillStep, FreeStep, Halted
-----------------------------------------------------------------------------
(* The counters of kmem_cache_node                                         *)

\* The objects on the freelists of the slabs L, with the pages pg.
FreeSet(L, pg) ==
  {o \in Objects : o[1] \in L /\ \E k \in pg[o[1]].active .. Num - 1 : pg[o[1]].fl[k] = o[2]}

\* What free_objects is ahead of the freelists: cache_alloc_refill subtracts at
\* its end what it took, free_block adds at its start what it will put back.
Pending == IF pc = "refill" THEN avail ELSE IF pc \in {"flush", "tune"} THEN nr - i ELSE 0

\* The counters during a call.  kmem_cache_node counts a slab when
\* cache_grow_end lists it, which is after the slab was made.
CountersInv ==
  /\ IsFiniteSet(Grown)
  /\ total_slabs = Cardinality(Listed)
  /\ free_slabs = Len(slabs_free)
  /\ free_objects = Cardinality(FreeSet(Listed, page)) + Pending

\* What the steps below need to know about the sizes of sets; SlabProofs shows it
\* with the theorems on finite sets.  A slab that is not listed yet adds what is
\* on its freelist, a listed one the difference.
Counts ==
  /\ Cardinality(FreeSet(Listed, page)) \in Nat
  /\ \A p \in Pages : IsFiniteSet(Grown \cup {p})
  /\ \A p \in Grown : Cardinality(Grown \ {p}) \in Nat
                      /\ Cardinality(Grown) = Cardinality(Grown \ {p}) + 1
  /\ \A p \in Listed' :
       Grown' = Grown /\ Listed' = Listed \cup {p} /\ (\A q \in Pages : q # p => page'[q] = page[q])
       => Cardinality(FreeSet(Listed', page'))
            = Cardinality(FreeSet(Listed, page))
              + (IF p \in Listed THEN page[p].active ELSE Num) - page'[p].active

\* list_del takes one element off a list that has it.
LEMMA ListDelLen ==
  ASSUME NEW S, NEW s \in Seq(S), NEW p
  PROVE  Len(ListDel(s, p)) = IF InList(s, p) THEN Len(s) - 1 ELSE Len(s)
<1>1. CASE InList(s, p)
  <2>1. Len(s) \in Nat /\ Len(s) - 1 \in Nat
    BY <1>1 DEF InList
  <2> DEFINE c == CHOOSE k \in DOMAIN s : s[k] = p
             d == [j \in 1 .. Len(s) - 1 |-> IF j < c THEN s[j] ELSE s[j + 1]]
  <2>2. ListDel(s, p) = d
    BY <1>1 DEF InList, ListDel
  <2>3. ListDel(s, p) \in Seq(S)
    BY ListDelType
  <2>4. DOMAIN ListDel(s, p) = 1 .. Len(s) - 1
    BY <2>2
  <2> QED
    BY <1>1, <2>1, <2>3, <2>4
<1>2. CASE ~InList(s, p)
  BY <1>2 DEF InList, ListDel
<1> QED
  BY <1>1, <1>2

\* The other slabs do not notice a change of one page.
LEMMA OtherPages ==
  ASSUME NEW L, NEW p, NEW pg, NEW new, \A q \in Pages : q # p => new[q] = pg[q]
  PROVE  FreeSet(L \ {p}, new) = FreeSet(L \ {p}, pg)
<1>1. \A o \in Objects : o[1] \in L \ {p} => new[o[1]] = pg[o[1]]
  BY DEF Objects
<1> QED
  BY <1>1, Zenon DEF FreeSet

\* What the invariants say about the variables of the proofs below.
LEMMA CountTypes ==
  ASSUME SlabInv
  PROVE  /\ TypeOK /\ Locals /\ NoBug /\ DOMAIN page = Pages /\ slabs_free \in Seq(Pages)
         /\ avail \in Nat /\ nr \in Nat /\ i \in Nat /\ batchcount \in Nat /\ Num \in Nat
         /\ total_slabs \in Int /\ free_slabs \in Int /\ free_objects \in Int
<1>1. TypeOK /\ Locals /\ NoBug
  BY DEF SlabInv
<1>2. batchcount \in Nat
  BY <1>1, BatchFits
<1> QED
  BY <1>1, <1>2, SlabAssumption DEF TypeOK

LEMMA CountFacts ==
  ASSUME CountersInv
  PROVE  /\ IsFiniteSet(Grown) /\ total_slabs = Cardinality(Listed)
         /\ free_slabs = Len(slabs_free)
         /\ free_objects = Cardinality(FreeSet(Listed, page)) + Pending
         /\ Listed \subseteq Grown /\ Grown \subseteq Pages
BY DEF CountersInv, Listed, Grown

\* A step that leaves pages and lists alone and accounts for what is pending.
LEMMA Uncounted ==
  ASSUME CountersInv, Counts, TypeOK, UNCHANGED <<page, slabs_free, total_slabs, free_slabs>>,
         pc # "grow_end", pc' # "grow_end", Pending \in Int, Pending' \in Int,
         free_objects' = free_objects + Pending' - Pending
  PROVE  CountersInv'
<1>1. Grown' = Grown /\ Listed' = Listed
  BY DEF Grown, Listed
<1>2. FreeSet(Listed', page') = FreeSet(Listed, page)
  BY <1>1
<1> QED
  BY <1>1, <1>2 DEF CountersInv, Counts

\* The new slab of cache_grow_begin is not counted yet.
LEMMA GrowBeginCounts ==
  ASSUME SlabInv, CountersInv, Counts, GrowBegin
  PROVE  CountersInv'
<1> USE DEF ac, lists, cnt, alloc, free
<1>1. CASE Grown = Pages /\ pc' = "panic" /\ UNCHANGED <<page, cur>>
  BY CountTypes, <1>1, Uncounted DEF GrowBegin, Pending
<1>2. CASE \E p \in Pages \ Grown : page' = [page EXCEPT ![p] = CacheInitObjs]
                                   /\ cur' = p /\ pc' = "grow_end"
  <2>1. PICK p \in Pages \ Grown : page' = [page EXCEPT ![p] = CacheInitObjs]
                                  /\ cur' = p /\ pc' = "grow_end"
    BY <1>2, Zenon
  <2>2. Grown' = Grown \cup {p} /\ Listed' = Grown /\ Listed = Grown
    BY CountTypes, <2>1 DEF GrowBegin, Grown, Listed, CacheInitObjs
  <2>3. Grown \ {p} = Grown
    BY <2>1
  <2>4. FreeSet(Grown \ {p}, page') = FreeSet(Grown \ {p}, page)
    <3>1. \A q \in Pages : q # p => page'[q] = page[q]
      BY CountTypes, <2>1
    <3>2. \A o \in Objects : o[1] \in Grown \ {p} => page'[o[1]] = page[o[1]]
      BY <3>1 DEF Objects
    <3> QED
      BY <3>2, Zenon DEF FreeSet
  <2>5. FreeSet(Listed', page') = FreeSet(Listed, page)
    BY <2>2, <2>3, <2>4
  <2>6. IsFiniteSet(Grown')
    BY <2>1, <2>2 DEF Counts
  <2>7. Pending = 0 /\ Pending' = 0 /\ UNCHANGED <<cnt, slabs_free>>
    BY <2>1 DEF GrowBegin, Pending
  <2> QED
    BY CountFacts, <2>2, <2>5, <2>6, <2>7 DEF CountersInv
<1> QED
  BY <1>1, <1>2 DEF GrowBegin

\* cache_grow_end counts the slab and what alloc_block left on its freelist.
LEMMA GrowEndCounts ==
  ASSUME SlabInv, CountersInv, Counts, GrowEnd
  PROVE  CountersInv'
<1> USE DEF ac, lists, cnt, alloc, free
<1>1. /\ pc = "grow_end" /\ cur \in Pages /\ page[cur] = CacheInitObjs /\ avail = 0
      /\ batch = batchcount /\ pc' = "grow_return"
  BY SMTT(60), CountTypes DEF GrowEnd, Locals
<1>2. AllocCount(cur) \in 1 .. Num
  BY SMTT(60), CountTypes, <1>1, BatchFits, SlabAssumption DEF AllocCount, Min2, CacheInitObjs
<1>3. /\ page' = [page EXCEPT ![cur] = FixupPage(cur, AllocCount(cur))]
      /\ slabs_free' = ListDel(slabs_free, cur) /\ UNCHANGED free_slabs
      /\ free_objects' = free_objects + Num - AllocCount(cur)
      /\ total_slabs' = total_slabs + 1
  BY SMTT(60), <1>1, <1>2 DEF GrowEnd, FixupLists
<1>4. /\ page'[cur].active = AllocCount(cur) /\ page'[cur].slab
      /\ \A q \in Pages : q # cur => page'[q] = page[q]
  BY SMTT(60), CountTypes, <1>1, <1>3 DEF FixupPage, CacheInitObjs
<1>5. Listed = Grown \ {cur} /\ Grown' = Grown /\ Listed' = Grown /\ cur \in Grown
  BY SMTT(60), CountTypes, <1>1, <1>4 DEF Listed, Grown, CacheInitObjs
<1>6. Cardinality(FreeSet(Listed', page'))
        = Cardinality(FreeSet(Listed, page)) + Num - AllocCount(cur)
  <2>1. Listed' = Listed \cup {cur} /\ cur \in Listed' /\ cur \notin Listed
    BY <1>5
  <2> QED
    BY <1>4, <1>5, <2>1, Zenon DEF Counts
<1>7. Cardinality(Listed') = Cardinality(Listed) + 1
  BY <1>5 DEF Counts
<1>8. Len(slabs_free') = Len(slabs_free)
  <2>1. ~InList(slabs_free, cur)
    BY <1>1, <1>5 DEF SlabInv, ListsMatch
  <2> QED
    BY Zenon, CountTypes, <1>3, <2>1, ListDelLen
<1>9. Pending = 0 /\ Pending' = 0
  BY <1>1 DEF Pending
<1>10. Cardinality(FreeSet(Listed, page)) \in Nat
  BY DEF Counts
<1> QED
  BY SMTT(60), CountTypes, CountFacts, <1>2, <1>3, <1>5, <1>6, <1>7, <1>8, <1>9, <1>10 DEF CountersInv

\* A slab of the refill: what it gives becomes pending.
LEMMA RefillCounts ==
  ASSUME SlabInv, CountersInv, Counts, RefillSlab
  PROVE  CountersInv'
<1> USE DEF ac, lists, cnt, alloc, free
<1> DEFINE p == FirstSlab
           n == AllocCount(p)
<1>1. /\ pc = "refill" /\ batch > 0 /\ p # NoPage /\ p \in Grown /\ p \in Listed
      /\ page[p].active \in 0 .. Num - 1 /\ page[p].freelist # NULL
      /\ slabs_partial = <<>> => page[p].active = 0
      /\ slabs_partial # <<>> => page[p].active # 0
  BY Zenon, FirstSlabFacts DEF RefillSlab
<1>2. /\ AllocBlock(p) /\ page' = [page EXCEPT ![p] = FixupPage(p, page[p].active + n)]
      /\ slabs_free' = ListDel(slabs_free, p) /\ pc' = "refill"
      /\ free_slabs' = IF slabs_partial = <<>> THEN free_slabs - 1 ELSE free_slabs
      /\ UNCHANGED <<total_slabs, free_objects>>
  BY SMTT(60), CountTypes, <1>1 DEF RefillSlab, FixupLists
<1>3. n \in Int /\ avail' = avail + n
  <2>1. batch \in Int
    BY SMTT(60), CountTypes DEF TypeOK
  <2> QED
    <3>1. avail' = avail + n
      BY Zenon, <1>2 DEF AllocBlock
    <3>2. n \in Int
      BY SMTT(60), CountTypes, <1>1, <2>1 DEF AllocCount, Min2
    <3> QED
      BY Zenon, <3>1, <3>2
<1> HIDE DEF n
<1>4. /\ page'[p].active = page[p].active + n /\ page'[p].slab = page[p].slab
      /\ \A q \in Pages : q # p => page'[q] = page[q]
  BY SMTT(60), CountTypes, CountFacts, <1>1, <1>2 DEF FixupPage
<1>5. Grown' = Grown /\ Listed' = Listed /\ Listed = Grown
  BY SMTT(60), <1>1, <1>2, <1>4 DEF Listed, Grown
<1>6. /\ Cardinality(FreeSet(Listed', page'))
           = Cardinality(FreeSet(Listed, page)) + page[p].active - page'[p].active
      /\ Cardinality(FreeSet(Listed, page)) \in Nat
      /\ page[p].active \in Nat
  <2>1. Listed' = Listed \cup {p} /\ p \in Listed' /\ p \in Listed
    BY SMTT(60), <1>1, <1>5
  <2> HIDE DEF p
  <2> QED
    BY SMTT(60), <1>1, <1>4, <1>5, <2>1 DEF Counts
<1>7. free_slabs' = Len(slabs_free')
  <2>1. InList(slabs_free, p) <=> page[p].active = 0
    BY CountFacts, <1>1 DEF SlabInv, ListsMatch
  <2> QED
    BY Zenon, CountTypes, CountFacts, <1>1, <1>2, <2>1, ListDelLen
<1>8. Pending = avail /\ Pending' = avail + n
  BY <1>1, <1>2, <1>3 DEF Pending
<1>9. free_objects' = Cardinality(FreeSet(Listed', page')) + Pending'
  <2> DEFINE before == Cardinality(FreeSet(Listed, page))
             after  == Cardinality(FreeSet(Listed', page'))
             a      == page[p].active
  <2>1. after = before + a - (a + n) /\ before \in Int /\ a \in Int
    BY <1>4, <1>6
  <2>2. free_objects' = before + avail
    BY CountFacts, <1>2, <1>8
  <2>3. n \in Int /\ avail \in Int
    BY CountTypes, <1>3
  <2> HIDE DEF before, after, a
  <2>4. free_objects' = after + (avail + n)
    BY SMTT(60), <2>1, <2>2, <2>3
  <2> QED
    BY SMTT(60), <1>8, <2>4 DEF after
<1> QED
  BY SMTT(60), CountFacts, <1>2, <1>5, <1>7, <1>9 DEF CountersInv

\* An object of free_block: it was counted before, and is pending no longer.
LEMMA FreeBlockCounts ==
  ASSUME SlabInv, Counted, CountersInv, Counts, FreeBlock
  PROVE  CountersInv'
<1> USE DEF ac, lists, cnt, alloc, free
<1> DEFINE p == Objpp[i][1]
           put == SlabPutObj(p, Objpp[i][2])
<1>1. /\ pc \in {"flush", "tune"} /\ i < nr /\ p \in Grown /\ page[p].active \in 1 .. Num
  BY Zenon, FreeBlockFacts DEF FreeBlock
<1>2. /\ page' = [page EXCEPT ![p] = put] /\ put.active = page[p].active - 1
      /\ put.slab = page[p].slab
      /\ slabs_free' = IF put.active = 0 THEN ListAdd(slabs_free, p) ELSE slabs_free
      /\ free_slabs' = IF put.active = 0 THEN free_slabs + 1 ELSE free_slabs
      /\ i' = i + 1 /\ UNCHANGED <<total_slabs, free_objects, pc, nr>>
  BY Zenon DEF FreeBlock, SlabPutObj
<1> HIDE DEF put
<1>3. /\ page'[p].active = page[p].active - 1 /\ page'[p].slab = page[p].slab
      /\ \A q \in Pages : q # p => page'[q] = page[q]
  <2>1. p \in Pages
    BY Zenon, CountFacts, <1>1
  <2> HIDE DEF p
  <2> QED
    BY SMTT(60), CountTypes, <1>2, <2>1
<1>4. Grown' = Grown /\ Listed' = Listed /\ Listed = Grown
  BY <1>1, <1>2, <1>3, Zenon DEF Listed, Grown
<1>5. /\ Cardinality(FreeSet(Listed', page'))
           = Cardinality(FreeSet(Listed, page)) + page[p].active - page'[p].active
      /\ Cardinality(FreeSet(Listed, page)) \in Nat
      /\ page[p].active \in Nat
  <2>1. Listed' = Listed \cup {p} /\ p \in Listed' /\ p \in Listed
    BY SMTT(60), <1>1, <1>4
  <2> HIDE DEF p
  <2> QED
    BY SMTT(60), <1>1, <1>3, <1>4, <2>1 DEF Counts
<1>6. free_slabs' = Len(slabs_free')
  <2>1. Len(ListAdd(slabs_free, p)) = Len(slabs_free) + 1
    BY SMTT(60), CountTypes, CountFacts, <1>1 DEF ListAdd
  <2> QED
    BY SMTT(60), CountFacts, <1>2, <2>1
<1>7. Pending = nr - i /\ Pending' = nr - i - 1
  BY SMTT(60), CountTypes, <1>1, <1>2 DEF Pending
<1>8. free_objects' = Cardinality(FreeSet(Listed', page')) + Pending'
  <2> DEFINE before == Cardinality(FreeSet(Listed, page))
             after  == Cardinality(FreeSet(Listed', page'))
             a      == page[p].active
  <2>1. after = before + a - (a - 1) /\ before \in Int /\ a \in Int
    BY <1>3, <1>5
  <2>2. free_objects' = before + (nr - i)
    BY CountFacts, <1>2, <1>7
  <2>3. nr \in Int /\ i \in Int
    BY CountTypes
  <2> HIDE DEF before, after, a
  <2>4. free_objects' = after + (nr - i - 1)
    BY <2>1, <2>2, <2>3
  <2> QED
    BY <1>7, <2>4 DEF after
<1> QED
  BY ZenonT(60), CountFacts, <1>2, <1>4, <1>6, <1>8 DEF CountersInv

\* Every step keeps the counters.
LEMMA CountersStep ==
  ASSUME SlabInv, Counted, CountersInv, Counts, [Next]_vars
  PROVE  CountersInv'
<1> USE DEF ac, lists, cnt, alloc, free
<1>1. /\ TypeOK /\ Locals /\ NoBug /\ free_objects \in Int
      /\ avail \in Nat /\ nr \in Nat /\ i \in Nat /\ batchcount \in Nat
  BY Zenon, CountTypes
<1>2. CASE CacheAlloc \/ CacheAllocEmpty \/ CacheFree \/ RefillReturn \/ GrowReturn
  <2>1. /\ page' = page /\ lists' = lists /\ cnt' = cnt
        /\ pc \in {"idle", "direct_grow", "grow_return"}
        /\ pc' \in {"idle", "refill_start"}
    BY Zenon, <1>2 DEF CacheAlloc, CacheAllocEmpty, CacheFree, RefillReturn, GrowReturn
  <2> QED
    BY <1>1, <2>1, Uncounted DEF Pending
<1>3. CASE RefillStart
  BY <1>1, <1>3, Uncounted DEF RefillStart, Pending, Locals
<1>4. CASE RefillDone
  BY <1>1, <1>4, Uncounted DEF RefillDone, Pending
<1>5. CASE CacheFreeFull
  BY <1>1, <1>5, Uncounted DEF CacheFreeFull, Pending
<1>6. CASE TuneCpucache
  BY SMTT(60), <1>1, <1>6, Uncounted DEF TuneCpucache, Pending
<1>7. CASE FlushDone \/ TuneDone
  BY <1>1, <1>7, Uncounted DEF FlushDone, TuneDone, Pending
<1>8. CASE UNCHANGED vars
  <2>1. /\ Grown' = Grown /\ Listed' = Listed /\ Pending' = Pending /\ page' = page
        /\ UNCHANGED <<cnt, slabs_free>>
    BY <1>8, Zenon DEF vars, Grown, Listed, Pending
  <2> QED
    BY <2>1 DEF CountersInv
<1> HIDE DEF SlabInv, CountersInv
<1> QED
  BY <1>2, <1>3, <1>4, <1>5, <1>6, <1>7, <1>8, GrowBeginCounts, GrowEndCounts, RefillCounts,
     FreeBlockCounts DEF Next, RefillStep, FreeStep, Halted
=============================================================================
