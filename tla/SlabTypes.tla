----------------------------- MODULE SlabTypes ------------------------------
(***************************************************************************)
(* Facts about the lists and the states of Slab, and the proof that every  *)
(* step keeps the types and the meaning of the locals.                     *)
(***************************************************************************)
EXTENDS Slab, TLAPS

-----------------------------------------------------------------------------
(* Lists *)

\* list_del yields a list of the same kind of element.
LEMMA ListDelType ==
  ASSUME NEW S, NEW s \in Seq(S), NEW p
  PROVE  ListDel(s, p) \in Seq(S)
<1>1. CASE \E k \in DOMAIN s : s[k] = p
  <2> DEFINE c == CHOOSE k \in DOMAIN s : s[k] = p
  <2>1. c \in DOMAIN s /\ s[c] = p
    BY <1>1
  <2>2. Len(s) - 1 \in Nat
    BY <2>1
  <2>3. ListDel(s, p) = [j \in 1 .. Len(s) - 1 |-> IF j < c THEN s[j] ELSE s[j + 1]]
    BY <1>1 DEF ListDel
  <2>4. \A j \in 1 .. Len(s) - 1 : (IF j < c THEN s[j] ELSE s[j + 1]) \in S
    BY <2>1
  <2> QED
    BY <2>2, <2>3, <2>4
<1>2. CASE ~ \E k \in DOMAIN s : s[k] = p
  BY <1>2 DEF ListDel
<1> QED
  BY <1>1, <1>2

\* list_del removes the element and only that element.
LEMMA ListDelIn ==
  ASSUME NEW S, NEW s \in Seq(S), Distinct(s), NEW p, NEW q
  PROVE  InList(ListDel(s, p), q) <=> InList(s, q) /\ q # p
<1>1. CASE \E k \in DOMAIN s : s[k] = p
  <2> DEFINE c == CHOOSE k \in DOMAIN s : s[k] = p
             d == [j \in 1 .. Len(s) - 1 |-> IF j < c THEN s[j] ELSE s[j + 1]]
  <2>1. c \in 1 .. Len(s) /\ s[c] = p /\ Len(s) \in Nat /\ DOMAIN s = 1 .. Len(s)
    BY <1>1
  <2>2. ListDel(s, p) = d
    BY <1>1 DEF ListDel
  <2>6. DOMAIN d = 1 .. Len(s) - 1
    OBVIOUS
  <2>7. \A j \in 1 .. Len(s) - 1 : d[j] = IF j < c THEN s[j] ELSE s[j + 1]
    OBVIOUS
  <2> HIDE DEF d, c
  <2>3. ASSUME NEW j \in DOMAIN d
        PROVE  \E k \in DOMAIN s : s[k] = d[j] /\ k # c
    <3>1. CASE j < c
      <4>1. j \in DOMAIN s /\ j # c /\ d[j] = s[j]
        BY <3>1, <2>1, <2>6, <2>7
      <4> QED
        BY <4>1
    <3>2. CASE ~(j < c)
      <4>1. j + 1 \in DOMAIN s /\ j + 1 # c /\ d[j] = s[j + 1]
        BY <3>2, <2>1, <2>6, <2>7
      <4> QED
        BY <4>1
    <3> QED
      BY <3>1, <3>2
  <2>4. ASSUME NEW k \in DOMAIN s, k # c
        PROVE  \E j \in DOMAIN d : d[j] = s[k]
    <3>1. CASE k < c
      <4>1. k \in DOMAIN d /\ d[k] = s[k]
        BY <3>1, <2>1, <2>6, <2>7
      <4> QED
        BY <4>1
    <3>2. CASE k > c
      <4>1. k - 1 \in DOMAIN d /\ d[k - 1] = s[k]
        BY <3>2, <2>1, <2>6, <2>7
      <4> QED
        BY <4>1
    <3> QED
      BY <3>1, <3>2, <2>4, <2>1
  <2>5. \A k \in DOMAIN s : s[k] = p => k = c
    BY <2>1 DEF Distinct
  <2> QED
    BY <2>1, <2>2, <2>3, <2>4, <2>5 DEF InList
<1>2. CASE ~ \E k \in DOMAIN s : s[k] = p
  BY <1>2 DEF ListDel, InList
<1> QED
  BY <1>1, <1>2

\* list_del keeps the remaining elements distinct.
LEMMA ListDelDistinct ==
  ASSUME NEW S, NEW s \in Seq(S), Distinct(s), NEW p
  PROVE  Distinct(ListDel(s, p))
<1>1. CASE \E k \in DOMAIN s : s[k] = p
  <2> DEFINE c == CHOOSE k \in DOMAIN s : s[k] = p
             d == [j \in 1 .. Len(s) - 1 |-> IF j < c THEN s[j] ELSE s[j + 1]]
  <2>1. c \in 1 .. Len(s) /\ Len(s) \in Nat /\ DOMAIN s = 1 .. Len(s)
    BY <1>1
  <2>2. ListDel(s, p) = d
    BY <1>1 DEF ListDel
  <2>3. SUFFICES ASSUME NEW j \in 1 .. Len(s) - 1, NEW k \in 1 .. Len(s) - 1,
                        d[j] = d[k]
                 PROVE  j = k
    BY Zenon, <2>2 DEF Distinct
  <2> DEFINE j1 == IF j < c THEN j ELSE j + 1
             k1 == IF k < c THEN k ELSE k + 1
  <2>4. j1 \in DOMAIN s /\ k1 \in DOMAIN s /\ s[j1] = d[j] /\ s[k1] = d[k]
    BY <2>1
  <2>5. j1 = k1
    BY <2>3, <2>4 DEF Distinct
  <2> QED
    BY <2>5, <2>1
<1>2. CASE ~ \E k \in DOMAIN s : s[k] = p
  BY <1>2 DEF ListDel
<1> QED
  BY <1>1, <1>2

\* list_add and list_add_tail add one element.
LEMMA ListAddFacts ==
  ASSUME NEW S, NEW s \in Seq(S), NEW p \in S
  PROVE  /\ ListAdd(s, p) \in Seq(S)
         /\ \A q : InList(ListAdd(s, p), q) <=> q = p \/ InList(s, q)
         /\ Distinct(s) /\ ~InList(s, p) => Distinct(ListAdd(s, p))
<1> DEFINE t == ListAdd(s, p)
<1>1. t \in Seq(S) /\ Len(t) = Len(s) + 1 /\ Len(s) \in Nat
      /\ DOMAIN s = 1 .. Len(s) /\ DOMAIN t = 1 .. Len(s) + 1
  BY DEF ListAdd
<1>2. t[1] = p
  BY DEF ListAdd
<1>3. \A k \in 1 .. Len(s) : t[k + 1] = s[k]
  BY DEF ListAdd
<1>4. \A k \in 2 .. Len(s) + 1 : t[k] = s[k - 1] /\ k - 1 \in DOMAIN s
  BY DEF ListAdd
<1> HIDE DEF t
<1>5. ASSUME NEW q PROVE InList(t, q) <=> q = p \/ InList(s, q)
  <2>1. ASSUME InList(t, q) PROVE q = p \/ InList(s, q)
    <3>1. PICK k \in DOMAIN t : t[k] = q
      BY <2>1 DEF InList
    <3>2. CASE k = 1
      BY <3>1, <3>2, <1>2
    <3>3. CASE k # 1
      <4>1. k \in 2 .. Len(s) + 1
        BY <3>1, <3>3, <1>1
      <4> QED
        BY <4>1, <3>1, <1>4 DEF InList
    <3> QED
      BY <3>2, <3>3
  <2>2. ASSUME q = p PROVE InList(t, q)
    <3>1. 1 \in DOMAIN t
      BY <1>1
    <3> QED
      BY <3>1, <2>2, <1>2 DEF InList
  <2>3. ASSUME InList(s, q) PROVE InList(t, q)
    <3>1. PICK k \in DOMAIN s : s[k] = q
      BY <2>3 DEF InList
    <3>2. k + 1 \in DOMAIN t /\ t[k + 1] = q
      BY <3>1, <1>1, <1>3
    <3> QED
      BY <3>2 DEF InList
  <2> QED
    BY <2>1, <2>2, <2>3
<1>6. ASSUME Distinct(s), ~InList(s, p) PROVE Distinct(t)
  <2>1. SUFFICES ASSUME NEW j \in DOMAIN t, NEW k \in DOMAIN t, t[j] = t[k]
                 PROVE  j = k
    BY DEF Distinct
  <2>2. CASE j = 1 /\ k = 1
    BY <2>2
  <2>3. CASE j = 1 /\ k # 1
    <3>1. k \in 2 .. Len(s) + 1
      BY <2>3, <1>1
    <3> QED
      BY <3>1, <2>3, <2>1, <1>2, <1>4, <1>6 DEF InList
  <2>4. CASE j # 1 /\ k = 1
    <3>1. j \in 2 .. Len(s) + 1
      BY <2>4, <1>1
    <3> QED
      BY <3>1, <2>4, <2>1, <1>2, <1>4, <1>6 DEF InList
  <2>5. CASE j # 1 /\ k # 1
    <3>1. j \in 2 .. Len(s) + 1 /\ k \in 2 .. Len(s) + 1
      BY <2>5, <1>1
    <3>2. j - 1 = k - 1
      BY <3>1, <2>1, <1>4, <1>6 DEF Distinct
    <3> QED
      BY <3>1, <3>2
  <2> QED
    BY <2>2, <2>3, <2>4, <2>5
<1> QED
  BY <1>1, <1>5, <1>6 DEF t

\* list_add_tail adds one element, at the other end.
LEMMA ListAddTailFacts ==
  ASSUME NEW S, NEW s \in Seq(S), NEW p \in S
  PROVE  /\ ListAddTail(s, p) \in Seq(S)
         /\ \A q : InList(ListAddTail(s, p), q) <=> q = p \/ InList(s, q)
         /\ Distinct(s) /\ ~InList(s, p) => Distinct(ListAddTail(s, p))
<1> DEFINE t == ListAddTail(s, p)
           n == Len(s)
<1>1. t \in Seq(S) /\ n \in Nat /\ DOMAIN s = 1 .. n /\ DOMAIN t = 1 .. n + 1
  BY DEF ListAddTail
<1>2. t[n + 1] = p /\ n + 1 \in DOMAIN t
  BY DEF ListAddTail
<1>3. \A k \in 1 .. n : t[k] = s[k]
  BY DEF ListAddTail
<1> HIDE DEF t, n
<1>4. \A k \in DOMAIN t : k # n + 1 => k \in DOMAIN s /\ t[k] = s[k]
  BY <1>1, <1>3
<1>5. DOMAIN s \subseteq DOMAIN t /\ \A k \in DOMAIN s : t[k] = s[k]
  BY <1>1, <1>3
<1>6. \A q : InList(t, q) <=> q = p \/ InList(s, q)
  BY <1>2, <1>4, <1>5 DEF InList
<1>7. Distinct(s) /\ ~InList(s, p) => Distinct(t)
  BY <1>2, <1>4, <1>5 DEF InList, Distinct
<1> QED
  BY <1>1, <1>6, <1>7 DEF t

\* The head of a non-empty list is one of its elements.
LEMMA HeadIn ==
  ASSUME NEW S, NEW s \in Seq(S), s # <<>>
  PROVE  Head(s) \in S /\ InList(s, Head(s))
<1>1. 1 \in DOMAIN s /\ Head(s) = s[1]
  OBVIOUS
<1> QED
  BY <1>1 DEF InList

-----------------------------------------------------------------------------
(* Facts about a state that satisfies the invariant *)

\* (limit + 1) / 2 entries fit into an array cache of `limit' entries.
LEMMA BatchFits ==
  ASSUME TypeOK
  PROVE  limit \in Nat \ {0} /\ batchcount \in 1 .. limit
<1>1. limit \in Nat \ {0}
  BY SlabAssumption DEF TypeOK
<1>2. batchcount = (limit + 1) \div 2
  BY DEF TypeOK, BatchOf
<1> QED
  BY <1>1, <1>2

\* A slab with a free object has its freelist.
LEMMA FreelistThere ==
  ASSUME SlabInv, NEW p \in Grown, page[p].active < Num
  PROVE  page[p].freelist # NULL
<1>1. page[p].fl \in [page[p].active .. Num - 1 -> Idx] /\ page[p].active \in 0 .. Num
  BY DEF SlabInv, TypeOK, PageOK, Grown
<1>2. page[p].fl[Num - 1] \in Idx
  BY <1>1, SlabAssumption
<1>3. page[p].freelist = IF ObjFreelist THEN page[p].fl[Num - 1] ELSE OnSlab
  BY DEF SlabInv, FreelistStorage
<1> QED
  BY <1>2, <1>3 DEF Idx, NULL, OnSlab

\* The slab cache_alloc_refill picks has an object to give and a freelist.
LEMMA FirstSlabFacts ==
  ASSUME SlabInv, FirstSlab # NoPage
  PROVE  /\ FirstSlab \in Grown /\ FirstSlab \in Listed
         /\ page[FirstSlab].active \in 0 .. Num - 1
         /\ page[FirstSlab].freelist # NULL
         /\ slabs_partial = <<>> => page[FirstSlab].active = 0
         /\ slabs_partial # <<>> => page[FirstSlab].active # 0
<1> USE SlabAssumption
<1>0. slabs_partial \in Seq(Pages) /\ slabs_free \in Seq(Pages)
  BY DEF SlabInv, TypeOK
<1>1. CASE slabs_partial # <<>>
  <2>1. FirstSlab = Head(slabs_partial)
    BY <1>1 DEF FirstSlab
  <2>2. FirstSlab \in Pages /\ InList(slabs_partial, FirstSlab)
    BY <2>1, <1>1, <1>0, HeadIn
  <2>3. FirstSlab \in Listed /\ page[FirstSlab].active \in 1 .. Num - 1
    BY <2>2 DEF SlabInv, ListsMatch
  <2>4. FirstSlab \in Grown
    BY <2>3 DEF Listed
  <2>5. page[FirstSlab].freelist # NULL
    BY <2>3, <2>4, FreelistThere
  <2> QED
    BY <2>3, <2>4, <2>5, <1>1
<1>2. CASE slabs_partial = <<>>
  <2>1. FirstSlab = Head(slabs_free) /\ slabs_free # <<>>
    BY <1>2 DEF FirstSlab
  <2>2. FirstSlab \in Pages /\ InList(slabs_free, FirstSlab)
    BY <2>1, <1>0, HeadIn
  <2>3. FirstSlab \in Listed /\ page[FirstSlab].active = 0
    BY <2>2 DEF SlabInv, ListsMatch
  <2>4. FirstSlab \in Grown
    BY <2>3 DEF Listed
  <2>5. page[FirstSlab].freelist # NULL
    BY <2>3, <2>4, FreelistThere
  <2> QED
    BY <2>3, <2>4, <2>5, <1>2
<1> QED
  BY <1>1, <1>2

\* A slab with an object that is not on its freelist has an active object.
Counted ==
  \A p \in Grown, x \in Idx : x \notin FreeIn(p) => page[p].active \in 1 .. Num

\* The object free_block is about to put back belongs to one of the slabs and
\* is not on its freelist.
LEMMA FreeBlockFacts ==
  ASSUME SlabInv, Counted, pc \in {"flush", "tune"}, i < nr
  PROVE  /\ Objpp[i] \in Objects
         /\ Objpp[i][1] \in Grown /\ Objpp[i][2] \in Idx
         /\ Objpp[i] = <<Objpp[i][1], Objpp[i][2]>>
         /\ Objpp[i][2] \notin FreeIn(Objpp[i][1])
         /\ page[Objpp[i][1]].active \in 1 .. Num
<1>1. CASE pc = "flush"
  <2>1. i \in 0 .. avail - 1 /\ i < avail /\ Live(i)
    BY <1>1 DEF SlabInv, TypeOK, Locals, Live
  <2>2. entry[i] \in Objects /\ entry[i] \in InCache
    BY <2>1 DEF SlabInv, TypeOK, InCache
  <2>3. Objpp[i] = entry[i]
    BY <1>1 DEF Objpp
  <2> QED
    BY <2>2, <2>3 DEF SlabInv, Counted, OneOwner, Objects
<1>2. CASE pc = "tune"
  <2>1. i \in PrevLive /\ i \in 0 .. nr - 1
    BY <1>2 DEF SlabInv, TypeOK, PrevLive
  <2>2. prev[i] \in Objects /\ prev[i] \in InPrev
    BY SMTT(60), <2>1, <1>2 DEF SlabInv, TypeOK, InPrev
  <2>3. Objpp[i] = prev[i]
    BY <1>2 DEF Objpp
  <2> QED
    BY <2>2, <2>3 DEF SlabInv, Counted, OneOwner, Objects
<1> QED
  BY <1>1, <1>2

-----------------------------------------------------------------------------
(* Types and locals *)

\* What alloc_block does to the array cache, from a slab with a free object
\* and with a batch that fits.
LEMMA AllocBlockFacts ==
  ASSUME TypeOK, NEW p \in Pages, page[p].active < Num,
         batch \in 1 .. batchcount, avail + batch <= batchcount, AllocBlock(p)
  PROVE  /\ AllocCount(p) \in 1 .. batch
         /\ page[p].active + AllocCount(p) \in page[p].active + 1 .. Num
         /\ avail' = avail + AllocCount(p) /\ avail' \in 1 .. batchcount
         /\ entry' \in [0 .. avail' - 1 -> Objects]
         /\ \A k \in 0 .. avail - 1 : entry'[k] = entry[k]
         /\ \A k \in avail .. avail' - 1 :
              /\ page[p].active + k - avail \in page[p].active .. Num - 1
              /\ page[p].active + k - avail < page[p].active + AllocCount(p)
              /\ entry'[k] = <<p, page[p].fl[page[p].active + k - avail]>>
         /\ batch' \in Int /\ avail' + batch' <= batchcount
<1> DEFINE n == AllocCount(p)
           a == page[p].active
<1>0. Num \in Nat \ {0} /\ avail \in Nat /\ batchcount \in Nat
  BY SlabAssumption, BatchFits DEF TypeOK
<1>1. a \in 0 .. Num - 1 /\ page[p].fl \in [a .. Num - 1 -> Idx]
  BY SMTT(60), <1>0 DEF TypeOK, PageOK
<1>2. n \in 1 .. batch /\ n <= Num - a
  BY <1>0, <1>1 DEF AllocCount, Min2
<1>3. avail' = avail + n
  BY DEF AllocBlock
<1>4. entry' = [k \in 0 .. avail + n - 1 |->
                  IF k < avail THEN entry[k] ELSE <<p, page[p].fl[a + k - avail]>>]
  BY DEF AllocBlock
<1>5. batch' = IF a + n < Num THEN -1 ELSE batch - n
  BY DEF AllocBlock
<1> HIDE DEF n, a
<1>6. entry \in [0 .. avail - 1 -> Objects]
  BY DEF TypeOK
<1>7. ASSUME NEW k \in 0 .. avail - 1
      PROVE  entry'[k] = entry[k] /\ entry'[k] \in Objects
  <2>1. k \in 0 .. avail + n - 1 /\ k < avail
    BY <1>0, <1>2
  <2>2. entry'[k] = entry[k]
    BY <1>4, <2>1
  <2> QED
    BY <1>6, <2>2
<1>8. \A k \in avail .. avail + n - 1 :
        /\ a + k - avail \in a .. Num - 1 /\ a + k - avail < a + n
        /\ entry'[k] = <<p, page[p].fl[a + k - avail]>>
  BY SMTT(60), <1>0, <1>1, <1>2, <1>4
<1>9. ASSUME NEW k \in avail .. avail + n - 1 PROVE entry'[k] \in Objects
  <2>1. page[p].fl[a + k - avail] \in Idx
    BY Zenon, <1>1, <1>8
  <2>2. entry'[k] = <<p, page[p].fl[a + k - avail]>>
    BY <1>8
  <2> QED
    BY <2>1, <2>2 DEF Objects
<1>10. entry' \in [0 .. avail' - 1 -> Objects]
  <2>1. \A k \in 0 .. avail + n - 1 : k \in 0 .. avail - 1 \/ k \in avail .. avail + n - 1
    BY <1>0, <1>2
  <2>2. \A k \in 0 .. avail + n - 1 : entry'[k] \in Objects
    BY <2>1, <1>7, <1>9
  <2>3. DOMAIN entry' = 0 .. avail + n - 1
    BY <1>4
  <2>4. entry' = [k \in 0 .. avail + n - 1 |-> entry'[k]]
    BY <1>4
  <2>5. entry' \in [0 .. avail + n - 1 -> Objects]
    BY <2>2, <2>4
  <2>6. avail' - 1 = avail + n - 1
    BY <1>0, <1>2, <1>3
  <2> QED
    BY <2>5, <2>6
<1>11. avail' \in 1 .. batchcount /\ a + n \in a + 1 .. Num
  BY <1>0, <1>1, <1>2, <1>3
<1>12. batch' \in Int /\ avail' + batch' <= batchcount
  BY <1>0, <1>1, <1>2, <1>3, <1>5, <1>11
<1>13. \A k \in avail .. avail' - 1 :
         /\ a + k - avail \in a .. Num - 1 /\ a + k - avail < a + n
         /\ entry'[k] = <<p, page[p].fl[a + k - avail]>>
  <2>1. avail' - 1 = avail + n - 1
    BY <1>0, <1>2, <1>3
  <2> QED
    BY <2>1, <1>8
<1>14. \A k \in 0 .. avail - 1 : entry'[k] = entry[k]
  BY <1>7
<1>15. n \in 1 .. batch
  BY <1>2
<1> QED
  BY <1>3, <1>10, <1>11, <1>12, <1>13, <1>14, <1>15, Zenon DEF n, a

\* What fixup_slab_list leaves in the page.
LEMMA FixupPageOK ==
  ASSUME TypeOK, NEW p \in Pages, NEW active \in page[p].active .. Num
  PROVE  PageOK(FixupPage(p, active))
<1>1. PageOK(page[p])
  BY DEF TypeOK
<1>2. page[p].active \in 0 .. Num /\ page[p].fl \in [page[p].active .. Num - 1 -> Idx]
  BY <1>1 DEF PageOK
<1>3. [k \in active .. Num - 1 |-> page[p].fl[k]] \in [active .. Num - 1 -> Idx]
  BY SMTT(60), <1>2, SlabAssumption
<1> QED
  BY SMTT(60), <1>1, <1>2, <1>3, SlabAssumption DEF PageOK, FixupPage

\* What fixup_slab_list does to the types of the lists.
LEMMA FixupListsType ==
  ASSUME TypeOK, NEW p \in Pages, NEW active, FixupLists(p, active)
  PROVE  /\ slabs_partial' \in Seq(Pages) /\ slabs_full' \in Seq(Pages)
         /\ slabs_free' \in Seq(Pages)
<1>1. /\ slabs_partial \in Seq(Pages) /\ slabs_full \in Seq(Pages)
      /\ slabs_free \in Seq(Pages)
  BY DEF TypeOK
<1>2. /\ ListDel(slabs_partial, p) \in Seq(Pages)
      /\ ListDel(slabs_free, p) \in Seq(Pages)
  BY <1>1, ListDelType
<1>3. /\ ListAdd(slabs_full, p) \in Seq(Pages)
      /\ ListAdd(ListDel(slabs_partial, p), p) \in Seq(Pages)
  BY <1>1, <1>2, ListAddFacts
<1> QED
  BY <1>1, <1>2, <1>3 DEF FixupLists

\* Every step keeps the types and the meaning of the locals.
LEMMA TypeStep ==
  ASSUME SlabInv, Counted, [Next]_vars
  PROVE  TypeOK' /\ Locals'
<1> USE SlabAssumption DEF ac, lists, cnt, alloc, free
<1>0. TypeOK /\ Locals /\ NoBug /\ batchcount \in 1 .. limit /\ limit \in Nat \ {0}
  BY BatchFits DEF SlabInv
<1>1. CASE CacheAlloc
  BY <1>0, <1>1 DEF CacheAlloc, Pop, TypeOK, Locals
<1>2. CASE CacheAllocEmpty
  BY <1>0, <1>2 DEF CacheAllocEmpty, TypeOK, Locals, PCs
<1>3. CASE RefillStart
  BY <1>0, <1>3 DEF RefillStart, TypeOK, Locals, PCs
<1>4. CASE RefillSlab
  <2> DEFINE p == FirstSlab
             active == page[p].active + AllocCount(p)
  <2>1. /\ p \in Grown /\ p \in Pages /\ page[p].active \in 0 .. Num - 1
        /\ page[p].freelist # NULL
    BY <1>4, FirstSlabFacts DEF RefillSlab, Grown
  <2>2. /\ AllocBlock(p) /\ FixupLists(p, active)
        /\ page' = [page EXCEPT ![p] = FixupPage(p, active)]
        /\ free_slabs' = IF slabs_partial = <<>> THEN free_slabs - 1 ELSE free_slabs
        /\ UNCHANGED <<limit, batchcount, total_slabs, free_objects, pc,
                       slab_state, cur, free, held>>
    BY SMTT(60), <1>4, <2>1 DEF RefillSlab
  <2>3. batch \in 1 .. batchcount /\ avail + batch <= batchcount /\ pc = "refill"
    BY <1>0, <1>4 DEF RefillSlab, Locals, TypeOK
  <2>4. page[p].active < Num
    BY SMTT(60), <2>1
  <2> HIDE DEF p, active
  <2>5. /\ active \in page[p].active + 1 .. Num
        /\ avail' \in 1 .. batchcount /\ entry' \in [0 .. avail' - 1 -> Objects]
        /\ batch' \in Int /\ avail' + batch' <= batchcount
    BY <1>0, <2>1, <2>2, <2>3, <2>4, AllocBlockFacts DEF active
  <2>6. PageOK(FixupPage(p, active))
    <3>1. active \in page[p].active .. Num
      BY SMTT(60), <2>1, <2>5
    <3> QED
      BY <1>0, <2>1, <3>1, FixupPageOK
  <2>7. DOMAIN page' = Pages /\ \A q \in Pages : PageOK(page'[q])
    BY <1>0, <2>2, <2>6 DEF TypeOK
  <2>8. /\ slabs_partial' \in Seq(Pages) /\ slabs_full' \in Seq(Pages)
        /\ slabs_free' \in Seq(Pages)
    BY <1>0, <2>1, <2>2, FixupListsType
  <2>9. TypeOK'
    <3>1. free_slabs' \in Int /\ avail' \in 0 .. limit'
      BY SMTT(60), <1>0, <2>2, <2>5 DEF TypeOK
    <3> QED
      BY Zenon, <1>0, <2>2, <2>3, <2>5, <2>7, <2>8, <3>1 DEF TypeOK
  <2>10. Locals'
    BY SMTT(60), <1>0, <2>2, <2>3, <2>5 DEF Locals, TypeOK
  <2> QED
    BY <2>9, <2>10
<1>5. CASE RefillDone
  BY SMTT(60), <1>0, <1>5 DEF RefillDone, TypeOK, Locals, PCs
<1>6. CASE RefillReturn
  BY <1>0, <1>6 DEF RefillReturn, Pop, TypeOK, Locals, PCs
<1>7. CASE GrowBegin
  <2>1. PageOK(CacheInitObjs)
    BY SMTT(60) DEF PageOK, CacheInitObjs, Idx, OnSlab
  <2>2. CASE pc' = "panic"
    BY Zenon, <1>0, <1>7, <2>2 DEF GrowBegin, TypeOK, Locals, PCs
  <2>3. CASE pc' # "panic"
    <3>1. PICK p \in Pages \ Grown :
             page' = [page EXCEPT ![p] = CacheInitObjs] /\ cur' = p /\ pc' = "grow_end"
      BY <1>7, <2>3 DEF GrowBegin
    <3>2. DOMAIN page' = Pages /\ (\A q \in Pages : PageOK(page'[q]))
          /\ page'[p] = CacheInitObjs
      BY <1>0, <2>1, <3>1 DEF TypeOK
    <3> QED
      BY <1>0, <1>7, <3>1, <3>2 DEF GrowBegin, TypeOK, Locals, PCs
  <2> QED
    BY <2>2, <2>3
<1>8. CASE GrowEnd
  <2>1. /\ pc = "grow_end" /\ avail = 0 /\ batch = batchcount /\ cur \in Pages
        /\ page[cur] = CacheInitObjs
    BY SMTT(60), <1>0, <1>8 DEF GrowEnd, Locals
  <2>2. page[cur].active = 0 /\ page[cur].active < Num
    BY <2>1 DEF CacheInitObjs
  <2>3. AllocBlock(cur) /\ UNCHANGED <<limit, batchcount>>
    BY SMTT(60), <1>8, <2>1 DEF GrowEnd
  <2> DEFINE n == AllocCount(cur)
  <2>4. /\ n \in 1 .. batch /\ n \in 1 .. Num
        /\ avail' \in 1 .. batchcount /\ entry' \in [0 .. avail' - 1 -> Objects]
        /\ batch' \in Int
    BY <1>0, <2>1, <2>2, <2>3, AllocBlockFacts
  <2> HIDE DEF n
  <2>5. /\ FixupLists(cur, n) /\ page' = [page EXCEPT ![cur] = FixupPage(cur, n)]
        /\ free_objects' = free_objects + Num - n /\ UNCHANGED free_slabs
        /\ total_slabs' = total_slabs + 1 /\ pc' = "grow_return"
        /\ UNCHANGED <<slab_state, cur, free, held>>
    BY <1>8, <2>1, <2>4 DEF GrowEnd, n
  <2>6. PageOK(FixupPage(cur, n))
    <3>1. n \in page[cur].active .. Num
      BY SMTT(60), <2>2, <2>4
    <3> QED
      BY <1>0, <2>1, <3>1, FixupPageOK
  <2>7. DOMAIN page' = Pages /\ \A q \in Pages : PageOK(page'[q])
    BY Zenon, <1>0, <2>5, <2>6 DEF TypeOK
  <2>8. /\ slabs_partial' \in Seq(Pages) /\ slabs_full' \in Seq(Pages)
        /\ slabs_free' \in Seq(Pages)
    BY <1>0, <2>1, <2>5, FixupListsType
  <2>9. /\ free_objects' \in Int /\ total_slabs' \in Int /\ free_slabs' \in Int
        /\ avail' \in 0 .. limit'
    BY <1>0, <2>3, <2>4, <2>5 DEF TypeOK
  <2>10. TypeOK'
    BY Zenon, <1>0, <2>1, <2>3, <2>4, <2>5, <2>7, <2>8, <2>9 DEF TypeOK, PCs
  <2>11. Locals'
    BY Zenon, <2>5 DEF Locals
  <2> QED
    BY SMTT(60), <2>10, <2>11
<1>9. CASE GrowReturn
  BY SMTT(60), <1>0, <1>9 DEF GrowReturn, Pop, TypeOK, Locals, PCs
<1>10. CASE CacheFree
  BY SMTT(60), <1>0, <1>10 DEF CacheFree, Push, TypeOK, Locals
<1>11. CASE CacheFreeFull
  BY SMTT(60), <1>0, <1>11 DEF CacheFreeFull, TypeOK, Locals, PCs
<1>12. CASE FreeBlock
  <2> DEFINE p == Objpp[i][1]
             x == Objpp[i][2]
             put == SlabPutObj(p, x)
  <2>1. p \in Pages /\ x \in Idx /\ page[p].active \in 1 .. Num
    BY Zenon, <1>12, FreeBlockFacts DEF FreeBlock, Grown
  <2>2. PageOK(put)
    <3>1. PageOK(page[p])
      BY SMTT(60), <1>0, <2>1 DEF TypeOK
    <3> HIDE DEF p, x
    <3> QED
      BY ONLY SMTT(60), <3>1, <2>1, SlabAssumption DEF SlabPutObj, PageOK, Idx
  <2>3. page' = [page EXCEPT ![p] = put] /\ i < nr /\ i' = i + 1
    BY Zenon, <1>12 DEF FreeBlock
  <2>4. /\ slabs_partial' \in Seq(Pages) /\ slabs_full' \in Seq(Pages)
        /\ slabs_free' \in Seq(Pages) /\ free_slabs' \in Int
    <3>1. /\ slabs_partial \in Seq(Pages) /\ slabs_full \in Seq(Pages)
          /\ slabs_free \in Seq(Pages)
      BY <1>0 DEF TypeOK
    <3>2. /\ ListDel(slabs_partial, p) \in Seq(Pages)
          /\ ListDel(slabs_full, p) \in Seq(Pages)
      BY Zenon, <3>1, ListDelType
    <3>3. /\ ListAdd(slabs_free, p) \in Seq(Pages)
          /\ ListAddTail(ListDel(slabs_partial, p), p) \in Seq(Pages)
      BY <3>1, <3>2, <2>1, ListAddFacts, ListAddTailFacts
    <3>4. free_slabs \in Int
      BY SMTT(60), <1>0 DEF TypeOK
    <3> HIDE DEF put
    <3> QED
      <4>1. /\ slabs_partial' \in {ListDel(slabs_partial, p),
                                   ListAddTail(ListDel(slabs_partial, p), p)}
            /\ slabs_full' = ListDel(slabs_full, p)
            /\ slabs_free' \in {slabs_free, ListAdd(slabs_free, p)}
            /\ free_slabs' \in {free_slabs, free_slabs + 1}
        BY Zenon, <1>12 DEF FreeBlock, put
      <4> QED
        BY <3>1, <3>2, <3>3, <3>4, <4>1
  <2>5. DOMAIN page' = Pages /\ \A q \in Pages : PageOK(page'[q])
    BY Zenon, <1>0, <2>2, <2>3 DEF TypeOK
  <2>6. /\ UNCHANGED <<ac, total_slabs, free_objects, slab_state, pc, alloc,
                       objp, prev, nr, held>>
        /\ pc \in {"flush", "tune"}
    BY Zenon, <1>12 DEF FreeBlock
  <2> HIDE DEF p, x, put
  <2>7. TypeOK'
    BY SMTT(60), <1>0, <2>3, <2>4, <2>5, <2>6 DEF TypeOK
  <2>8. Locals'
    BY <1>0, <2>3, <2>4, <2>5, <2>6 DEF Locals
  <2> QED
    BY <2>7, <2>8
<1>13. CASE FlushDone
  <2>1. nr \in 1 .. avail /\ objp \in Objects /\ avail \in 0 .. limit
    BY SMTT(60), <1>0, <1>13 DEF FlushDone, Locals, TypeOK
  <2>2. entry' \in [0 .. avail' - 1 -> Objects] /\ avail' \in 0 .. limit
    BY <1>0, <1>13, <2>1 DEF FlushDone, TypeOK
  <2>3. pc = "flush" /\ pc' = "idle" /\ nr' = 0 /\ i' = 0 /\ objp' = NoObj
    BY <1>13 DEF FlushDone
  <2>4. UNCHANGED <<limit, batchcount, page, lists, cnt, slab_state, alloc, prev, held>>
    BY <1>13 DEF FlushDone
  <2>5. TypeOK'
    <3>1. prev' \in [0 .. 0 - 1 -> Objects]
      BY <1>0, <2>3, <2>4 DEF TypeOK
    <3>2. i' \in 0 .. nr' /\ nr' \in Nat
      BY <2>3
    <3> QED
      BY Zenon, <1>0, <2>2, <2>3, <2>4, <3>1, <3>2 DEF TypeOK, PCs
  <2>6. Locals'
    BY SMTT(60), <2>3 DEF Locals
  <2> QED
    BY SMTT(60), <2>5, <2>6
<1>14. CASE TuneCpucache
  <2>1. entry' \in [0 .. avail' - 1 -> Objects] /\ avail' = 0
    BY SMTT(60), <1>14 DEF TuneCpucache, Empty
  <2> QED
    BY <1>0, <1>14, <2>1 DEF TuneCpucache, TypeOK, Locals, PCs
<1>15. CASE TuneDone
  <2>1. prev' \in [0 .. 0 - 1 -> Objects]
    BY SMTT(60), <1>15 DEF TuneDone, Empty
  <2> QED
    BY <1>0, <1>15, <2>1 DEF TuneDone, TypeOK, Locals, PCs
<1>16. CASE UNCHANGED vars
  BY <1>0, <1>16 DEF vars, TypeOK, Locals
<1> QED
  BY <1>1, <1>2, <1>3, <1>4, <1>5, <1>6, <1>7, <1>8, <1>9, <1>10, <1>11, <1>12,
     <1>13, <1>14, <1>15, <1>16 DEF Next, RefillStep, FreeStep, Halted
=============================================================================
