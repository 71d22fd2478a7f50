-------------------------------- MODULE Slab --------------------------------
(***************************************************************************)
(* One kmem_cache of slab/slab.c: the array cache (array_cache), the three *)
(* slab lists and the counters of its kmem_cache_node, and per slab page   *)
(* the `active' count and the freelist of object indices.  Freelist slots  *)
(* below `active' and array slots beyond `avail' are dead and left out.    *)
(*                                                                         *)
(* kmalloc/kmem_cache_alloc and kfree/kmem_cache_free run as a sequence of *)
(* steps (variable pc), so that a composing module can put an interrupt    *)
(* between any two of them.  An object is <<page, index>>: index_to_obj    *)
(* and obj_to_index are the pairing and its projection, virt_to_head_page  *)
(* is the page.                                                            *)
(* The page allocator is external: it hands out pages not given out yet.   *)
(***************************************************************************)
EXTENDS Integers, Sequences, FiniteSets

CONSTANTS
  Pages,        \* the slab pages alloc_pages() can still provide
  Num,          \* cachep->num, objects per slab
  BootLimit,    \* BOOT_CPUCACHE_ENTRIES, limit of the boot-time array cache
  TunedLimit,   \* the limit enable_cpucache() computes from the object size
  ObjFreelist   \* OBJFREELIST_SLAB(cachep): the freelist lives in a free object

\* The freelist pointer of a page: an object index, NULL, or the tail of the
\* page when the cache keeps its freelist outside the objects.
NULL == -1
OnSlab == -2
NoPage == <<>>

ASSUME SlabAssumption ==
  /\ Num \in Nat \ {0}
  /\ BootLimit = 1
  /\ TunedLimit \in Nat \ {0}
  /\ ObjFreelist \in BOOLEAN
  /\ NoPage \notin Pages

VARIABLES
  entry, avail, limit, batchcount,          \* array_cache: entry[0..avail-1]
  page,                                     \* per page: slab, active, fl, freelist
  slabs_partial, slabs_full, slabs_free,    \* kmem_cache_node lists
  total_slabs, free_slabs, free_objects,    \* kmem_cache_node counters
  slab_state,                               \* "UP" until kmem_cache_init_late
  pc, batch, cur,                           \* locals of cache_alloc_refill
  objp, prev, nr, i,                        \* locals of kfree and free_block
  held                                      \* objects callers have

ac    == <<entry, avail, limit, batchcount>>
lists == <<slabs_partial, slabs_full, slabs_free>>
cnt   == <<total_slabs, free_slabs, free_objects>>
alloc == <<batch, cur>>
free  == <<objp, prev, nr, i>>
vars  == <<ac, page, lists, cnt, slab_state, pc, alloc, free, held>>

Idx     == 0 .. Num - 1
Objects == Pages \X Idx
NoObj   == <<>>
Empty   == [k \in {} |-> NoObj]

\* batchcount = (limit + 1) / 2 in enable_cpucache.
BatchOf(l) == (l + 1) \div 2

\* Pages handed to this cache: kmem_getpages has set PG_slab.
Grown == {p \in Pages : page[p].slab}

-----------------------------------------------------------------------------
(* Doubly linked lists: list_add, list_add_tail, list_del.                 *)
ListAdd(s, p)     == <<p>> \o s
ListAddTail(s, p) == Append(s, p)
ListDel(s, p) ==
  IF \E k \in DOMAIN s : s[k] = p
  THEN LET k == CHOOSE k \in DOMAIN s : s[k] = p
       IN  [j \in 1 .. Len(s) - 1 |-> IF j < k THEN s[j] ELSE s[j + 1]]
  ELSE s

(* A slab page fresh from kmem_getpages, alloc_slabmgmt, slab_map_pages and *)
(* cache_init_objs: nothing active, freelist entry k names object k, and   *)
(* the freelist itself in the last object when ObjFreelist.                *)
CacheInitObjs ==
  [slab |-> TRUE, active |-> 0, fl |-> [k \in Idx |-> k],
   freelist |-> IF ObjFreelist THEN Num - 1 ELSE OnSlab]

(* alloc_block takes objects freelist[active..] into the array cache until *)
(* the slab or the batch is used up, whichever is first.                   *)
Min2(a, b) == IF a < b THEN a ELSE b
AllocCount(p) == Min2(Num - page[p].active, batch)
AllocBlock(p) ==
  LET n == AllocCount(p)
      a == page[p].active
  IN  /\ entry' = [k \in 0 .. avail + n - 1 |->
                     IF k < avail THEN entry[k]
                     ELSE <<p, page[p].fl[a + k - avail]>>]
      /\ avail' = avail + n
      \* `while (active < num && batchcount--)' leaves -1 behind an exhausted
      \* batch, unless the slab ran out at the same time.
      /\ batch' = IF a + n < Num THEN -1 ELSE batch - n

(* fixup_slab_list for a page of which alloc_block has made `active'       *)
(* objects active.                                                         *)
FixupPage(p, active) ==
  [slab |-> page[p].slab, active |-> active,
   fl |-> [k \in active .. Num - 1 |-> page[p].fl[k]],
   freelist |-> IF active = Num /\ ObjFreelist THEN NULL ELSE page[p].freelist]

\* Mutant of FixupLists: no list_del.
FixupListsNoDel(p, active) ==
  /\ UNCHANGED slabs_free
  /\ IF active = Num
     THEN slabs_full' = ListAdd(slabs_full, p) /\ UNCHANGED slabs_partial
     ELSE slabs_partial' = ListAdd(slabs_partial, p) /\ UNCHANGED slabs_full

FixupLists(p, active) ==
  LET partial == ListDel(slabs_partial, p)
  IN  /\ slabs_free' = ListDel(slabs_free, p)
      /\ IF active = Num
         THEN slabs_full' = ListAdd(slabs_full, p) /\ slabs_partial' = partial
         ELSE slabs_full' = slabs_full /\ slabs_partial' = ListAdd(partial, p)

-----------------------------------------------------------------------------
(* A page that is not a slab: nothing on a freelist.                       *)
NoSlab == [slab |-> FALSE, active |-> Num, fl |-> Empty, freelist |-> NULL]

(* A cache exists once setup_cpu_cache has run: during boot with a one     *)
(* entry array cache, later with the tuned one.                            *)
Init ==
  /\ slab_state \in {"UP", "FULL"}
  /\ entry = Empty /\ avail = 0
  /\ limit = IF slab_state = "UP" THEN BootLimit ELSE TunedLimit
  /\ batchcount = BatchOf(limit)
  /\ page = [p \in Pages |-> NoSlab]
  /\ slabs_partial = <<>> /\ slabs_full = <<>> /\ slabs_free = <<>>
  /\ total_slabs = 0 /\ free_slabs = 0 /\ free_objects = 0
  /\ pc = "idle" /\ batch = 0 /\ cur = NoPage
  /\ objp = NoObj /\ prev = Empty /\ nr = 0 /\ i = 0
  /\ held = {}

\* Mutant of Pop: the first entry is returned, the last one dropped.
PopFirst ==
  /\ held' = held \cup {entry[0]}
  /\ avail' = avail - 1
  /\ entry' = [k \in 0 .. avail - 2 |-> entry[k]]
  /\ UNCHANGED <<limit, batchcount>>

\* return ac->entry[--ac->avail]
Pop ==
  /\ held' = held \cup {entry[avail - 1]}
  /\ avail' = avail - 1
  /\ entry' = [k \in 0 .. avail - 2 |-> entry[k]]
  /\ UNCHANGED <<limit, batchcount>>

(* ____cache_alloc: pop if there is one, else enter cache_alloc_refill.    *)
CacheAlloc ==
  /\ pc = "idle" /\ avail > 0
  /\ Pop
  /\ UNCHANGED <<page, lists, cnt, slab_state, pc, alloc, free>>

CacheAllocEmpty ==
  /\ pc = "idle" /\ avail = 0
  /\ pc' = "refill_start"
  /\ UNCHANGED <<ac, page, lists, cnt, slab_state, alloc, free, held>>

(* Head of cache_alloc_refill, with its BUG_ON(ac->avail > 0).             *)
RefillStart ==
  /\ pc = "refill_start"
  /\ batch' = batchcount
  /\ pc' = IF avail > 0 THEN "bug"
           ELSE IF free_objects = 0 THEN "direct_grow" ELSE "refill"
  /\ UNCHANGED <<ac, page, lists, cnt, slab_state, cur, free, held>>

\* get_first_slab prefers a partial slab.
FirstSlab == IF slabs_partial # <<>> THEN Head(slabs_partial)
             ELSE IF slabs_free # <<>> THEN Head(slabs_free) ELSE NoPage

(* One turn of `while (batchcount > 0)': get_first_slab, alloc_block with  *)
(* its BUG_ONs (slab has a free object, freelist is there), fixup.         *)
RefillSlab ==
  /\ pc = "refill" /\ batch > 0 /\ FirstSlab # NoPage
  /\ LET p == FirstSlab
         active == page[p].active + AllocCount(p)
     IN  IF page[p].active >= Num \/ page[p].freelist = NULL
         THEN /\ pc' = "bug"
              /\ UNCHANGED <<ac, page, lists, cnt, batch>>
         ELSE /\ AllocBlock(p)
              /\ page' = [page EXCEPT ![p] = FixupPage(p, active)]
              /\ FixupLists(p, active)
              /\ free_slabs' = IF slabs_partial = <<>> THEN free_slabs - 1
                               ELSE free_slabs
              /\ UNCHANGED <<limit, batchcount, total_slabs, free_objects, pc>>
  /\ UNCHANGED <<slab_state, cur, free, held>>

\* Mutant of RefillDone: free_objects is not reduced.
RefillDoneUncounted ==
  /\ pc = "refill" /\ (batch <= 0 \/ FirstSlab = NoPage)
  /\ pc' = "direct_grow"
  /\ UNCHANGED <<ac, page, lists, cnt, slab_state, alloc, free, held>>

(* must_grow: the batch is complete or the slabs have run out.             *)
RefillDone ==
  /\ pc = "refill" /\ (batch <= 0 \/ FirstSlab = NoPage)
  /\ free_objects' = free_objects - avail
  /\ pc' = "direct_grow"
  /\ UNCHANGED <<ac, page, lists, total_slabs, free_slabs, slab_state, alloc,
                 free, held>>

(* direct_grow with something in the array cache: hand out the last entry. *)
RefillReturn ==
  /\ pc = "direct_grow" /\ avail > 0
  /\ Pop
  /\ batch' = 0
  /\ pc' = "idle"
  /\ UNCHANGED <<page, lists, cnt, slab_state, cur, free>>

\* Mutant of GrowBegin: retries instead of panicking without a page.
GrowBeginRetry ==
  /\ pc = "direct_grow" /\ avail = 0
  /\ \/ \E p \in Pages \ Grown :
          /\ page' = [page EXCEPT ![p] = CacheInitObjs]
          /\ cur' = p
          /\ pc' = "grow_end"
     \/ /\ Grown = Pages
        /\ pc' = "refill_start"
        /\ UNCHANGED <<page, cur>>
  /\ UNCHANGED <<ac, lists, cnt, slab_state, batch, free, held>>

(* direct_grow with nothing: cache_grow_begin gets a page, or the page     *)
(* allocator panics.                                                       *)
GrowBegin ==
  /\ pc = "direct_grow" /\ avail = 0
  /\ \/ \E p \in Pages \ Grown :
          /\ page' = [page EXCEPT ![p] = CacheInitObjs]
          /\ cur' = p
          /\ pc' = "grow_end"
     \/ /\ Grown = Pages
        /\ pc' = "panic"
        /\ UNCHANGED <<page, cur>>
  /\ UNCHANGED <<ac, lists, cnt, slab_state, batch, free, held>>

(* alloc_block from the new page unless the array cache has been filled in *)
(* the meantime, then cache_grow_end; refill then returns the last entry.  *)
GrowEnd ==
  /\ pc = "grow_end"
  /\ IF avail = 0
     THEN /\ AllocBlock(cur)
          /\ UNCHANGED <<limit, batchcount>>
     ELSE UNCHANGED <<ac, batch>>
  /\ LET active == IF avail = 0 THEN AllocCount(cur) ELSE 0
     IN  IF active = 0
         THEN /\ slabs_free' = ListAddTail(slabs_free, cur)
              /\ free_slabs' = free_slabs + 1
              /\ free_objects' = free_objects + Num
              /\ UNCHANGED <<page, slabs_partial, slabs_full>>
         ELSE /\ FixupLists(cur, active)
              /\ page' = [page EXCEPT ![cur] = FixupPage(cur, active)]
              /\ free_objects' = free_objects + Num - active
              /\ UNCHANGED free_slabs
  /\ total_slabs' = total_slabs + 1
  /\ pc' = "grow_return"
  /\ UNCHANGED <<slab_state, cur, free, held>>

GrowReturn ==
  /\ pc = "grow_return"
  /\ cur' = NoPage /\ batch' = 0
  /\ pc' = "idle"
  /\ IF avail > 0 THEN Pop ELSE UNCHANGED <<ac, held>>
  /\ UNCHANGED <<page, lists, cnt, slab_state, free>>

-----------------------------------------------------------------------------
\* __free_one
Push(o) ==
  /\ entry' = [k \in 0 .. avail |-> IF k < avail THEN entry[k] ELSE o]
  /\ avail' = avail + 1
  /\ UNCHANGED <<limit, batchcount>>

(* ___cache_free with room in the array cache.                             *)
CacheFree ==
  /\ pc = "idle" /\ avail < limit
  /\ \E o \in held : Push(o) /\ held' = held \ {o}
  /\ UNCHANGED <<page, lists, cnt, slab_state, pc, alloc, free>>

(* ___cache_free without room enters cache_flusharray -> free_block, whose *)
(* first statement accounts for the whole batch.                           *)
CacheFreeFull ==
  /\ pc = "idle" /\ avail >= limit
  /\ \E o \in held : objp' = o /\ held' = held \ {o}
  /\ nr' = batchcount /\ i' = 0
  /\ free_objects' = free_objects + batchcount
  /\ pc' = "flush"
  /\ UNCHANGED <<ac, page, lists, total_slabs, free_slabs, slab_state, alloc,
                 prev>>

\* Mutant of SlabPutObj: a full slab does not get its freelist back.
SlabPutObjNull(p, o) ==
  LET a == page[p].active - 1
  IN  [slab |-> page[p].slab, active |-> a,
       fl |-> [k \in a .. Num - 1 |-> IF k = a THEN o ELSE page[p].fl[k]],
       freelist |-> page[p].freelist]

(* slab_put_obj: the freed index goes to freelist[--active]; a slab that   *)
(* was full gets its freelist back inside the freed object.                *)
SlabPutObj(p, o) ==
  LET a == page[p].active - 1
  IN  [slab |-> page[p].slab, active |-> a,
       fl |-> [k \in a .. Num - 1 |-> IF k = a THEN o ELSE page[p].fl[k]],
       freelist |-> IF page[p].freelist = NULL THEN o ELSE page[p].freelist]

(* The objpp argument of free_block: the array cache itself when flushing, *)
(* the replaced array cache when tuning.                                   *)
Objpp == IF pc = "flush" THEN entry ELSE prev

(* One turn of the loop of free_block.                                     *)
FreeBlock ==
  /\ pc \in {"flush", "tune"} /\ i < nr
  /\ LET p == Objpp[i][1]
         put == SlabPutObj(p, Objpp[i][2])
     IN  /\ page' = [page EXCEPT ![p] = put]
         /\ slabs_full' = ListDel(slabs_full, p)
         /\ IF put.active = 0
            THEN /\ slabs_free' = ListAdd(slabs_free, p)
                 /\ slabs_partial' = ListDel(slabs_partial, p)
                 /\ free_slabs' = free_slabs + 1
            ELSE /\ slabs_partial' = ListAddTail(ListDel(slabs_partial, p), p)
                 /\ UNCHANGED <<slabs_free, free_slabs>>
  /\ i' = i + 1
  /\ UNCHANGED <<ac, total_slabs, free_objects, slab_state, pc, alloc, objp,
                 prev, nr, held>>

\* Mutant of FlushDone: no memmove.
FlushDoneNoMove ==
  /\ pc = "flush" /\ i = nr
  /\ entry' = [k \in 0 .. avail - nr |-> IF k < avail - nr THEN entry[k] ELSE objp]
  /\ avail' = avail - nr + 1
  /\ objp' = NoObj /\ nr' = 0 /\ i' = 0
  /\ pc' = "idle"
  /\ UNCHANGED <<limit, batchcount, page, lists, cnt, slab_state, alloc, prev,
                 held>>

(* Rest of cache_flusharray (the slabs to destroy are an empty list): the  *)
(* flushed entries leave the front of the array, then __free_one.          *)
FlushDone ==
  /\ pc = "flush" /\ i = nr
  /\ entry' = [k \in 0 .. avail - nr |->
                 IF k < avail - nr THEN entry[k + nr] ELSE objp]
  /\ avail' = avail - nr + 1
  /\ objp' = NoObj /\ nr' = 0 /\ i' = 0
  /\ pc' = "idle"
  /\ UNCHANGED <<limit, batchcount, page, lists, cnt, slab_state, alloc, prev,
                 held>>

(* kmem_cache_init_late -> enable_cpucache -> do_tune_cpucache: install an *)
(* array cache of the final size and free the entries of the boot one.     *)
TuneCpucache ==
  /\ pc = "idle" /\ slab_state = "UP"
  /\ slab_state' = "FULL"
  /\ prev' = entry /\ nr' = avail /\ i' = 0
  /\ entry' = Empty /\ avail' = 0
  /\ limit' = TunedLimit /\ batchcount' = BatchOf(TunedLimit)
  /\ free_objects' = free_objects + avail
  /\ pc' = "tune"
  /\ UNCHANGED <<page, lists, total_slabs, free_slabs, alloc, objp, held>>

TuneDone ==
  /\ pc = "tune" /\ i = nr
  /\ prev' = Empty /\ nr' = 0 /\ i' = 0
  /\ pc' = "idle"
  /\ UNCHANGED <<ac, page, lists, cnt, slab_state, alloc, objp, held>>

(* panic() and BUG() never return.                                         *)
Halted == pc \in {"panic", "bug"} /\ UNCHANGED vars

RefillStep == \/ RefillStart \/ RefillSlab \/ RefillDone \/ RefillReturn
              \/ GrowBegin \/ GrowEnd \/ GrowReturn
FreeStep   == FreeBlock \/ FlushDone \/ TuneDone

Next == \/ CacheAlloc \/ CacheAllocEmpty \/ RefillStep
        \/ CacheFree \/ CacheFreeFull \/ TuneCpucache \/ FreeStep
        \/ Halted

Spec == Init /\ [][Next]_vars

(* The processor keeps executing the call it is in.                        *)
FairSpec == Spec /\ WF_vars(RefillStep \/ FreeStep)
-----------------------------------------------------------------------------
(* Properties                                                              *)

\* The objects on the freelist of page p: freelist[active .. num-1].
FreeIn(p) == {page[p].fl[k] : k \in page[p].active .. Num - 1}

\* Slots of the array being flushed that free_block has already put back.
Live(k) == pc = "flush" => k >= i

\* Objects in the array cache, in the one being replaced, or in a register.
InCache == {entry[k] : k \in {k \in 0 .. avail - 1 : Live(k)}}
PrevLive == {k \in 0 .. nr - 1 : pc = "tune" /\ k >= i}
InPrev  == {prev[k] : k \in PrevLive}
InHand  == IF pc = "flush" THEN {objp} ELSE {}

PageOK(pg) ==
  /\ pg.slab \in BOOLEAN /\ pg.active \in 0 .. Num
  /\ pg.fl \in [pg.active .. Num - 1 -> Idx]
  /\ pg.freelist \in Idx \cup {NULL, OnSlab}
PCs == {"idle", "refill_start", "refill", "direct_grow", "grow_end",
        "grow_return", "flush", "tune", "panic", "bug"}

\* Types of the array cache, pages, lists and locals; in particular the array
\* cache never holds more than the limit it was allocated for.
TypeOK ==
  /\ avail \in 0 .. limit
  /\ entry \in [0 .. avail - 1 -> Objects]
  /\ limit \in {BootLimit, TunedLimit} /\ batchcount = BatchOf(limit)
  /\ DOMAIN page = Pages /\ \A p \in Pages : PageOK(page[p])
  /\ slabs_partial \in Seq(Pages) /\ slabs_full \in Seq(Pages)
  /\ slabs_free \in Seq(Pages)
  /\ total_slabs \in Int /\ free_slabs \in Int /\ free_objects \in Int
  /\ slab_state \in {"UP", "FULL"}
  /\ pc \in PCs /\ batch \in Int /\ cur \in Pages \cup {NoPage}
  /\ objp \in Objects \cup {NoObj}
  /\ nr \in Nat /\ i \in 0 .. nr
  /\ prev \in [0 .. (IF pc = "tune" THEN nr ELSE 0) - 1 -> Objects]
  /\ held \in SUBSET Objects

\* Every object of every slab has exactly one owner: a caller, one slot of an
\* array cache, the kfree in progress, or one entry of its slab's freelist.
\* No object is handed out twice, put on a freelist twice, or lost.
OneOwner ==
  /\ \A p \in Grown : \A j, k \in page[p].active .. Num - 1 :
       page[p].fl[j] = page[p].fl[k] => j = k
  /\ \A j, k \in 0 .. avail - 1 :
       Live(j) /\ Live(k) /\ entry[j] = entry[k] => j = k
  /\ \A j, k \in PrevLive : prev[j] = prev[k] => j = k
  /\ held \cap InCache = {} /\ held \cap InPrev = {} /\ held \cap InHand = {}
  /\ InCache \cap InPrev = {} /\ InCache \cap InHand = {}
  /\ \A p \in Pages, x \in Idx :
       <<p, x>> \in held \cup InCache \cup InPrev \cup InHand
         <=> p \in Grown /\ x \notin FreeIn(p)

\* With CFLGS_OBJFREELIST_SLAB the freelist is stored inside an object: that
\* object is free and the last one to be allocated, so nobody can overwrite
\* the freelist, and only a full slab has none.
FreelistStorage ==
  \A p \in Grown :
    IF ObjFreelist
    THEN page[p].freelist = IF page[p].active < Num THEN page[p].fl[Num - 1]
                            ELSE NULL
    ELSE page[p].freelist = OnSlab

\* Each slab is on the list its `active' count says, exactly once; a slab
\* between cache_grow_begin and cache_grow_end is on none.
InList(s, p) == \E k \in DOMAIN s : s[k] = p
Distinct(s)  == \A j, k \in DOMAIN s : s[j] = s[k] => j = k
Listed == IF pc = "grow_end" THEN Grown \ {cur} ELSE Grown
ListsMatch ==
  /\ Distinct(slabs_partial) /\ Distinct(slabs_full) /\ Distinct(slabs_free)
  /\ \A p \in Pages :
       /\ InList(slabs_partial, p) <=> p \in Listed /\ page[p].active \in 1 .. Num - 1
       /\ InList(slabs_full, p) <=> p \in Listed /\ page[p].active = Num
       /\ InList(slabs_free, p) <=> p \in Listed /\ page[p].active = 0

\* None of the BUG_ONs of the allocation path is reachable: refill starts with
\* an empty array cache and takes objects only from slabs that have some.
NoBug == pc # "bug"

\* Where each call is: what its locals have to do with the array cache.
Locals ==
  /\ pc = "refill_start" => avail = 0
  /\ pc \in {"refill", "direct_grow"} =>
       /\ avail \in 0 .. batchcount /\ avail + batch <= batchcount
       /\ avail = 0 => batch = batchcount
  /\ pc = "grow_end" => /\ avail = 0 /\ batch = batchcount
                        /\ cur \in Pages /\ page[cur] = CacheInitObjs
  /\ pc = "flush" => nr = batchcount /\ nr <= avail /\ objp \in Objects
  /\ pc = "tune" => avail = 0

\* The inductive invariant.
SlabInv == /\ TypeOK /\ Locals /\ OneOwner /\ FreelistStorage
           /\ ListsMatch /\ NoBug

\* The objects on the freelists of all slabs.
OnFreelist == {o \in Objects : o[1] \in Grown /\ o[2] \in FreeIn(o[1])}

\* Between calls the node's counters describe its slabs.  cache_alloc_refill
\* decides by free_objects alone whether to grow: too small wastes slabs, too
\* large sends it looking for an object that is not there.
CountersMatch ==
  pc = "idle" =>
    /\ free_objects = Cardinality(OnFreelist)
    /\ free_slabs = Len(slabs_free)
    /\ total_slabs = Cardinality(Grown)

\* kmalloc and kfree return: their loops over slabs and entries terminate.
CallsReturn == pc \notin {"idle", "panic", "bug"} ~> pc \in {"idle", "panic"}

\* What the cache keeps for its callers: array caches and freelists.
Stock == InCache \cup InPrev \cup InHand \cup OnFreelist

\* The cache implements the abstract allocator: through refilling, growing,
\* flushing and tuning an object given out leaves the array caches and
\* freelists, an object given back is in one of them, and none disappears.
Abstract == INSTANCE Allocator WITH stock <- Stock
ImplementsAllocator == Abstract!Spec
=============================================================================
