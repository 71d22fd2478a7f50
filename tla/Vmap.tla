-------------------------------- MODULE Vmap --------------------------------
(***************************************************************************)
(* Kernel virtual areas (vma/vma.c) and the I/O mappings made in them      *)
(* (ioremap/ioremap.c).  The state is a record v: the tree and the address *)
(* list of the free areas, the tree and the list of the areas in use, the  *)
(* bounds at[x] of every vmap_area x, the kernel page tables (which pgd    *)
(* and pmd entries point to a table, and the ptes), the mappings handed    *)
(* out so far, and the value of the last call.  Addresses are in units of  *)
(* which PAGE_SIZE make a page.  v.stop names the BUG_ON, panic or wild    *)
(* access that ended a call, "" when none did.                             *)
(***************************************************************************)
EXTENDS RbTree

CONSTANTS PAGE_SIZE, PMD_SIZE, PGDIR_SIZE, IOREMAP_MAX,
          VMALLOC_START, VMALLOC_END, ULONG_MAX, Junk

ASSUME VmapAssumption ==
  /\ {PAGE_SIZE, PMD_SIZE, PGDIR_SIZE, IOREMAP_MAX} \subseteq {2^k : k \in 0..16}
  /\ PAGE_SIZE < PMD_SIZE /\ PMD_SIZE < PGDIR_SIZE /\ PAGE_SIZE <= IOREMAP_MAX
  /\ 1 < VMALLOC_START /\ VMALLOC_START < VMALLOC_END /\ VMALLOC_END < ULONG_MAX

ALIGN(a, n) == ((a + n - 1) \div n) * n

PAGE_ALIGN(a) == ALIGN(a, PAGE_SIZE)

(* Sums of unsigned longs wrap.                                            *)
Wrap(a) == a % (ULONG_MAX + 1)

NewArea(v) == CHOOSE x \in 1..(Cardinality(DOMAIN v.at) + 1) : x \notin DOMAIN v.at

SetBounds(v, x, b) ==
  [v EXCEPT !.at = [y \in DOMAIN v.at \cup {x} |-> IF y = x THEN b ELSE v.at[y]]]

va_size(v, x) == v.at[x][2] - v.at[x][1]

SubtreeMax(T, x) == IF x = Nil THEN 0 ELSE T.n[x].aug

-----------------------------------------------------------------------------
(* The search for a free area.                                             *)

StartIn(v, x, align, vstart) ==
  Wrap(ALIGN(IF v.at[x][1] > vstart THEN v.at[x][1] ELSE vstart, align))

is_within_this_va(v, x, size, align, vstart) ==
  LET s == StartIn(v, x, align, vstart)
  IN  Wrap(s + size) >= s /\ s >= vstart /\ Wrap(s + size) <= v.at[x][2]

RECURSIVE find_vmap_lowest_match(_, _, _, _, _, _)
find_vmap_lowest_match(v, x, back, size, align, vstart) ==
  LET T == v.free
      length == size + align - 1
      left == T.n[x].kid[1]
      right == T.n[x].kid[2]
      Go(y, b) == find_vmap_lowest_match(v, y, b, size, align, vstart)
  IN  IF x = Nil THEN Nil
      ELSE IF ~back /\ SubtreeMax(T, left) >= length /\ vstart < v.at[x][1]
           THEN Go(left, FALSE)
      ELSE IF is_within_this_va(v, x, size, align, vstart) THEN x
      ELSE IF SubtreeMax(T, right) >= length /\ (back => vstart <= v.at[x][1])
           THEN Go(right, FALSE)
      ELSE Go(T.n[x].par, TRUE)

-----------------------------------------------------------------------------
(* Linking and unlinking.  The place is a parent and a side, or Nil where  *)
(* find_va_links panics over an overlap.                                   *)

RECURSIVE find_va_links(_, _, _, _)
find_va_links(v, T, b, x) ==
  LET a == v.at[x]
      d == IF b[1] < a[2] /\ b[2] <= a[1] THEN 1
           ELSE IF b[2] > a[1] /\ b[1] >= a[2] THEN 2 ELSE 0
  IN  IF d = 0 THEN <<Nil, 0>>
      ELSE IF T.n[x].kid[d] = Nil THEN <<x, d>>
      ELSE find_va_links(v, T, b, T.n[x].kid[d])

PlaceIn(v, T, b, from) ==
  IF T.root = Nil THEN <<Nil, 1>> ELSE find_va_links(v, T, b, from)

(* list_add after the parent, or after the parent's predecessor.           *)
ListAdd(list, x, p, d) ==
  LET i == IF p = Nil THEN 0
           ELSE (CHOOSE j \in 1..Len(list) : list[j] = p) - (IF d = 2 THEN 0 ELSE 1)
  IN  SubSeq(list, 1, i) \o <<x>> \o SubSeq(list, i + 1, Len(list))

(* An augmented node is linked with whatever its object held before; only  *)
(* after the rebalancing is subtree_max_size set to zero.                  *)
link_va_free(v, x, pd, junk) ==
  LET T == rb_link_insert(v.free, x, pd[1], pd[2], va_size(v, x), junk)
  IN  [v EXCEPT !.free = [T EXCEPT !.n[x].aug = 0],
                !.flist = ListAdd(@, x, pd[1], pd[2])]

link_va_busy(v, x, pd) ==
  [v EXCEPT !.busy = rb_link_insert(@, x, pd[1], pd[2], 0, 0),
            !.blist = ListAdd(@, x, pd[1], pd[2])]

augment_tree_propagate_from(v, x) == [v EXCEPT !.free = propagate(@, x, Nil)]

insert_vmap_area_augment(v, x, from, junk) ==
  LET pd == PlaceIn(v, v.free, v.at[x], from)
  IN  IF pd[2] = 0 THEN [v EXCEPT !.stop = "overlap"]
      ELSE augment_tree_propagate_from(link_va_free(v, x, pd, junk), x)

insert_vmap_area(v, x) ==
  LET pd == PlaceIn(v, v.busy, v.at[x], v.busy.root)
  IN  IF pd[2] = 0 THEN [v EXCEPT !.stop = "overlap"] ELSE link_va_busy(v, x, pd)

unlink_va(v, x) ==
  [v EXCEPT !.free = rb_erase_augmented(@, x),
            !.flist = SelectSeq(@, LAMBDA y : y # x),
            !.at = [y \in DOMAIN v.at \ {x} |-> v.at[y]]]

Resize(v, x, b) ==
  [SetBounds(v, x, b) EXCEPT !.free.n[x].own = b[2] - b[1]]

(* The four ways the new area [s, e) lies in the free area x.              *)
adjust_va_to_fit_type(v, x, s, e, junk) ==
  LET a == v.at[x]
      lva == NewArea(v)
      Shrunk(b) == augment_tree_propagate_from(Resize(v, x, b), x)
  IN  CASE s < a[1] \/ e > a[2] -> [v EXCEPT !.stop = "NOTHING_FIT"]
        [] a = <<s, e>>         -> unlink_va(v, x)
        [] s = a[1] /\ e < a[2] -> Shrunk(<<e, a[2]>>)
        [] s > a[1] /\ e = a[2] -> Shrunk(<<a[1], s>>)
        [] OTHER -> insert_vmap_area_augment(
                      SetBounds(Shrunk(<<e, a[2]>>), lva, <<a[1], s>>), lva, x, junk)

__alloc_vmap_area(v, size, align, junk) ==
  LET x == find_vmap_lowest_match(v, v.free.root, FALSE, size, align, VMALLOC_START)
      s == StartIn(v, x, align, VMALLOC_START)
  IN  IF x = Nil THEN [v EXCEPT !.stop = "walked off the tree"]
      ELSE IF s + size > VMALLOC_END THEN [v EXCEPT !.stop = "overflow"]
      ELSE [adjust_va_to_fit_type(v, x, s, s + size, junk) EXCEPT !.ret = s]

(* The descriptor of the new area is taken from the cache first.           *)
alloc_vmap_area(v, size, align, junk) ==
  LET x == NewArea(v)
  IN  Bind(__alloc_vmap_area(SetBounds(v, x, <<0, 0>>), size, align, junk),
           LAMBDA w : IF w.stop # "" THEN w
                      ELSE insert_vmap_area(SetBounds(w, x, <<w.ret, w.ret + size>>), x))

get_vm_area(v, size, junk) ==
  LET order2 == Min({n \in {2^k : k \in 0..20} : n >= size})
      align == Min({Max({order2, PAGE_SIZE}), IOREMAP_MAX})
  IN  alloc_vmap_area(v, PAGE_ALIGN(size), align, junk)

-----------------------------------------------------------------------------
(* The page tables of an I/O mapping, one table segment at a time.         *)

AddrEnd(addr, end, n) == Min({(addr \div n + 1) * n, end})

ioremap_pte_range(v, addr, end, phys) ==
  LET new == {a \in addr..(end - 1) : a % PAGE_SIZE = 0}
  IN  IF new \cap DOMAIN v.pte # {} THEN [v EXCEPT !.stop = "pte not none"]
      ELSE [v EXCEPT !.pmd = @ \cup {addr \div PMD_SIZE},
                     !.pte = [a \in DOMAIN v.pte \cup new |->
                                IF a \in new
                                THEN phys \div PAGE_SIZE + (a - addr) \div PAGE_SIZE
                                ELSE v.pte[a]]]

\* Mutant of ioremap_pmd_range: every segment starts at the same frame.
RECURSIVE ioremap_pmd_rangeSame(_, _, _, _)
ioremap_pmd_rangeSame(v, addr, end, phys) ==
  LET next == AddrEnd(addr, end, PMD_SIZE)
      w == ioremap_pte_range([v EXCEPT !.pgd = @ \cup {addr \div PGDIR_SIZE}],
                             addr, next, phys)
  IN  IF next = end THEN w ELSE ioremap_pmd_rangeSame(w, next, end, phys)

RECURSIVE ioremap_pmd_range(_, _, _, _)
ioremap_pmd_range(v, addr, end, phys) ==
  LET next == AddrEnd(addr, end, PMD_SIZE)
      w == ioremap_pte_range([v EXCEPT !.pgd = @ \cup {addr \div PGDIR_SIZE}],
                             addr, next, phys)
  IN  IF next = end THEN w ELSE ioremap_pmd_range(w, next, end, phys + (next - addr))

RECURSIVE ioremap_page_range(_, _, _, _)
ioremap_page_range(v, addr, end, phys) ==
  LET next == AddrEnd(addr, end, PGDIR_SIZE)
      w == ioremap_pmd_range(v, addr, next, phys)
  IN  IF next = end THEN w ELSE ioremap_page_range(w, next, end, phys + (next - addr))

ioremap_prot(v, addr, size, junk) ==
  LET offset == addr % PAGE_SIZE
      bytes == PAGE_ALIGN(size + offset)
      Mapped(w) ==
        [ioremap_page_range(w, w.ret, w.ret + bytes, addr - offset) EXCEPT
           !.ret = w.ret + offset,
           !.maps = @ \cup {[va |-> w.ret + offset, pa |-> addr, size |-> size]}]
  IN  IF size = 0 \/ Wrap(addr + size - 1) < addr THEN [v EXCEPT !.ret = 0]
      ELSE Bind(get_vm_area(v, bytes, junk), LAMBDA w : IF w.stop # "" THEN w ELSE Mapped(w))

(* vmap_init_free_space.                                                   *)
VmapInit ==
  insert_vmap_area_augment(
    [free |-> EmptyTree, flist |-> <<>>, busy |-> EmptyTree, blist |-> <<>>,
     at |-> [x \in {1} |-> <<1, ULONG_MAX>>], pgd |-> {}, pmd |-> {},
     pte |-> [a \in {} |-> 0], maps |-> {}, ret |-> 0, stop |-> ""], 1, Nil, 0)

-----------------------------------------------------------------------------
(* What the areas should be.                                               *)

TreeIsList(v, T, list) ==
  /\ InOrder(T, T.root) = list
  /\ ParentsAgree(T) /\ RedBlack(T)
  /\ \A i \in 1..(Len(list) - 1) :
       v.at[list[i]][2] <= v.at[list[i + 1]][1] /\ rb_next(T, list[i]) = list[i + 1]

(* The free and the used areas are two balanced trees, each threaded by    *)
(* its address-sorted list; every cached subtree_max_size is the largest   *)
(* size below its node; and together the areas partition the space.        *)
AreasExact(v) ==
  /\ TreeIsList(v, v.free, v.flist) /\ TreeIsList(v, v.busy, v.blist)
  /\ \A x \in DOMAIN v.free.n : v.free.n[x].own = va_size(v, x)
  /\ AugExact(v.free)
  /\ \A x, y \in DOMAIN v.at : x # y => v.at[x][2] <= v.at[y][1] \/ v.at[y][2] <= v.at[x][1]
  /\ MapThenSumSet(LAMBDA x : va_size(v, x), DOMAIN v.at) = ULONG_MAX - 1

(* Every mapping handed out translates, byte for byte, to the physical     *)
(* range asked for, through tables that are present.                       *)
MapsExact(v) ==
  \A m \in v.maps : \A k \in 0..(m.size - 1) :
    LET a == m.va + k
        page == a - (a % PAGE_SIZE)
    IN  /\ a \div PGDIR_SIZE \in v.pgd /\ a \div PMD_SIZE \in v.pmd
        /\ page \in DOMAIN v.pte
        /\ v.pte[page] * PAGE_SIZE + (a % PAGE_SIZE) = m.pa + k

(* No free area below the one taken could hold the request at every        *)
(* alignment: the search passes over an area only when a request of that   *)
(* length might not fit into it.                                           *)
LowestSure(v, size, align) ==
  LET x == find_vmap_lowest_match(v, v.free.root, FALSE, size, align, VMALLOC_START)
  IN  /\ x # Nil
      /\ \A y \in DOMAIN v.free.n :
           v.at[y][2] - Max({v.at[y][1], VMALLOC_START}) >= size + align - 1
             => v.at[x][1] <= v.at[y][1]
=============================================================================
