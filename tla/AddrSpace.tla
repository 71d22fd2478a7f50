----------------------------- MODULE AddrSpace ------------------------------
(***************************************************************************)
(* The areas of a user address space (mm/mmap.c, mm/util.c, and sys_brk in *)
(* pgalloc/pgalloc.c).  The state is a record s.  s.vma[x] is a            *)
(* vm_area_struct: its bounds, its page offset, its flags, whether it maps *)
(* the program's file (otherwise it is anonymous), and the links of the    *)
(* address-ordered list that starts at s.mmap; s.tree is mm_rb, whose      *)
(* nodes cache the largest gap below them (rb_subtree_gap).  The other     *)
(* fields of mm_struct keep their names.  Addresses are in cells, of which *)
(* PAGE_SIZE make a page and one holds a pointer.  s.panic is the message  *)
(* of the panic, or of the wild access, that ended a call.                 *)
(***************************************************************************)
EXTENDS RbTree

CONSTANTS PAGE_SIZE, TASK_SIZE, stack_guard_gap

ASSUME AddrSpaceAssumption ==
  /\ PAGE_SIZE \in {2^k : k \in 1..12}
  /\ TASK_SIZE % PAGE_SIZE = 0 /\ stack_guard_gap % PAGE_SIZE = 0

PAGE_ALIGN(a) == ((a + PAGE_SIZE - 1) \div PAGE_SIZE) * PAGE_SIZE

PageOf(a) == a \div PAGE_SIZE

Panic(s, why) == [s EXCEPT !.panic = why]

Then(s, F(_)) == Bind(s, LAMBDA t : IF t.panic # "" THEN t ELSE F(t))

mm_alloc ==
  [vma |-> <<>>, mmap |-> Nil, tree |-> EmptyTree, highest_vm_end |-> 0,
   start_brk |-> 0, brk |-> 0, start_data |-> 0, end_data |-> 0,
   start_code |-> 0, end_code |-> 0, start_stack |-> 0,
   arg_start |-> 0, arg_end |-> 0, env_start |-> 0, env_end |-> 0]

-----------------------------------------------------------------------------
(* The gap below an area.  VM_GROWSUP is VM_NONE, so vm_end_gap is vm_end. *)

vm_start_gap(s, x) ==
  IF "down" \in s.vma[x].flags THEN Max({0, s.vma[x].start - stack_guard_gap})
                               ELSE s.vma[x].start

vma_compute_gap(s, x) ==
  LET p == s.vma[x].prev
  IN  IF p = Nil THEN vm_start_gap(s, x)
                 ELSE Max({0, vm_start_gap(s, x) - s.vma[p].end})

(* The tree with the scalar its callbacks would compute now for each node. *)
Live(s) ==
  [s.tree EXCEPT !.n = [x \in DOMAIN s.tree.n |->
                          [s.tree.n[x] EXCEPT !.own = vma_compute_gap(s, x)]]]

vma_gap_update(s, x) ==
  Bind(Live(s), LAMBDA T : [s EXCEPT !.tree = propagate(T, x, Nil)])

-----------------------------------------------------------------------------
(* Searching and linking.                                                  *)

RECURSIVE LinksBelow(_, _, _, _, _)
LinksBelow(s, addr, end, x, l) ==
  LET Go(d, prev) == LinksBelow(s, addr, end, s.tree.n[x].kid[d],
                                [l EXCEPT !.parent = x, !.side = d, !.prev = prev])
  IN  IF x = Nil THEN l
      ELSE IF s.vma[x].end <= addr THEN Go(2, x)
      ELSE IF s.vma[x].start < end THEN [l EXCEPT !.ok = FALSE]
      ELSE Go(1, l.prev)

find_vma_links(s, addr, end) ==
  LinksBelow(s, addr, end, s.tree.root,
             [ok |-> TRUE, parent |-> Nil, side |-> 1, prev |-> Nil])

(* The variable find_vma returns has no value until an area ends above     *)
(* addr: Unset stands for whatever it holds.                               *)
Unset == -1

RECURSIVE FindBelow(_, _, _, _)
FindBelow(s, addr, x, best) ==
  IF x = Nil THEN best
  ELSE IF s.vma[x].end <= addr THEN FindBelow(s, addr, s.tree.n[x].kid[2], best)
  ELSE IF s.vma[x].start <= addr THEN x
  ELSE FindBelow(s, addr, s.tree.n[x].kid[1], x)

find_vma(s, addr) == FindBelow(s, addr, s.tree.root, Unset)

__vma_link_list(s, x, prev) ==
  LET next == IF prev = Nil THEN s.mmap ELSE s.vma[prev].next
      A == [s EXCEPT !.vma[x].prev = prev, !.vma[x].next = next]
      B == IF prev = Nil THEN [A EXCEPT !.mmap = x] ELSE [A EXCEPT !.vma[prev].next = x]
  IN  IF next = Nil THEN B ELSE [B EXCEPT !.vma[next].prev = x]

__vma_link_rb(s, x, l) ==
  Bind(IF s.vma[x].next = Nil THEN [s EXCEPT !.highest_vm_end = s.vma[x].end]
       ELSE vma_gap_update(s, s.vma[x].next),
    LAMBDA A : Bind(
      vma_gap_update([A EXCEPT !.tree = rb_link_node(A.tree, x, l.parent, l.side, 0, 0)], x),
    LAMBDA B : [B EXCEPT !.tree = __rb_insert(B.tree, x)]))

vma_link(s, x, l) == __vma_link_rb(__vma_link_list(s, x, l.prev), x, l)

(* vm_area_alloc, the caller's assignments, and vma_link.                  *)
AddVma(s, l, start, end, pgoff, flags, file) ==
  LET v == [start |-> start, end |-> end, pgoff |-> pgoff, flags |-> flags,
            file |-> file, prev |-> Nil, next |-> Nil]
  IN  vma_link([s EXCEPT !.vma = Append(@, v)], Len(s.vma) + 1, l)

insert_vm_struct(s, start, end, flags) ==
  Bind(find_vma_links(s, start, end), LAMBDA l :
    IF ~l.ok THEN Panic(s, "can not insert vma!")
    ELSE AddVma(s, l, start, end, PageOf(start), flags, FALSE))

-----------------------------------------------------------------------------
(* Growth of the stack.                                                    *)

\* Mutant of expand_stack: the gaps are not updated.
expand_stackQuiet(s, x, address) ==
  LET grow == PageOf(s.vma[x].start - address)
  IN  IF address >= s.vma[x].start \/ grow > s.vma[x].pgoff THEN s
      ELSE [s EXCEPT !.vma[x].start = address, !.vma[x].pgoff = @ - grow]

expand_stack(s, x, address) ==
  LET grow == PageOf(s.vma[x].start - address)
  IN  IF address >= s.vma[x].start \/ grow > s.vma[x].pgoff THEN s
      ELSE Bind([s EXCEPT !.vma[x].start = address, !.vma[x].pgoff = @ - grow],
                LAMBDA t : vma_gap_update(t, x))

-----------------------------------------------------------------------------
(* Mappings at a fixed address, the only ones the kernel makes.            *)

(* Of the callers that can meet -ENOMEM, load_elf_binary panics on it; a    *)
(* break that large is refused before.                                     *)
get_unmapped_area(s, addr, len) ==
  IF len > TASK_SIZE THEN Panic(s, "ENOMEM")
  ELSE IF addr > TASK_SIZE - len THEN Panic(s, "out of memory!")
  ELSE IF addr % PAGE_SIZE # 0 THEN Panic(s, "bad arg addr!")
  ELSE s

mmap_region(s, addr, len, flags, pgoff) ==
  Bind(find_vma_links(s, addr, addr + len), LAMBDA l :
    IF ~l.ok THEN Panic(s, "can not find vma links!")
    ELSE AddVma(s, l, addr, addr + len, pgoff, flags, TRUE))

vm_mmap(s, addr, size, prot, offset) ==
  LET len == PAGE_ALIGN(size)
  IN  IF offset % PAGE_SIZE # 0 THEN Panic(s, "bad arg!")
      ELSE Then(get_unmapped_area(s, addr, len),
                LAMBDA t : mmap_region(t, addr, len, prot, PageOf(offset)))

do_brk_flags(s, addr, len, exec) ==
  Then(get_unmapped_area(s, addr, len), LAMBDA t :
    Bind(find_vma_links(t, addr, addr + len), LAMBDA l :
      IF ~l.ok THEN Panic(t, "find vma links error!")
      ELSE AddVma(t, l, addr, addr + len, PageOf(addr), {"r", "w"} \cup exec, FALSE)))

vm_brk_flags(s, addr, request, exec) ==
  IF request = 0 THEN s ELSE do_brk_flags(s, addr, PAGE_ALIGN(request), exec)

\* Mutant of _do_sys_brk: the break is recorded before the room is known.
_do_sys_brkEarly(s, brk) ==
  LET newbrk == PAGE_ALIGN(brk)
      oldbrk == PAGE_ALIGN(s.brk)
  IN  IF brk < s.end_data THEN s
      ELSE IF oldbrk = newbrk THEN [s EXCEPT !.brk = brk]
      ELSE IF brk <= s.brk THEN Panic(s, "brk <= mm->brk")
      ELSE Bind(find_vma(s, oldbrk), LAMBDA next :
             IF next = Unset THEN Panic(s, "vma not set")
             ELSE IF newbrk + PAGE_SIZE > vm_start_gap(s, next) THEN [s EXCEPT !.brk = brk]
             ELSE Then(do_brk_flags(s, oldbrk, newbrk - oldbrk, {}),
                       LAMBDA t : [t EXCEPT !.brk = brk]))

\* Mutant of _do_sys_brk: the next area is not looked at.
_do_sys_brkBlind(s, brk) ==
  LET newbrk == PAGE_ALIGN(brk)
      oldbrk == PAGE_ALIGN(s.brk)
  IN  IF brk < s.end_data THEN s
      ELSE IF oldbrk = newbrk THEN [s EXCEPT !.brk = brk]
      ELSE IF brk <= s.brk THEN Panic(s, "brk <= mm->brk")
      ELSE Then(do_brk_flags(s, oldbrk, newbrk - oldbrk, {}),
                LAMBDA t : [t EXCEPT !.brk = brk])

(* sys_brk: the new state.  The value returned is the state's brk, the new *)
(* one or the one it keeps.                                                *)
_do_sys_brk(s, brk) ==
  LET newbrk == PAGE_ALIGN(brk)
      oldbrk == PAGE_ALIGN(s.brk)
  IN  IF brk < s.end_data THEN s
      ELSE IF oldbrk = newbrk THEN [s EXCEPT !.brk = brk]
      ELSE IF brk <= s.brk THEN Panic(s, "brk <= mm->brk")
      ELSE Bind(find_vma(s, oldbrk), LAMBDA next :
             IF next = Unset THEN Panic(s, "vma not set")
             ELSE IF newbrk + PAGE_SIZE > vm_start_gap(s, next) THEN s
             ELSE Then(do_brk_flags(s, oldbrk, newbrk - oldbrk, {}),
                       LAMBDA t : [t EXCEPT !.brk = brk]))
=============================================================================
