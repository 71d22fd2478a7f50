----------------------------- MODULE UserSpace ------------------------------
(***************************************************************************)
(* One program from kernel_execve on: the kernel builds its address space, *)
(* loads its image, puts its arguments on its stack and starts it; the     *)
(* program then loads, stores, fetches and moves its break.  An access     *)
(* whose page is absent traps to _do_page_fault and is made again when the *)
(* handler returns, whatever the handler's outcome.  Reads of the file     *)
(* complete at any time: an exception runs with interrupts on.             *)
(***************************************************************************)
EXTENDS Exec

CONSTANTS Programs,   \* images with the arguments they are run with
          Accesses, Brks, MaxOps

VARIABLES s,       \* the address space, its pages and the page cache
          img,     \* the program's file
          args,
          strict,  \* whether the machine checks the write bit and SR_SUM
          mode,    \* how far exec is, or "user"
          todo,    \* the accesses to user memory still to be made
          ops,     \* how many the program has asked for
          wrote    \* history: the last cell stored at each address

vars == <<s, img, args, strict, mode, todo, ops, wrote>>

File == <<img, args, strict>>

Init ==
  /\ \E p \in Programs : img = p[1] /\ args = p[2]
  /\ strict \in BOOLEAN
  /\ s = mm_alloc @@
         [panic |-> "", cache |-> NoEntry, pte |-> NoEntry, frame |-> NoEntry,
          bprm |-> [vma |-> Nil, p |-> 0, argmin |-> 0, exec |-> 0, load_addr |-> 0,
                    bss |-> 0, pad |-> FALSE, code |-> NoEntry]]
  /\ mode = "execve" /\ todo = <<>> /\ ops = 0 /\ wrote = NoEntry

Running == s.panic = ""

-----------------------------------------------------------------------------
(* exec.                                                                   *)

(* kernel_execve up to the wait for the first page of the file.            *)
Execve ==
  /\ Running /\ mode = "execve"
  /\ \E t \in {Then(kernel_execve(s, args), LAMBDA u : HeaderBegin(u, img))} :
       /\ s' = t
       /\ wrote' = [a \in (TASK_SIZE - PAGE_SIZE)..(TASK_SIZE - 1) |->
                      IF PageOf(a) \in DOMAIN t.pte THEN Peek(t, a) ELSE Zero]
  /\ mode' = "header"
  /\ UNCHANGED <<File, todo, ops>>

(* The page with the program headers, in the cache or not.                 *)
LoadHeaders ==
  /\ Running /\ mode = "header" /\ s.cache[0].up
  /\ s' = Then(HeaderEnd(s, img), LAMBDA t : PhdrsBegin(t, img))
  /\ mode' = "phdrs"
  /\ UNCHANGED <<File, todo, ops, wrote>>

LoadBinary ==
  /\ Running /\ mode = "phdrs" /\ s.cache[PageOf(img.phoff)].up
  /\ \E t \in {load_elf_binary(s, img)} :
       s' = t /\ todo' = IF t.panic = "" THEN padzero(t) ELSE <<>>
  /\ mode' = "clear"
  /\ UNCHANGED <<File, ops, wrote>>

Tables ==
  /\ Running /\ mode = "clear" /\ todo = <<>>
  /\ \E r \in {create_elf_tables(s, img, args)} : s' = r.s /\ todo' = r.stores
  /\ mode' = "tables"
  /\ UNCHANGED <<File, ops, wrote>>

StartThread ==
  /\ Running /\ mode = "tables" /\ todo = <<>>
  /\ s' = finalize_exec(s) /\ mode' = "user"
  /\ UNCHANGED <<File, todo, ops, wrote>>

-----------------------------------------------------------------------------
(* The program.                                                            *)

Access(kind, addr) ==
  /\ Running /\ mode = "user" /\ todo = <<>> /\ ops < MaxOps
  /\ todo' = <<[kind |-> kind, addr |-> addr, cell |-> <<"user", ops>>]>>
  /\ ops' = ops + 1
  /\ UNCHANGED <<s, File, mode, wrote>>

Brk(b) ==
  /\ Running /\ mode = "user" /\ todo = <<>> /\ ops < MaxOps
  /\ s' = _do_sys_brk(s, b) /\ ops' = ops + 1
  /\ UNCHANGED <<File, mode, todo, wrote>>

-----------------------------------------------------------------------------
(* The machine.                                                            *)

(* Whether an access goes through.  A machine that is not strict lets      *)
(* stores through pages without the write bit, and lets the kernel reach   *)
(* user pages while SR_SUM is off, as it is in clear_user's memset.        *)
Translates(a) ==
  /\ PageOf(a.addr) \in DOMAIN s.pte
  /\ LET prot == s.pte[PageOf(a.addr)].prot
     IN  CASE a.kind = "load" -> prot.r
           [] a.kind = "store" -> strict => prot.w /\ mode # "clear"
           [] OTHER -> prot.x

Perform ==
  /\ Running /\ todo # <<>> /\ Translates(Head(todo))
  /\ todo' = Tail(todo)
  /\ \E a \in {Head(todo)} :
       IF a.kind = "store"
       THEN /\ s' = Poke(s, a.addr, a.cell)
            /\ wrote' = IF mode = "clear" THEN wrote ELSE With(wrote, a.addr, a.cell)
       ELSE UNCHANGED <<s, wrote>>
  /\ UNCHANGED <<File, mode, ops>>

Fault ==
  /\ Running /\ todo # <<>> /\ ~Translates(Head(todo))
  /\ \E fast \in BOOLEAN, a \in {Head(todo)} :
       \E t \in {_do_page_fault(s, a.kind, a.addr, img.size, fast)} : s' = t
  /\ UNCHANGED <<File, mode, todo, ops, wrote>>

(* A bio of the read-ahead completes, or fails.                            *)
mpage_end_io ==
  /\ Running
  /\ \E i \in InFlight(s), ok \in BOOLEAN : s' = EndIO(s, i, ok)
  /\ UNCHANGED <<File, mode, todo, ops, wrote>>

Next ==
  \/ Execve \/ LoadHeaders \/ LoadBinary \/ Tables \/ StartThread
  \/ \E a \in Accesses : Access(a[1], a[2])
  \/ \E b \in Brks : Brk(b)
  \/ Perform \/ Fault \/ mpage_end_io

(* The machine makes the accesses and takes the traps; the disk answers.   *)
Fairness ==
  /\ WF_todo(Perform) /\ WF_s(Fault) /\ WF_s(mpage_end_io)

Spec == Init /\ [][Next]_vars /\ Fairness

-----------------------------------------------------------------------------
(* Properties.                                                             *)

RECURSIVE ListFrom(_, _)
ListFrom(t, x) == IF x = Nil THEN <<>> ELSE <<x>> \o ListFrom(t, t.vma[x].next)

(* The areas that touch virtual page vp.                                   *)
Touching(t, vp) ==
  {x \in DOMAIN t.vma : PageOf(t.vma[x].start) <= vp /\ vp < PageOf(t.vma[x].end)}

(* However the areas came about - segments, break, growth of the stack to  *)
(* any address - mm_rb is a red-black tree whose order is that of the list *)
(* and of the addresses, no two areas share a page, every rb_subtree_gap   *)
(* is the largest gap below its node, and find_vma returns the lowest area *)
(* that ends above an address (mm/mmap.c __vma_link_rb, expand_downwards). *)
VmasExact ==
  Bind(InOrder(s.tree, s.tree.root), LAMBDA o :
    /\ RedBlack(s.tree) /\ ParentsAgree(s.tree) /\ AugExact(Live(s))
    /\ o = ListFrom(s, s.mmap) /\ Len(o) = Len(s.vma)
    /\ \A i \in DOMAIN o : s.vma[o[i]].prev = IF i = 1 THEN Nil ELSE o[i - 1]
    /\ \A i \in 1..(Len(o) - 1) : PageOf(s.vma[o[i]].end) <= PageOf(s.vma[o[i + 1]].start)
    /\ o # <<>> => s.highest_vm_end = s.vma[o[Len(o)]].end
    /\ \A vp \in 0..(PageOf(TASK_SIZE) - 1) :
         LET above == {i \in DOMAIN o : s.vma[o[i]].end > vp * PAGE_SIZE}
         IN  above # {} => find_vma(s, vp * PAGE_SIZE) = o[Min(above)])

(* The cell the program should find at address a: what it or exec stored   *)
(* there last, else the file's byte, else zero.                            *)
Segments == {img.phdrs[i] : i \in {j \in DOMAIN img.phdrs : img.phdrs[j].type = "LOAD"}}

Covers(ph, a) ==
  PageOf(ph.vaddr) <= PageOf(a) /\ a < PAGE_ALIGN(ph.vaddr + ph.filesz)

Loaded(a) ==
  IF \E ph \in Segments : Covers(ph, a)
  THEN LET ph == CHOOSE q \in Segments : Covers(q, a)
       IN  IF ph.memsz > ph.filesz /\ a >= ph.vaddr + ph.filesz THEN Zero
           ELSE <<"byte", ph.offset + a - ph.vaddr>>
  ELSE Zero

Expected(a) == IF a \in DOMAIN wrote THEN wrote[a] ELSE Loaded(a)

(* The page of the file that virtual page vp should show.                  *)
FilePage(vp) ==
  LET ph == CHOOSE q \in Segments : Covers(q, vp * PAGE_SIZE)
  IN  vp - PageOf(ph.vaddr) + PageOf(ph.offset)

InFile(vp) == \E ph \in Segments : Covers(ph, vp * PAGE_SIZE)

(* On a machine that ignores the write bit: the program has stored through *)
(* another segment to the page of the file that virtual page vp maps.      *)
Aliased(vp) ==
  /\ ~strict /\ InFile(vp)
  /\ \E a \in DOMAIN wrote : /\ PageOf(a) # vp /\ InFile(PageOf(a))
                             /\ FilePage(PageOf(a)) = FilePage(vp)

(* Once the program runs, every present page belongs to one area and shows *)
(* what the program should see there, whichever faults (read, write,       *)
(* fault-around, retried after a read of the disk) brought it in and in    *)
(* whatever order: file bytes in the segments, zeros in the bss, the heap  *)
(* and the fresh stack, and otherwise the last store.  Left out   *)
(* is a page of the file that two segments map, once the program has       *)
(* stored through the other one on a machine that ignores the write bit.   *)
MemoryAgrees ==
  (Running /\ mode = "user") =>
    \A vp \in DOMAIN s.pte :
      /\ Cardinality(Touching(s, vp)) = 1
      /\ ~Aliased(vp) =>
           \A o \in Offsets : Peek(s, vp * PAGE_SIZE + o) = Expected(vp * PAGE_SIZE + o)

(* The string at address p.                                                *)
RECURSIVE StringAt(_)
StringAt(p) == IF Peek(s, p) = Zero THEN <<>> ELSE <<Peek(s, p)[2]>> \o StringAt(p + 1)

(* The program starts with the stack the ABI asks for: an aligned stack    *)
(* pointer at argc, the pointers to the argument and the environment       *)
(* strings as they were given to kernel_execve, each array ended by NULL,  *)
(* and an auxiliary vector whose AT_PHDR is where the program headers are  *)
(* mapped, whose AT_EXECFN is the file's name and whose AT_RANDOM is the   *)
(* random bytes; arg_start .. env_end delimit the strings                  *)
(* (fs/binfmt_elf.c create_elf_tables, fs/exec.c copy_string_kernel).      *)
ArgsAsGiven ==
  (Running /\ mode = "user" /\ ops = 0) =>
    LET sp == s.start_stack
        argc == Len(args.argv)
        envc == Len(args.envp)
        env == sp + argc + 2
        aux == env + envc + 1
        Total(q) == FoldLeft(LAMBDA n, str : n + Len(str) + 1, 0, q)
    IN  /\ sp % 2 = 0 /\ Peek(s, sp) = Word(argc)
        /\ \A i \in 1..argc : StringAt(Peek(s, sp + i)[2]) = args.argv[i]
        /\ Peek(s, sp + argc + 1) = Zero
        /\ \A i \in 1..envc : StringAt(Peek(s, env + i - 1)[2]) = args.envp[i]
        /\ Peek(s, env + envc) = Zero
        /\ Loaded(Peek(s, aux)[2]) = <<"byte", img.phoff>>
        /\ Peek(s, aux + 1) = <<"AT_ENTRY", img.entry>>
        /\ \A i \in 1..RAND : Peek(s, Peek(s, aux + 2)[2] + i - 1) = <<"rand", i>>
        /\ StringAt(Peek(s, aux + 3)[2]) = args.file
        /\ s.arg_end - s.arg_start = Total(args.argv) /\ s.env_start = s.arg_end
        /\ s.env_end - s.env_start = Total(args.envp)

(* The heap is exactly what the program asked for: the anonymous areas     *)
(* above start_brk, the stack's apart, are the pages from start_brk up to  *)
(* the break, through breaks that are refused, lowered within a page, or   *)
(* asked for after the stack has grown (pgalloc/pgalloc.c _do_sys_brk).    *)
BrkCovers ==
  (Running /\ mode = "user") =>
    LET heap == {x \in DOMAIN s.vma : ~s.vma[x].file /\ s.vma[x].start >= s.start_brk
                                      /\ "down" \notin s.vma[x].flags}
    IN  UNION {s.vma[x].start..(s.vma[x].end - 1) : x \in heap}
          = s.start_brk..(PAGE_ALIGN(s.brk) - 1)

(* Whether the access at the head of todo is one its area allows.          *)
Allowed(a) ==
  \E x \in DOMAIN s.vma : /\ s.vma[x].start <= a.addr /\ a.addr < s.vma[x].end
                          /\ Needs(a.kind) \in s.vma[x].flags

(* The kernel stops only for a reason outside its own bookkeeping: an      *)
(* image or arguments it does not take, an access the program may not      *)
(* make, a break lowered by pages, a page of the file not read yet, not    *)
(* readable, marked for read-ahead or beyond its end, or a store through   *)
(* an entry without the write bit on a machine that checks it.  In particular find_vma never        *)
(* returns its uninitialised variable for a user address, no link search   *)
(* fails, no fault finds an entry another one set, and gup finds its page. *)
OnlyThesePanics ==
  LET Cells == 1 + Len(args.file) + 1
               + FoldLeft(LAMBDA n, str : n + Len(str) + 1, 0, args.argv \o args.envp)
  IN  \/ Running
      \/ s.panic \in {"bad fmt", "bad phdr!", "bad size!", "copy page error!",
                      "BUG_ON(index)"} /\ mode = "phdrs"
      \/ s.panic \in {"copy page error!", "read elf header error!", "is interp!",
                      "started with executable stack", "bad e_type ET_DYN!", "ENOMEM",
                      "bad elf_brk or elf_bss!"} /\ mode = "clear"
      \/ s.panic = "page readahead!" /\ (Pages(img.size) = 3 \/ PageOf(img.phoff) = 1)
      \/ s.panic = "find_extend_vma: !" /\ Cells > PAGE_SIZE
      \/ s.panic = "handle_pte_fault: !" /\ strict /\ Head(todo).kind = "store"
         /\ (mode = "clear" \/ ~s.pte[PageOf(Head(todo).addr)].prot.w)
      \/ s.panic \in {"bad vm_flags!", "nearest: bad vm_flags!"} /\ ~Allowed(Head(todo))
      \/ s.panic \in {"no pte!", "page not uptodate!"} /\ InFile(PageOf(Head(todo).addr))
         /\ Bind(FilePage(PageOf(Head(todo).addr)), LAMBDA i :
              i \in DOMAIN s.cache => ~s.cache[i].up \/ s.cache[i].ra)
      \/ s.panic = "brk <= mm->brk" /\ mode = "user"

(* exec waits for a page of the file, or someone for an access.            *)
WaitsFor(m, i) == mode = m /\ ~s.cache[i].up

Waiting ==
  Running /\ (todo # <<>> \/ WaitsFor("header", 0) \/ WaitsFor("phdrs", PageOf(img.phoff)))

(* What no code ends: exec's loop for a page whose read failed, and the    *)
(* access to a page of a segment that lies beyond the end of the file.     *)
ReadFailed(m, i) == Running /\ mode = m /\ s.cache[i].err

Endless ==
  IF todo # <<>>
  THEN InFile(PageOf(Head(todo).addr)) /\ FilePage(PageOf(Head(todo).addr)) >= Pages(img.size)
  ELSE ReadFailed("header", 0) \/ ReadFailed("phdrs", PageOf(img.phoff))

(* exec gets its headers, and its accesses and the program's come to an    *)
(* end or to a panic, also when a fault only starts the read of its page   *)
(* and returns for the access to be made again, or when that read fails.   *)
(* The two cases of Endless are the only ones in which they do not: the    *)
(* loop of generic_file_buffered_read never looks at PG_error, and the     *)
(* handler's SIGBUS is ignored (mm/mm.c _do_page_fault), so that the       *)
(* access faults for ever.                                                 *)
AccessEnds ==
  (Waiting /\ ~Endless) ~> (~Waiting \/ Endless)
=============================================================================
