-------------------------------- MODULE Exec --------------------------------
(***************************************************************************)
(* kernel_execve (fs/exec.c) and the ELF loader (fs/binfmt_elf.c), in the  *)
(* pieces between which they touch user memory or wait for the disk.  The  *)
(* fields of linux_binprm the code uses after it are in s.bprm.  An image  *)
(* is a record of what the headers and the program headers say; the        *)
(* arguments are the file name and two sequences of strings, a string      *)
(* being a sequence of characters without its NUL.                         *)
(***************************************************************************)
EXTENDS UserPages, SequencesExt

CONSTANTS ARG_MAX, STK_LIM, RLIM_STACK, MAX_ARG_STRLEN,
          BINPRM_BUF_SIZE,
          PHENT,            \* sizeof(struct elf_phdr)
          STACK_EXPAND,     \* stack_expand of setup_arg_pages
          RAND              \* cells of the random bytes

STACK_TOP == TASK_SIZE

(* VM_STACK_FLAGS, and the flags of a stack being set up.                  *)
VM_STACK_FLAGS == {"down", "r", "w"}

VM_STACK_INCOMPLETE_SETUP == {"rand", "seq"}

-----------------------------------------------------------------------------
(* The new address space and its arguments.                                *)

bprm_mm_init(s) ==
  Then(insert_vm_struct(mm_alloc @@ s, STACK_TOP - PAGE_SIZE, STACK_TOP,
                        VM_STACK_FLAGS \cup VM_STACK_INCOMPLETE_SETUP),
       LAMBDA t : [t EXCEPT !.bprm.vma = Len(t.vma), !.bprm.p = STACK_TOP - 1])

bprm_stack_limits(s, args) ==
  LET limit == Max({Min({(STK_LIM \div 4) * 3, RLIM_STACK \div 4}), ARG_MAX})
      ptrs == Len(args.argv) + Len(args.envp)
  IN  IF limit <= ptrs THEN Panic(s, "out of limits!")
      ELSE [s EXCEPT !.bprm.argmin = s.bprm.p - (limit - ptrs)]

Chars(str) == [i \in 1..(Len(str) + 1) |-> IF i > Len(str) THEN Zero ELSE <<"char", str[i]>>]

(* Cell seq goes to address pos, through the frame the entry names.        *)
Poke(s, pos, cell) ==
  [s EXCEPT !.frame[s.pte[PageOf(pos)].frame][pos % PAGE_SIZE] = cell]

PokeAll(s, pos, cells) ==
  FoldLeft(LAMBDA t, i : Poke(t, pos + i - 1, cells[i]), s, [i \in DOMAIN cells |-> i])

(* The string is copied a page at a time from its end, which is below pos. *)
RECURSIVE CopyBack(_, _, _)
CopyBack(s, pos, cells) ==
  LET room == IF pos % PAGE_SIZE = 0 THEN PAGE_SIZE ELSE pos % PAGE_SIZE
      n == Min({Len(cells), room})
      rest == SubSeq(cells, 1, Len(cells) - n)
  IN  IF n = 0 THEN s
      ELSE Then(get_user_pages_remote(s, pos - n), LAMBDA t :
             CopyBack(PokeAll(t, pos - n, SubSeq(cells, Len(rest) + 1, Len(cells))),
                      pos - n, rest))

copy_string_kernel(s, str) ==
  LET len == Len(str) + 1
  IN  IF len > MAX_ARG_STRLEN \/ s.bprm.p - len < s.bprm.argmin
      THEN Panic(s, "out of memory!")
      ELSE CopyBack([s EXCEPT !.bprm.p = @ - len], s.bprm.p, Chars(str))

\* Mutant of copy_strings_kernel: the strings are copied first to last.
copy_strings_kernelForward(s, strs) ==
  FoldLeft(LAMBDA t, str : Then(t, LAMBDA u : copy_string_kernel(u, str)), s, strs)

copy_strings_kernel(s, strs) ==
  FoldLeft(LAMBDA t, str : Then(t, LAMBDA u : copy_string_kernel(u, str)), s, Reverse(strs))

(* Up to the open of the file, which the name space models.                *)
kernel_execve(s, args) ==
  Then(bprm_mm_init(s), LAMBDA a :
  Then(bprm_stack_limits(a, args), LAMBDA b :
  Then(copy_string_kernel(b, args.file), LAMBDA c :
  Then(copy_strings_kernel([c EXCEPT !.bprm.exec = c.bprm.p], args.envp), LAMBDA d :
       copy_strings_kernel(d, args.argv)))))

-----------------------------------------------------------------------------
(* Loading the image.                                                      *)

(* The stack's area gets its final flags and its first growth.             *)
setup_arg_pages(s, exstack) ==
  LET x == s.bprm.vma
      v == s.vma[x]
      rlim == RLIM_STACK - (RLIM_STACK % PAGE_SIZE)
      base == IF v.end - v.start + STACK_EXPAND > rlim THEN v.end - rlim
              ELSE v.start - STACK_EXPAND
  IN  IF exstack THEN Panic(s, "started with executable stack")
      ELSE expand_stack([s EXCEPT !.arg_start = s.bprm.p, !.start_stack = s.bprm.p,
                                  !.vma[x].flags = @ \ VM_STACK_INCOMPLETE_SETUP], x, base)

elf_map(s, ph) ==
  LET inpage == ph.vaddr % PAGE_SIZE
      size == PAGE_ALIGN(ph.filesz + inpage)
  IN  IF size = 0 THEN s
      ELSE vm_mmap(s, ph.vaddr - inpage, size, ph.flags, ph.offset - inpage)

BadSegment(ph) ==
  \/ ph.vaddr >= TASK_SIZE \/ ph.filesz > ph.memsz
  \/ ph.memsz > TASK_SIZE \/ TASK_SIZE - ph.memsz < ph.vaddr

(* One PT_LOAD header; l holds the loop's variables.                       *)
LoadSegment(l, ph) ==
  LET k1 == ph.vaddr + ph.filesz
      k2 == ph.vaddr + ph.memsz
  IN  IF l.s.panic # "" THEN l
      ELSE IF l.brk > l.bss THEN [l EXCEPT !.s = Panic(@, "bad elf_brk or elf_bss!")]
      ELSE Bind(elf_map(l.s, ph), LAMBDA t :
        IF t.panic # "" THEN [l EXCEPT !.s = t]
        ELSE IF BadSegment(ph) THEN [l EXCEPT !.s = Panic(t, "out free dentry!")]
        ELSE [s |-> t,
              load_addr |-> IF l.set THEN l.load_addr ELSE ph.vaddr - ph.offset,
              set |-> TRUE,
              bss |-> Max({l.bss, k1}), brk |-> Max({l.brk, k2}),
              exec |-> IF k2 > l.brk THEN ph.flags \cap {"x"} ELSE l.exec,
              start_code |-> IF "x" \in ph.flags THEN Min({l.start_code, ph.vaddr})
                             ELSE l.start_code,
              end_code |-> IF "x" \in ph.flags THEN Max({l.end_code, k1}) ELSE l.end_code,
              start_data |-> Max({l.start_data, ph.vaddr}),
              end_data |-> Max({l.end_data, k1})])

LoadSegments(s, phdrs) ==
  FoldLeft(LAMBDA l, ph : IF ph.type = "LOAD" THEN LoadSegment(l, ph) ELSE l,
           [s |-> s, load_addr |-> 0, set |-> FALSE, bss |-> 0, brk |-> 0, exec |-> {},
            start_code |-> TASK_SIZE, end_code |-> 0, start_data |-> 0, end_data |-> 0],
           phdrs)

set_brk(s, start, end, exec) ==
  LET a == PAGE_ALIGN(start)
      b == PAGE_ALIGN(end)
  IN  Then(IF b > a THEN vm_brk_flags(s, a, b - a, exec) ELSE s,
           LAMBDA t : [t EXCEPT !.start_brk = b, !.brk = b])

(* prepare_binprm's read, in its two halves.                               *)
HeaderBegin(s, img) == BufferedReadBegin(s, img.size, 0, BINPRM_BUF_SIZE)

HeaderEnd(s, img) == BufferedReadEnd(s, img.size, 0, BINPRM_BUF_SIZE)

(* The consistency checks and load_elf_phdrs up to its read.               *)
PhdrsSize(img) == PHENT * Len(img.phdrs)

PhdrsBegin(s, img) ==
  IF ~img.elf THEN Panic(s, "bad fmt")
  ELSE IF img.phentsize # PHENT THEN Panic(s, "bad phdr!")
  ELSE IF PhdrsSize(img) \notin 1..PAGE_SIZE THEN Panic(s, "bad size!")
  ELSE BufferedReadBegin(s, img.size, img.phoff, PhdrsSize(img))

PhdrsEnd(s, img) ==
  IF Copied(img.size, img.phoff) = 0 THEN Panic(s, "read elf header error!")
  ELSE BufferedReadEnd(s, img.size, img.phoff, PhdrsSize(img))

(* The two passes over the program headers.                                *)
CheckImage(s, img) ==
  IF \E i \in DOMAIN img.phdrs : img.phdrs[i].type = "INTERP"
  THEN Panic(s, "is interp!")
  ELSE IF \E i \in DOMAIN img.phdrs : img.phdrs[i].type = "PROC"
  THEN Panic(s, "bad p_type!")
  ELSE s

ExecutableStack(img) ==
  \E i \in DOMAIN img.phdrs :
    /\ img.phdrs[i].type = "STACK" /\ "x" \in img.phdrs[i].flags
    /\ \A j \in DOMAIN img.phdrs : j > i => img.phdrs[j].type # "STACK"

(* load_elf_binary from the program headers on, up to the clearing of the  *)
(* last page of the data.                                                  *)
load_elf_binary(s, img) ==
  Then(PhdrsEnd(s, img), LAMBDA h :
  Then(CheckImage(h, img), LAMBDA a :
  Then(setup_arg_pages(a, ExecutableStack(img)), LAMBDA b :
  IF img.dyn /\ (\E i \in DOMAIN img.phdrs : img.phdrs[i].type = "LOAD")
  THEN Panic(b, "bad e_type ET_DYN!")
  ELSE Bind(LoadSegments(b, img.phdrs), LAMBDA l :
  Then(l.s, LAMBDA c :
  Then(set_brk(c, l.bss, l.brk, l.exec), LAMBDA d :
    [d EXCEPT !.bprm.load_addr = l.load_addr, !.bprm.bss = l.bss,
              !.bprm.pad = l.bss # l.brk,
              !.bprm.code = [start_code |-> l.start_code, end_code |-> l.end_code,
                             start_data |-> l.start_data, end_data |-> l.end_data]]))))))

Store(addr, cell) == [kind |-> "store", addr |-> addr, cell |-> cell]

(* The stores of clear_user, which memset makes without SR_SUM.            *)
padzero(s) ==
  LET n == s.bprm.bss % PAGE_SIZE
  IN  IF ~s.bprm.pad \/ n = 0 THEN <<>>
      ELSE [i \in 1..(PAGE_SIZE - n) |-> Store(s.bprm.bss + i - 1, Zero)]

-----------------------------------------------------------------------------
(* The tables on the stack.                                                *)

Peek(s, addr) == s.frame[s.pte[PageOf(addr)].frame][addr % PAGE_SIZE]

(* strnlen_user of a string whose page is present, its NUL included.       *)
RECURSIVE strnlen_user(_, _)
strnlen_user(s, p) == IF Peek(s, p) = Zero THEN 1 ELSE 1 + strnlen_user(s, p + 1)

(* The addresses of n strings one after the other from p, and what follows *)
(* the last.                                                               *)
StringsFrom(s, p, n) ==
  FoldLeft(LAMBDA q, i : Append(q, q[Len(q)] + strnlen_user(s, q[Len(q)])),
           <<p>>, [i \in 1..n |-> i])

(* The auxiliary vector, an entry to a cell; the constant ones are left    *)
(* out.                                                                    *)
AuxVector(s, img, rand) ==
  << <<"AT_PHDR", s.bprm.load_addr + img.phoff>>, <<"AT_ENTRY", img.entry>>,
     <<"AT_RANDOM", rand>>, <<"AT_EXECFN", s.bprm.exec>>, <<"AT_NULL", 0>> >>

(* STACK_ROUND: sixteen bytes are two cells.                               *)
STACK_ROUND(sp, items) == (sp - items) - ((sp - items) % 2)

(* What create_elf_tables stores, and the state with its mm fields; the    *)
(* random bytes are left as the kernel's stack has them.                   *)
create_elf_tables(s, img, args) ==
  LET argc == Len(args.argv)
      envc == Len(args.envp)
      rand == s.bprm.p - RAND
      aux == AuxVector(s, img, rand)
      sp == STACK_ROUND(rand - Len(aux), (argc + 1) + (envc + 1) + 1)
      argv == StringsFrom(s, s.arg_start, argc)
      envp == StringsFrom(s, argv[argc + 1], envc)
      words == <<Word(argc)>> \o [i \in 1..argc |-> Word(argv[i])] \o <<Zero>>
               \o [i \in 1..envc |-> Word(envp[i])] \o <<Zero>> \o aux
      stores == [i \in 1..RAND |-> Store(rand + i - 1, <<"rand", i>>)]
                \o [i \in DOMAIN words |-> Store(sp + i - 1, words[i])]
      t == [s EXCEPT !.bprm.p = sp, !.arg_end = argv[argc + 1],
                     !.env_start = argv[argc + 1], !.env_end = envp[envc + 1]]
  IN  IF img.entry >= TASK_SIZE THEN [s |-> Panic(s, "bad elf_entry!"), stores |-> <<>>]
      ELSE [s |-> find_extend_vma(t, sp).s, stores |-> stores]

(* The end of load_elf_binary: the mm fields set last.                     *)
finalize_exec(s) == s.bprm.code @@ [s EXCEPT !.start_stack = s.bprm.p]
=============================================================================
