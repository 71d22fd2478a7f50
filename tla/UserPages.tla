----------------------------- MODULE UserPages ------------------------------
(***************************************************************************)
(* The pages of a user address space: the page cache of the program's file *)
(* with its read-ahead (readahead/, filemap/), the page tables and the     *)
(* faults that fill them (mm/mm.c, pgalloc/), and the access to the pages  *)
(* of another address space (gup/).  To AddrSpace's record are added       *)
(*   cache  the pages of the file in its mapping, each with PageUptodate,  *)
(*          PageReadahead and PageError,                                   *)
(*   pte    the present entries of the page tables, by virtual page: the   *)
(*          frame and the permission bits,                                 *)
(*   frame  the cells of every page frame.                                 *)
(* A frame of the page cache is <<"file", index>>, and one allocated by a  *)
(* fault is <<"own", virtual page>>; no page is ever unmapped, so a        *)
(* virtual page gets at most one.  A pmd exists once one of its entries    *)
(* is set.  A cell holds a word, a character, or the file's or the disk    *)
(* block's byte at an offset.                                              *)
(***************************************************************************)
EXTENDS AddrSpace

CONSTANTS PTRS_PER_PTE,     \* pages under one pmd
          FAULT_AROUND,     \* fault_around_bytes, in pages
          VM_READAHEAD_PAGES,
          Extents           \* the first page of each run of contiguous blocks

ASSUME UserPagesAssumption ==
  /\ FAULT_AROUND \in {2^k : k \in 1..4} /\ PTRS_PER_PTE % FAULT_AROUND = 0
  /\ VM_READAHEAD_PAGES \in Nat /\ 0 \in Extents

Word(n) == <<"word", n>>

Zero == Word(0)

Offsets == 0..(PAGE_SIZE - 1)

NoEntry == [x \in {} |-> 0]

With(f, x, v) == [y \in DOMAIN f \cup {x} |-> IF y = x THEN v ELSE f[y]]

(* What the disk holds for page i of the file.                             *)
OnDisk(i) == [o \in Offsets |-> <<"byte", i * PAGE_SIZE + o>>]

Pages(size) == PageOf(size + PAGE_SIZE - 1)

-----------------------------------------------------------------------------
(* Read-ahead.  A page enters the cache when its read is submitted; EndIO  *)
(* makes it up to date, or marks the error and leaves it for ever.         *)

get_init_ra_size(size, max) ==
  LET newsize == CHOOSE p \in {2^k : k \in 0..10} : p >= size /\ p < 2 * size
  IN  IF newsize <= max \div 32 THEN newsize * 4
      ELSE IF newsize <= max \div 4 THEN newsize * 2
      ELSE max

(* Pages the cache has are left alone; the page async pages before the end *)
(* of the request is marked PG_readahead.                                  *)
page_cache_readahead_unbounded(s, index, nr, async) ==
  LET new == (index..(index + nr - 1)) \ DOMAIN s.cache
  IN  [s EXCEPT
        !.cache = [i \in new \cup DOMAIN @ |->
                     IF i \in new THEN [up |-> FALSE, err |-> FALSE, ra |-> i - index = nr - async]
                     ELSE @[i]],
        !.frame = [f \in {<<"file", i>> : i \in new} \cup DOMAIN @ |->
                     IF f \in DOMAIN @ THEN @[f] ELSE OnDisk(f[2])]]

__do_page_cache_readahead(s, size, index, nr, async) ==
  LET end_index == Pages(size) - 1
  IN  IF size = 0 \/ index > end_index THEN s
      ELSE page_cache_readahead_unbounded(s, index,
             IF nr > end_index - index THEN end_index - index + 1 ELSE nr, async)

page_cache_sync_readahead(s, size, index, req) ==
  LET n == get_init_ra_size(req, VM_READAHEAD_PAGES)
  IN  IF VM_READAHEAD_PAGES = 0 THEN s
      ELSE IF index # 0 THEN Panic(s, "BUG_ON(index)")
      ELSE __do_page_cache_readahead(s, size, index, n, IF n > req THEN n - req ELSE n)

InFlight(s) == {i \in DOMAIN s.cache : ~s.cache[i].up /\ ~s.cache[i].err}

(* The bio that reads page i ends: do_mpage_readpage cuts a bio where the  *)
(* blocks are not contiguous.                                              *)
EndIO(s, i, ok) ==
  LET ended == {j \in InFlight(s) : {e \in Extents : e <= j} = {e \in Extents : e <= i}}
  IN  [s EXCEPT !.cache = [j \in DOMAIN @ |->
         IF j \in ended THEN [@[j] EXCEPT !.up = ok, !.err = ~ok] ELSE @[j]]]

(* generic_file_buffered_read of len bytes at pos, up to the loop that     *)
(* waits for the page, and from there on.  It copies from one page only:   *)
(* it returns 0 when the file ends before pos.                             *)
BufferedReadBegin(s, size, pos, len) ==
  LET i == PageOf(pos)
  IN  Then(IF i \in DOMAIN s.cache THEN s
           ELSE page_cache_sync_readahead(s, size, i, Pages(pos + len) - i),
           LAMBDA t : IF i \notin DOMAIN t.cache THEN Panic(t, "no cached page!")
                      ELSE IF t.cache[i].ra THEN Panic(t, "page readahead!")
                      ELSE t)

Copied(size, pos) ==
  Max({0, Min({PAGE_SIZE, size - PageOf(pos) * PAGE_SIZE}) - (pos % PAGE_SIZE)})

BufferedReadEnd(s, size, pos, len) ==
  IF Copied(size, pos) \in 1..(len - 1) THEN Panic(s, "copy page error!") ELSE s

-----------------------------------------------------------------------------
(* Page table entries.                                                     *)

(* protection_map for a private mapping: no entry of it has the write bit. *)
vm_get_page_prot(flags) ==
  [r |-> IF "x" \in flags THEN "r" \in flags ELSE flags \cap {"r", "w"} # {},
   w |-> FALSE, x |-> "x" \in flags]

mk_pte(f, flags) == [frame |-> f, prot |-> vm_get_page_prot(flags)]

maybe_mkwrite(e, flags) == [e EXCEPT !.prot.w = "w" \in flags]

pmd_none(s, vp) ==
  \A p \in DOMAIN s.pte : p \div PTRS_PER_PTE # vp \div PTRS_PER_PTE

-----------------------------------------------------------------------------
(* The faults.  Each returns the state; a fault that only started the read *)
(* of its page leaves the entry empty, and the access faults again.  fast  *)
(* says that the page's read ends well before the handler looks at it.     *)

do_anonymous_page(s, x, vp) ==
  IF vp \in DOMAIN s.pte THEN Panic(s, "bad pte!")
  ELSE [s EXCEPT !.pte = With(@, vp, mk_pte(<<"own", vp>>, s.vma[x].flags)),
                 !.frame = With(@, <<"own", vp>>, [o \in Offsets |-> Zero])]

\* Mutant of Window: the end of the area does not bound the window.
WindowOver(s, x, vp, pgoff) ==
  LET first == Max({vp - (vp % FAULT_AROUND), PageOf(s.vma[x].start)})
      start == pgoff - (vp - first)
      end == Min({start - (first % PTRS_PER_PTE) + PTRS_PER_PTE - 1,
                  start + FAULT_AROUND - 1})
  IN  [pages |-> start..end, shift |-> first - start]

(* The pages of the file that map_pages may map around virtual page vp,    *)
(* and the virtual page the first of the window would have.                *)
Window(s, x, vp, pgoff) ==
  LET v == s.vma[x]
      first == Max({vp - (vp % FAULT_AROUND), PageOf(v.start)})
      start == pgoff - (vp - first)
      end == Min({start - (first % PTRS_PER_PTE) + PTRS_PER_PTE - 1,
                  PageOf(v.end - v.start) + v.pgoff - 1,
                  start + FAULT_AROUND - 1})
  IN  [pages |-> start..end, shift |-> first - start]

filemap_map_pages(s, x, w, size) ==
  LET found == {i \in w.pages \cap DOMAIN s.cache :
                  s.cache[i].up /\ ~s.cache[i].ra /\ i < Pages(size)}
      new == {i + w.shift : i \in found} \ DOMAIN s.pte
  IN  IF found = {} THEN Panic(s, "no pte!")
      ELSE [s EXCEPT !.pte = [p \in new \cup DOMAIN @ |->
              IF p \in new THEN mk_pte(<<"file", p - w.shift>>, s.vma[x].flags) ELSE @[p]]]

do_fault_around(s, x, vp, pgoff, size) ==
  Bind(Window(s, x, vp, pgoff), LAMBDA w : filemap_map_pages(s, x, w, size))

\* Mutant of filemap_fault: a fault that waited always asks for a retry.
filemap_faultRetry(s, pgoff, size, fast) ==
  LET start == Max({0, pgoff - VM_READAHEAD_PAGES \div 2})
      sync == __do_page_cache_readahead(s, size, start, VM_READAHEAD_PAGES,
                                        VM_READAHEAD_PAGES \div 4)
      t == IF pgoff \in DOMAIN s.cache THEN s ELSE sync
      u == IF fast THEN EndIO(t, pgoff, TRUE) ELSE t
  IN  IF pgoff >= Pages(size) THEN [s |-> s, ret |-> "SIGBUS"]
      ELSE IF ~u.cache[pgoff].up
      THEN [s |-> Panic(u, "page not uptodate!"), ret |-> "panic"]
      ELSE [s |-> u, ret |-> "RETRY"]

(* The state and what became of the fault.                                 *)
filemap_fault(s, pgoff, size, fast) ==
  LET start == Max({0, pgoff - VM_READAHEAD_PAGES \div 2})
      sync == __do_page_cache_readahead(s, size, start, VM_READAHEAD_PAGES,
                                        VM_READAHEAD_PAGES \div 4)
      t == IF pgoff \in DOMAIN s.cache THEN s ELSE sync
      u == IF fast THEN EndIO(t, pgoff, TRUE) ELSE t
  IN  IF pgoff >= Pages(size) THEN [s |-> s, ret |-> "SIGBUS"]
      ELSE IF ~u.cache[pgoff].up
      THEN [s |-> Panic(u, "page not uptodate!"), ret |-> "panic"]
      ELSE [s |-> u, ret |-> IF pgoff \in DOMAIN s.cache THEN "LOCKED" ELSE "RETRY"]

do_read_fault(s, x, vp, pgoff, size, fast) ==
  Then(do_fault_around(s, x, vp, pgoff, size), LAMBDA t :
    IF vp \in DOMAIN t.pte THEN t
    ELSE Bind(filemap_fault(t, pgoff, size, fast), LAMBDA r :
      IF r.ret # "LOCKED" THEN r.s
      ELSE [r.s EXCEPT !.pte = With(@, vp, mk_pte(<<"file", pgoff>>, t.vma[x].flags))]))

do_cow_fault(s, x, vp, pgoff, size, fast) ==
  Bind(filemap_fault(s, pgoff, size, fast), LAMBDA r :
    IF r.ret # "LOCKED" THEN r.s
    ELSE [r.s EXCEPT
           !.frame = With(@, <<"own", vp>>, @[<<"file", pgoff>>]),
           !.pte = With(@, vp, maybe_mkwrite(mk_pte(<<"own", vp>>, s.vma[x].flags),
                                             s.vma[x].flags))])

linear_page_index(v, address) == PageOf(address - v.start) + v.pgoff

handle_mm_fault(s, x, address, write, size, fast) ==
  LET vp == PageOf(address)
      pgoff == linear_page_index(s.vma[x], address)
  IN  IF vp \in DOMAIN s.pte THEN Panic(s, "handle_pte_fault: !")
      ELSE IF ~s.vma[x].file THEN do_anonymous_page(s, x, vp)
      ELSE IF write THEN do_cow_fault(s, x, vp, pgoff, size, fast)
      ELSE do_read_fault(s, x, vp, pgoff, size, fast)

Needs(kind) == CASE kind = "load" -> "r" [] kind = "store" -> "w" [] OTHER -> "x"

_do_page_fault(s, kind, addr, size, fast) ==
  Bind(find_vma(s, addr), LAMBDA x :
  LET Good(t) == IF Needs(kind) \notin t.vma[x].flags THEN Panic(t, "bad vm_flags!")
                 ELSE handle_mm_fault(t, x, addr, kind = "store", size, fast)
  IN  IF x = Unset THEN Panic(s, "vma not set")
      ELSE IF s.vma[x].start <= addr THEN Good(s)
      ELSE IF "down" \notin s.vma[x].flags THEN Panic(s, "nearest: bad vm_flags!")
      ELSE Then(expand_stack(s, x, addr), Good))

-----------------------------------------------------------------------------
(* get_user_pages_remote for one page of an anonymous area.                *)

find_extend_vma(s, addr) ==
  Bind(find_vma(s, PageOf(addr) * PAGE_SIZE), LAMBDA x :
    IF x = Unset THEN [x |-> x, s |-> Panic(s, "vma not set")]
    ELSE IF s.vma[x].start <= PageOf(addr) * PAGE_SIZE THEN [x |-> x, s |-> s]
    ELSE [x |-> x, s |-> Panic(s, "find_extend_vma: !")])

follow_page_mask(s, x, address) ==
  IF pmd_none(s, PageOf(address)) THEN handle_mm_fault(s, x, address, TRUE, 0, TRUE)
  ELSE IF PageOf(address) \notin DOMAIN s.pte THEN Panic(s, "pte NOT present!")
  ELSE s

get_user_pages_remote(s, start) ==
  Bind(find_extend_vma(s, start), LAMBDA r :
    Then(r.s, LAMBDA t : follow_page_mask(t, r.x, start)))
=============================================================================
