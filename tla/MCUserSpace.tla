---------------------------- MODULE MCUserSpace -----------------------------
(* Programs, arguments and accesses for UserSpace: pages of 16 cells.      *)
EXTENDS UserSpace

Load(vaddr, offset, filesz, memsz, flags) ==
  [type |-> "LOAD", vaddr |-> vaddr, offset |-> offset, filesz |-> filesz,
   memsz |-> memsz, flags |-> flags]

Header(type, flags) ==
  [type |-> type, vaddr |-> 0, offset |-> 0, filesz |-> 0, memsz |-> 0, flags |-> flags]

Image(size, entry, phdrs) ==
  [elf |-> TRUE, dyn |-> FALSE, size |-> size, phoff |-> 4, entry |-> entry,
   phentsize |-> PHENT, phdrs |-> phdrs]

(* Text in pages 2 and 3; data in 5 and 6, from pages of the file that the *)
(* read of the header does not bring in; bss up to page 7.                 *)
Plain == Image(90, 40, <<Header("STACK", {"r", "w"}), Load(32, 0, 28, 28, {"r", "x"}),
                         Load(84, 68, 20, 30, {"r", "w"})>>)

(* Text and data share a page of the file; the program headers are in the  *)
(* page before.                                                            *)
Shared == [Image(60, 40, <<Load(32, 0, 40, 40, {"r", "x"}), Load(104, 40, 8, 8, {"r", "w"})>>)
           EXCEPT !.phoff = 36]

(* The file ends before the data.                                          *)
Truncated == Image(64, 40, <<Load(32, 0, 28, 28, {"r", "x"}),
                             Load(84, 68, 20, 20, {"r", "w"})>>)

(* Three pages: the mark of the read-ahead falls on the first.             *)
Three == Image(40, 40, <<Load(32, 0, 28, 28, {"r", "x"})>>)

TwoBss == Image(90, 40, <<Load(32, 0, 10, 30, {"r", "w"}), Load(84, 68, 20, 30, {"r", "w"})>>)

Refused == {[Plain EXCEPT !.elf = FALSE], [Plain EXCEPT !.dyn = TRUE],
            [Plain EXCEPT !.phdrs[1].flags = {"r", "w", "x"}],
            [Plain EXCEPT !.phdrs[1].type = "INTERP"], TwoBss,
            [Plain EXCEPT !.phentsize = 1], [Plain EXCEPT !.phdrs = <<>>],
            [Plain EXCEPT !.phdrs[2].filesz = 400], [Plain EXCEPT !.size = 8]}
           \cup {[Plain EXCEPT !.phoff = o] : o \in {12, 20, 44, 84}}
           \cup {[Shared EXCEPT !.phoff = 62]}

Few == [file |-> <<9>>, argv |-> <<<<>>>>, envp |-> <<>>]

Some == [file |-> <<9>>, argv |-> <<<<1>>, <<2, 3>>>>, envp |-> <<<<4>>>>]

(* More than the page the stack starts with.                               *)
Many == [file |-> <<9, 9>>, argv |-> <<[i \in 1..14 |-> 1]>>, envp |-> <<>>]

MCPrograms ==
  {<<Plain, Few>>, <<Plain, Many>>, <<Shared, Some>>, <<Truncated, Few>>, <<Three, Few>>}
  \cup {<<i, Few>> : i \in Refused}

(* Below the image, in the text, between text and data, in the data, the   *)
(* bss and the heap, below the stack and in it.                            *)
MCAccesses ==
  {<<"load", a>> : a \in {8, 70, 90, 100, 130, 200}} \cup {<<"fetch", 40>>}
  \cup {<<"store", a>> : a \in {70, 90, 118, 130, 200, 245, 300}}
=============================================================================
