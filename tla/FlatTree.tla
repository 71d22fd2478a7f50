------------------------------ MODULE FlatTree ------------------------------
(***************************************************************************)
(* The device tree: the flattened blob the boot loader passes, what the    *)
(* early scan takes from it (early_dt/early_dt.c), the tree built from it  *)
(* and the questions drivers ask of that tree (of/).                       *)
(*                                                                         *)
(* A blob is a sequence of tokens [tag, name, val].  An offset is an index *)
(* in it, 0 the "-FDT_ERR_NOTFOUND" of the code.  A node name is a pair    *)
(* <<base, unit>>, unit -1 when it has no "@".  A property value is a      *)
(* sequence of cells, or of strings.  A cell is a digit in base CELL and   *)
(* a u64 holds two.  A tree n maps the offset of each node to its record.  *)
(***************************************************************************)
EXTENDS Values, Integers, Sequences, FiniteSets, FiniteSetsExt

CONSTANTS CELL, PHYS_OFFSET

ASSUME FlatTreeAssumption == CELL \in Nat \ {0, 1} /\ PHYS_OFFSET \in 0..(CELL * CELL - 1)

U64 == CELL * CELL
OF_BAD_ADDR == U64 - 1
NotFound == 0
NULL_NODE == 0

(* The first index of s with the property, 0 when there is none.            *)
FirstOf(s, P(_)) ==
  LET at == {i \in DOMAIN s : P(s[i])} IN IF at = {} THEN 0 ELSE Min(at)

of_read_number(cells, at, size) ==
  FoldSet(LAMBDA i, sum : (sum + cells[at + i] * CELL^(size - i)) % U64, 0, 1..size)

-----------------------------------------------------------------------------
(* The blob.                                                               *)

RECURSIVE NextNode(_, _, _)
NextNode(b, o, depth) ==
  CASE b[o].tag = "BEGIN_NODE" -> <<o, depth + 1>>
    [] b[o].tag = "END_NODE" -> IF depth = 0 THEN <<o + 1, -1>> ELSE NextNode(b, o + 1, depth - 1)
    [] b[o].tag = "END" -> <<NotFound, depth>>
    [] OTHER -> NextNode(b, o + 1, depth)

fdt_next_node(b, o, depth) == NextNode(b, o + 1, depth)

RECURSIVE nextprop_(_, _)
nextprop_(b, o) ==
  CASE b[o].tag = "PROP" -> o
    [] b[o].tag = "NOP" -> nextprop_(b, o + 1)
    [] OTHER -> NotFound

RECURSIVE PropsFrom(_, _)
PropsFrom(b, o) ==
  IF o = NotFound THEN <<>>
  ELSE <<[name |-> b[o].name, val |-> b[o].val]>> \o PropsFrom(b, nextprop_(b, o + 1))

fdt_properties(b, o) == PropsFrom(b, nextprop_(b, o + 1))

fdt_getprop(b, o, name) == FirstOf(fdt_properties(b, o), LAMBDA p : p.name = name)

FlatProp(b, o, name) == fdt_properties(b, o)[fdt_getprop(b, o, name)].val

RECURSIVE ScanFrom(_, _, _)
ScanFrom(b, o, depth) ==
  IF o = NotFound \/ depth < 0 THEN <<>>
  ELSE LET next == fdt_next_node(b, o, depth)
       IN  <<[node |-> o, depth |-> depth]>> \o ScanFrom(b, next[1], next[2])

of_scan_flat_dt(b) ==
  LET first == fdt_next_node(b, 0, -1) IN ScanFrom(b, first[1], first[2])

-----------------------------------------------------------------------------
(* What the early scan keeps: e = [args, addr, size, base, bytes].         *)

(* No u64 exceeds MAX_MEMBLOCK_ADDR: those two tests never hold, and the    *)
(* end of a bank that reaches the top of the address space wraps.           *)
early_init_dt_add_memory_arch(e, base, size, page) ==
  LET into == base % page
      b1 == IF into = 0 THEN base ELSE (base + page - into) % U64
      s1 == IF into = 0 THEN size ELSE size - (page - into)
      s2 == s1 - (s1 % page)
  IN  IF size < page - into \/ (b1 + s2) % U64 < PHYS_OFFSET THEN e
      ELSE IF b1 < PHYS_OFFSET
      THEN [e EXCEPT !.base = PHYS_OFFSET, !.bytes = s2 - (PHYS_OFFSET - b1)]
      ELSE [e EXCEPT !.base = b1, !.bytes = s2]

RECURSIVE AddBanks(_, _, _)
AddBanks(e, reg, page) ==
  LET size == of_read_number(reg, e.addr, e.size)
  IN  IF Len(reg) < e.addr + e.size THEN e
      ELSE AddBanks(IF size = 0 THEN e
                    ELSE early_init_dt_add_memory_arch(e, of_read_number(reg, 0, e.addr), size, page),
                    SubSeq(reg, e.addr + e.size + 1, Len(reg)), page)

early_init_dt_scan_root(e, b, o) ==
  LET Cells(name) == IF fdt_getprop(b, o, name) = 0 THEN 1 ELSE FlatProp(b, o, name)[1]
  IN  [e EXCEPT !.addr = Cells("#address-cells"), !.size = Cells("#size-cells")]

early_init_dt_scan_memory(e, b, o, page) ==
  IF /\ fdt_getprop(b, o, "device_type") # 0
     /\ FlatProp(b, o, "device_type") = <<"memory">>
     /\ fdt_getprop(b, o, "reg") # 0
  THEN AddBanks(e, FlatProp(b, o, "reg"), page)
  ELSE e

IsChosen(b, at) ==
  at.depth = 1 /\ b[at.node].name \in {<<"chosen", -1>>, <<"chosen", 0>>}

early_init_dt_scan_chosen(e, b, o) ==
  IF fdt_getprop(b, o, "bootargs") = 0 THEN e
  ELSE [e EXCEPT !.args = FlatProp(b, o, "bootargs")]

RECURSIVE ScanMemory(_, _, _, _)
ScanMemory(e, b, scan, page) ==
  IF scan = <<>> THEN e
  ELSE ScanMemory(early_init_dt_scan_memory(e, b, scan[1].node, page), b, Tail(scan), page)

(* No chosen node is the panic of the first scan: the result is "".         *)
early_init_dt_scan_nodes(b, page) ==
  LET scan == of_scan_flat_dt(b)
      chosen == FirstOf(scan, LAMBDA at : IsChosen(b, at))
      e0 == [args |-> <<>>, addr |-> 0, size |-> 0, base |-> 0, bytes |-> 0, found |-> chosen # 0]
      root == scan[FirstOf(scan, LAMBDA at : at.depth = 0)].node
  IN  IF chosen = 0 THEN e0
      ELSE ScanMemory(early_init_dt_scan_root(
                        early_init_dt_scan_chosen(e0, b, scan[chosen].node), b, root),
                      b, scan, page)

-----------------------------------------------------------------------------
(* Unflattening.                                                           *)

Phandles == {"phandle", "linux,phandle"}

populate_properties(b, o) ==
  fdt_properties(b, o) \o <<[name |-> "name", val |-> <<b[o].name[1]>>]>>

phandle_of(b, o) ==
  LET props == fdt_properties(b, o)
      at == FirstOf(props, LAMBDA p : p.name \in Phandles /\ p.val[1] # 0)
  IN  IF at = 0 THEN 0 ELSE props[at].val[1]

populate_node(n, b, o, dad) ==
  LET np == [full |-> b[o].name, parent |-> dad, child |-> NULL_NODE,
             sibling |-> IF dad = NULL_NODE THEN NULL_NODE ELSE n[dad].child,
             props |-> populate_properties(b, o), phandle |-> phandle_of(b, o)]
  IN  [x \in DOMAIN n \cup {o} |->
         IF x = o THEN np
         ELSE IF x = dad THEN [n[x] EXCEPT !.child = o]
         ELSE n[x]]

(* nps[d + 1] is the last node put at depth d                                *)
RECURSIVE PopulateFrom(_, _, _, _, _)
PopulateFrom(n, b, o, depth, nps) ==
  IF o = NotFound \/ depth < 0 THEN n
  ELSE LET next == fdt_next_node(b, o, depth)
       IN  PopulateFrom(populate_node(n, b, o, nps[depth + 1]), b, next[1], next[2],
                        SubSeq(nps, 1, depth + 1) \o <<o>>)

RECURSIVE SiblingsFrom(_, _)
SiblingsFrom(n, x) == IF x = NULL_NODE THEN <<>> ELSE <<x>> \o SiblingsFrom(n, n[x].sibling)

Children(n, x) == SiblingsFrom(n, n[x].child)

Relink(n, p, kids) ==
  [x \in DOMAIN n |->
     LET at == FirstOf(kids, LAMBDA k : k = x)
     IN  IF x = p THEN [n[x] EXCEPT !.child = IF kids = <<>> THEN NULL_NODE ELSE kids[1]]
         ELSE IF at = 0 THEN n[x]
         ELSE [n[x] EXCEPT !.sibling = IF at = Len(kids) THEN NULL_NODE ELSE kids[at + 1]]]

\* Mutant of reverse_nodes: the children's own children stay in reverse.
reverse_nodesTop(n, p) ==
  LET kids == Children(n, p)
  IN  Relink(n, p, [i \in DOMAIN kids |-> kids[Len(kids) + 1 - i]])

RECURSIVE reverse_nodes(_, _), ReverseAll(_, _)
reverse_nodes(n, p) ==
  LET kids == Children(n, p)
  IN  Relink(ReverseAll(n, kids), p, [i \in DOMAIN kids |-> kids[Len(kids) + 1 - i]])
ReverseAll(n, kids) ==
  IF kids = <<>> THEN n ELSE ReverseAll(reverse_nodes(n, kids[1]), Tail(kids))

of_root == 1

unflatten_dt_nodes(b) ==
  reverse_nodes(PopulateFrom(<<>>, b, of_root, 0, <<NULL_NODE>>), of_root)

-----------------------------------------------------------------------------
(* Questions about the tree.                                               *)

of_find_property(n, x, name) == FirstOf(n[x].props, LAMBDA p : p.name = name)

HasProp(n, x, name) == of_find_property(n, x, name) # 0

of_get_property(n, x, name) == n[x].props[of_find_property(n, x, name)].val

(* of_property_read_u32 fails: the property is missing or shorter than a cell *)
NoU32(n, x, name) == ~HasProp(n, x, name) \/ of_get_property(n, x, name) = <<>>

read_u32(n, x, name) == of_get_property(n, x, name)[1]

RECURSIVE UpNext(_, _)
UpNext(n, x) ==
  IF n[x].parent # NULL_NODE /\ n[x].sibling = NULL_NODE THEN UpNext(n, n[x].parent)
  ELSE n[x].sibling

__of_find_all_nodes(n, prev) ==
  CASE prev = NULL_NODE -> of_root
    [] prev # NULL_NODE /\ n[prev].child # NULL_NODE -> n[prev].child
    [] OTHER -> UpNext(n, prev)

RECURSIVE AllFrom(_, _)
AllFrom(n, prev) ==
  LET x == __of_find_all_nodes(n, prev) IN IF x = NULL_NODE THEN <<>> ELSE <<x>> \o AllFrom(n, x)

of_allnodes(n) == AllFrom(n, NULL_NODE)

of_find_node_by_phandle(n, handle) ==
  LET found == SelectSeq(of_allnodes(n), LAMBDA x : n[x].phandle = handle)
  IN  IF handle = 0 \/ found = <<>> THEN NULL_NODE ELSE found[1]

RECURSIVE __of_find_node_by_full_path(_, _, _)
__of_find_node_by_full_path(n, x, path) ==
  LET kids == Children(n, x)
      at == FirstOf(kids, LAMBDA k : n[k].full = path[1])
  IN  IF path = <<>> THEN x
      ELSE IF at = 0 THEN NULL_NODE
      ELSE __of_find_node_by_full_path(n, kids[at], Tail(path))

of_find_node_by_path(n, path) == __of_find_node_by_full_path(n, of_root, path)

(* The node of stdout-path.  An /aliases node is a panic; a path that starts *)
(* with an alias finds nothing, of_aliases being NULL.                      *)
of_alias_scan(n) ==
  LET c0 == of_find_node_by_path(n, <<<<"chosen", -1>>>>)
      chosen == IF c0 = NULL_NODE THEN of_find_node_by_path(n, <<<<"chosen", 0>>>>) ELSE c0
      name == IF chosen = NULL_NODE THEN "none"
              ELSE IF HasProp(n, chosen, "stdout-path") THEN "stdout-path"
              ELSE IF HasProp(n, chosen, "linux,stdout-path") THEN "linux,stdout-path"
              ELSE "none"
  IN  IF of_find_node_by_path(n, <<<<"aliases", -1>>>>) # NULL_NODE THEN [panic |-> TRUE, stdout |-> 0]
      ELSE [panic |-> FALSE,
            stdout |-> IF name = "none" THEN NULL_NODE
                       ELSE of_find_node_by_path(n, of_get_property(n, chosen, name)[1])]

RECURSIVE of_bus_n_cells(_, _, _)
of_bus_n_cells(n, x, name) ==
  IF x = NULL_NODE THEN 1
  ELSE IF NoU32(n, x, name) THEN of_bus_n_cells(n, n[x].parent, name)
  ELSE read_u32(n, x, name)

BusOf(n, x) == IF n[x].parent # NULL_NODE THEN n[x].parent ELSE x
of_n_addr_cells(n, x) == of_bus_n_cells(n, BusOf(n, x), "#address-cells")
of_n_size_cells(n, x) == of_bus_n_cells(n, BusOf(n, x), "#size-cells")

__of_device_is_available(n, x) ==
  HasProp(n, x, "status") => of_get_property(n, x, "status") \in {<<"okay">>, <<"ok">>}

-----------------------------------------------------------------------------
(* Matching a node against a table of [compatible, type, name], "" for none. *)

BestScore == 1000   (* INT_MAX / 2 *)

__of_device_is_compatible(n, x, m) ==
  LET list == IF HasProp(n, x, "compatible") THEN of_get_property(n, x, "compatible") ELSE <<>>
      at == FirstOf(list, LAMBDA c : c = m.compatible)
      typed == HasProp(n, x, "device_type") /\ of_get_property(n, x, "device_type")[1] = m.type
  IN  IF \/ m.compatible # "" /\ at = 0
         \/ m.type # "" /\ ~typed
         \/ m.name # "" /\ n[x].full[1] # m.name
      THEN 0
      ELSE (IF m.compatible # "" THEN BestScore - 4 * (at - 1) ELSE 0)
           + (IF m.type # "" THEN 2 ELSE 0) + (IF m.name # "" THEN 1 ELSE 0)

(* The index of the first entry with the best score, 0 when none matches.   *)
of_match_node(n, x, matches) ==
  LET score == [i \in DOMAIN matches |-> __of_device_is_compatible(n, x, matches[i])]
  IN  FirstOf(score, LAMBDA s : s > 0 /\ \A j \in DOMAIN score : score[j] <= s)

-----------------------------------------------------------------------------
(* Addresses.                                                              *)

Panicked == -2

of_bus_default_map(addr, r, na, ns, pna) ==
  LET cp == of_read_number(r, 0, na)
      s == of_read_number(r, na + pna, ns)
      da == of_read_number(addr, 0, na)
  IN  IF da < cp \/ da >= (cp + s) % U64 THEN OF_BAD_ADDR ELSE da - cp

of_bus_default_translate(addr, offset, na) ==
  LET a == (of_read_number(addr, 0, na) + offset) % U64
  IN  [i \in 1..na |-> IF i = na THEN a % CELL ELSE IF i = na - 1 THEN a \div CELL ELSE 0]

(* <<>> is the failure of the code                                          *)
of_translate_one(n, x, addr, na, ns, pna) ==
  LET rone == na + pna + ns
      Entries(ranges) == [k \in 1..(Len(ranges) \div rone) |->
                            SubSeq(ranges, (k - 1) * rone + 1, k * rone)]
      Through(r) == of_bus_default_translate(SubSeq(r, na + 1, na + pna),
                                             of_bus_default_map(addr, r, na, ns, pna), pna)
      First(rs) == FirstOf(rs, LAMBDA r : of_bus_default_map(addr, r, na, ns, pna) # OF_BAD_ADDR)
      One(rs) == Bind(First(rs), LAMBDA k : IF k = 0 THEN <<>> ELSE Through(rs[k]))
  IN  IF of_get_property(n, x, "ranges") = <<>>
      THEN of_bus_default_translate([i \in 1..pna |-> 0], of_read_number(addr, 0, na), pna)
      ELSE One(Entries(of_get_property(n, x, "ranges")))

OF_CHECK_COUNTS(na, ns) == na \in 1..4 /\ ns > 0

(* x is the bus whose cells na and ns address addr                           *)
RECURSIVE TranslateUp(_, _, _, _, _)
TranslateUp(n, x, addr, na, ns) ==
  LET pna == of_n_addr_cells(n, x)
      pns == of_n_size_cells(n, x)
      Up(cells) == IF cells = <<>> THEN OF_BAD_ADDR ELSE TranslateUp(n, n[x].parent, cells, pna, pns)
  IN  IF n[x].parent = NULL_NODE THEN of_read_number(addr, 0, na)
      ELSE IF ~OF_CHECK_COUNTS(pna, pns) \/ ~HasProp(n, x, "ranges") THEN Panicked
      ELSE Up(of_translate_one(n, x, addr, na, ns, pna))

of_translate_address(n, x, addr) ==
  LET na == of_n_addr_cells(n, x)
      ns == of_n_size_cells(n, x)
  IN  IF n[x].parent = NULL_NODE \/ ~OF_CHECK_COUNTS(na, ns) THEN OF_BAD_ADDR
      ELSE TranslateUp(n, n[x].parent, SubSeq(addr, 1, na), na, ns)

(* The cells of the index-th entry of reg, <<>> when there is none.          *)
of_get_address(n, x, index) ==
  LET na == of_n_addr_cells(n, x)
      one == na + of_n_size_cells(n, x)
      reg == of_get_property(n, x, "reg")
  IN  IF n[x].parent = NULL_NODE \/ na \notin 1..4 \/ ~HasProp(n, x, "reg") THEN <<>>
      ELSE IF Len(reg) < (index + 1) * one THEN <<>>
      ELSE SubSeq(reg, index * one + 1, (index + 1) * one)

(* <<>> on failure, <<start, end>> otherwise                                 *)
of_address_to_resource(n, x, index) ==
  LET Size(cells) == Bind(of_n_addr_cells(n, x), LAMBDA na : of_read_number(cells, na, Len(cells) - na))
      Span(taddr, cells) ==
        IF taddr = Panicked THEN <<Panicked, Panicked>>
        ELSE IF taddr = OF_BAD_ADDR THEN <<>>
        ELSE <<taddr, (taddr + Size(cells) - 1) % U64>>
  IN  Bind(of_get_address(n, x, index), LAMBDA cells :
        IF cells = <<>> THEN <<>> ELSE Span(of_translate_address(n, x, cells), cells))

RECURSIVE Resources(_, _, _)
Resources(n, x, i) ==
  Bind(of_address_to_resource(n, x, i), LAMBDA r :
    IF r = <<>> THEN <<>> ELSE <<r>> \o Resources(n, x, i + 1))

-----------------------------------------------------------------------------
(* The index-th entry of a list of phandles with arguments: a record of rc, *)
(* the provider np and the argument cells.                                 *)

ArgCount(n, ph, cells_name) ==
  IF ph = 0 THEN 0
  ELSE Bind(of_find_node_by_phandle(n, ph), LAMBDA np :
         IF np = NULL_NODE \/ NoU32(n, np, cells_name) THEN Panicked ELSE read_u32(n, np, cells_name))

RECURSIVE PhandleFrom(_, _, _, _)
PhandleFrom(n, list, cells_name, index) ==
  LET Fails(rc) == [rc |-> rc, np |-> 0, args |-> <<>>]
      Entry(count) ==
        IF count = Panicked \/ 1 + count > Len(list) THEN Fails("panic")
        ELSE IF index > 0
        THEN PhandleFrom(n, SubSeq(list, count + 2, Len(list)), cells_name, index - 1)
        ELSE IF list[1] = 0 THEN Fails("ENOENT")
        ELSE [rc |-> "ok", np |-> of_find_node_by_phandle(n, list[1]), args |-> SubSeq(list, 2, count + 1)]
  IN  IF list = <<>> THEN Fails("ENOENT") ELSE Entry(ArgCount(n, list[1], cells_name))

of_parse_phandle_with_args(n, x, list_name, cells_name, index) ==
  PhandleFrom(n, IF HasProp(n, x, list_name) THEN of_get_property(n, x, list_name) ELSE <<>>,
              cells_name, index)

-----------------------------------------------------------------------------
(* The tree the blob describes, told without either walk: a node's parent  *)
(* is the innermost node still open where it begins.                       *)

Opens(b) == {i \in DOMAIN b : b[i].tag = "BEGIN_NODE"}
ParentIn(b, x) ==
  LET open[i \in 0..Len(b)] ==          (* the nodes open after token i *)
        IF i = 0 THEN <<NULL_NODE>>
        ELSE CASE b[i].tag = "BEGIN_NODE" -> <<i>> \o open[i - 1]
               [] b[i].tag = "END_NODE" -> Tail(open[i - 1])
               [] OTHER -> open[i - 1]
  IN  Head(open[x - 1])

TreeIsBlob(n, b) ==
  /\ DOMAIN n = Opens(b)
  /\ \A x \in DOMAIN n : n[x].parent = ParentIn(b, x) /\ n[x].full = b[x].name
  /\ LET all == of_allnodes(n)
     IN  /\ Len(all) = Cardinality(Opens(b))
         /\ \A i, j \in DOMAIN all : i < j => all[i] < all[j]
=============================================================================
