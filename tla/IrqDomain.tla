----------------------------- MODULE IrqDomain -----------------------------
(***************************************************************************)
(* Interrupt numbers: descriptors and domains (irq/), the specifiers of    *)
(* the device tree (of_irq/), the hart's controller (intc/) and the PLIC   *)
(* (plic/).                                                                *)
(*                                                                         *)
(* The kernel state is a record k that every module of the device model    *)
(* shares.  Here: n the device tree, flags the nodes marked OF_POPULATED,  *)
(* v the virtual areas, desc the descriptors by number, domains the list   *)
(* of domains (newest first), arch whether handle_arch_irq is set, sie the *)
(* lines enabled in the hart, plic the driver's state, regs what was       *)
(* written to the PLIC, ret what the last call returned and stop the panic *)
(* that ended it all, "" while there is none.                              *)
(***************************************************************************)
EXTENDS FlatTree, Vmap

CONSTANTS NR_IRQS, RV_IRQ_EXT, INTC_LINES, MAX_PHANDLE_ARGS

ASSUME IrqAssumption ==
  /\ {NR_IRQS, RV_IRQ_EXT, INTC_LINES, MAX_PHANDLE_ARGS} \subseteq Nat \ {0}
  /\ RV_IRQ_EXT < INTC_LINES /\ RV_IRQ_EXT < NR_IRQS

Panic(k, why) == [k EXCEPT !.stop = IF @ = "" THEN why ELSE @]

(* op, unless the kernel has stopped                                         *)
Then(k, op(_)) == IF k.stop # "" THEN k ELSE op(k)

(* op over a sequence, in order                                              *)
Each(k, op(_, _), s) ==
  LET upto[i \in 0..Len(s)] ==
        IF i = 0 THEN k
        ELSE IF upto[i - 1].stop # "" THEN upto[i - 1] ELSE op(upto[i - 1], s[i])
  IN  upto[Len(s)]

-----------------------------------------------------------------------------
(* Specifiers.  A result is [rc, np, args]; rc "panic" where the code does.  *)

\* Mutant of of_irq_find_parent: a bus without an interrupt parent ends the search.
of_irq_find_parentNear(n, x) ==
  IF NoU32(n, x, "interrupt-parent") THEN NULL_NODE
  ELSE of_find_node_by_phandle(n, read_u32(n, x, "interrupt-parent"))

RECURSIVE of_irq_find_parent(_, _)
of_irq_find_parent(n, x) ==
  Bind(IF NoU32(n, x, "interrupt-parent") THEN n[x].parent
       ELSE of_find_node_by_phandle(n, read_u32(n, x, "interrupt-parent")), LAMBDA p :
    IF p = NULL_NODE \/ HasProp(n, p, "#interrupt-cells") THEN p ELSE of_irq_find_parent(n, p))

RECURSIVE Cursor(_, _)
Cursor(n, x) ==
  IF x = NULL_NODE \/ ~NoU32(n, x, "#interrupt-cells") THEN x
  ELSE Cursor(n, of_irq_find_parent(n, x))

RECURSIVE AddrSize(_, _)
AddrSize(n, x) ==
  IF x = NULL_NODE THEN 2
  ELSE IF HasProp(n, x, "#address-cells") THEN read_u32(n, x, "#address-cells")
  ELSE AddrSize(n, n[x].parent)

of_irq_parse_raw(n, spec) ==
  LET Good(ipar) == /\ ipar # NULL_NODE
                    /\ Len(spec.args) = read_u32(n, ipar, "#interrupt-cells")
                    /\ AddrSize(n, ipar) + Len(spec.args) <= MAX_PHANDLE_ARGS
                    /\ HasProp(n, ipar, "interrupt-controller")
  IN  [spec EXCEPT !.rc = IF Good(Cursor(n, spec.np)) THEN "ok" ELSE "panic"]

of_irq_parse_one(n, x, index) ==
  LET EINVAL == [rc |-> "EINVAL", np |-> NULL_NODE, args |-> <<>>]
      ints == of_get_property(n, x, "interrupts")
      Cells(p, intsize) ==
        IF intsize > 0 /\ (~HasProp(n, x, "interrupts") \/ Len(ints) < (index + 1) * intsize)
        THEN EINVAL
        ELSE of_irq_parse_raw(n, [rc |-> "ok", np |-> p,
                 args |-> SubSeq(ints, index * intsize + 1, (index + 1) * intsize)])
      Below(p) == IF p = NULL_NODE \/ NoU32(n, p, "#interrupt-cells") THEN EINVAL
                  ELSE Cells(p, read_u32(n, p, "#interrupt-cells"))
  IN  Bind(of_parse_phandle_with_args(n, x, "interrupts-extended", "#interrupt-cells", index),
        LAMBDA ext : CASE ext.rc = "ok" -> of_irq_parse_raw(n, ext)
                       [] ext.rc = "panic" -> ext
                       [] OTHER -> Below(of_irq_find_parent(n, x)))

(* Every specifier up to the first that does not parse.                      *)
RECURSIVE Specifiers(_, _, _)
Specifiers(n, x, nr) ==
  Bind(of_irq_parse_one(n, x, nr), LAMBDA spec :
    CASE spec.rc = "ok" -> <<spec>> \o Specifiers(n, x, nr + 1)
      [] spec.rc = "panic" -> <<spec>>
      [] OTHER -> <<>>)

-----------------------------------------------------------------------------
(* Descriptors and domains.                                                *)

NoAction == 0

NewDesc == [chip |-> "none", hwirq |-> 0, domain |-> NULL_NODE, flow |-> "none", action |-> NoAction]

irq_to_desc(k, irq) == irq \in DOMAIN k.desc

alloc_descs(k, start) ==
  [k EXCEPT !.ret = start,
            !.desc = [i \in DOMAIN k.desc \cup {start} |-> IF i = start THEN NewDesc ELSE k.desc[i]]]

(* The first free number from a given one on; one past the last panics.      *)
__irq_alloc_descs(k, from) ==
  Bind(Min((from..NR_IRQS) \ DOMAIN k.desc), LAMBDA start :
    IF start + 1 > NR_IRQS THEN Panic(k, "need to extend!") ELSE alloc_descs(k, start))

(* Starting again from 1 comes too late: no room has panicked by then.       *)
irq_domain_alloc_descs(k, hwirq) == __irq_alloc_descs(k, Max({hwirq % NR_IRQS, 1}))

irq_find_host(k, node) == FirstOf(k.domains, LAMBDA d : d.node = node)

__irq_domain_add(k, node, size, kind) ==
  [k EXCEPT !.domains = <<[node |-> node, size |-> size, kind |-> kind,
                           revmap |-> [h \in 0..(size - 1) |-> 0]]>> \o @]

irq_domain_set_mapping(k, virq) ==
  LET i == irq_find_host(k, k.desc[virq].domain)
      h == k.desc[virq].hwirq
  IN  IF h < k.domains[i].size THEN [k EXCEPT !.domains[i].revmap[h] = virq]
      ELSE Panic(k, "hwirq too large!")

irq_domain_alloc_irq_data(k, virq, node) == [k EXCEPT !.desc[virq].domain = node]

irq_domain_set_hwirq_and_chip(k, virq, node, hwirq, chip) ==
  IF k.desc[virq].domain # node THEN Panic(k, "no irq data!")
  ELSE [k EXCEPT !.desc[virq].hwirq = hwirq, !.desc[virq].chip = chip]

__irq_set_handler(k, virq, flow) ==
  IF irq_to_desc(k, virq) THEN [k EXCEPT !.desc[virq].flow = flow] ELSE k

irq_domain_set_info(k, virq, node, hwirq, chip, flow) ==
  __irq_set_handler(irq_domain_set_hwirq_and_chip(k, virq, node, hwirq, chip), virq, flow)

riscv_intc_domain_map(k, virq, node, hwirq) ==
  irq_domain_set_info(k, virq, node, hwirq, "intc", "percpu_devid")

irq_domain_associate(k, node, virq, hwirq) ==
  IF k.desc[virq].domain # NULL_NODE THEN Panic(k, "BUG: irq_data->domain")
  ELSE Then(riscv_intc_domain_map([k EXCEPT !.desc[virq].hwirq = hwirq, !.desc[virq].domain = node],
                                  virq, node, hwirq),
            LAMBDA k1 : irq_domain_set_mapping(k1, virq))

(* irq_create_mapping: the hart's domain.                                    *)
irq_create_mapping(k, node, hwirq) ==
  Then(irq_domain_alloc_descs(k, hwirq), LAMBDA k1 : irq_domain_associate(k1, node, k1.ret, hwirq))

-----------------------------------------------------------------------------
(* The PLIC driver.  Enables are per context, priorities per line.           *)

plic_toggle(k, hwirq, on) ==
  LET one == {<<k.plic.context, hwirq>>}
  IN  [k EXCEPT !.regs.enable = IF on THEN @ \cup one ELSE @ \ one]

plic_irq_toggle(k, hwirq, on) ==
  plic_toggle([k EXCEPT !.regs.priority = IF on THEN @ \cup {hwirq} ELSE @ \ {hwirq}], hwirq, on)

plic_set_affinity(k, hwirq) == plic_irq_toggle(plic_irq_toggle(k, hwirq, FALSE), hwirq, TRUE)

__irq_set_affinity(k, virq) ==
  IF irq_to_desc(k, virq) THEN plic_set_affinity(k, k.desc[virq].hwirq) ELSE k

plic_irqdomain_map(k, virq, node, hwirq) ==
  __irq_set_affinity(irq_domain_set_info(k, virq, node, hwirq, "plic", "fasteoi"), virq)

irq_domain_translate_onecell(spec) == spec.args[1]

plic_irq_domain_alloc(k, virq, node, spec) ==
  plic_irqdomain_map(k, virq, node, irq_domain_translate_onecell(spec))

(* The hint for the number is line 0, whatever line is mapped.               *)
__irq_domain_alloc_irqs(k, node, spec) ==
  Then(irq_domain_alloc_descs(k, 0), LAMBDA k1 :
    Then(plic_irq_domain_alloc(irq_domain_alloc_irq_data(k1, k1.ret, node), k1.ret, node, spec),
         LAMBDA k2 : irq_domain_set_mapping(k2, k1.ret)))

(* A line mapped twice gets a second number, which replaces the first in   *)
(* the domain.                                                             *)
irq_create_fwspec_mapping(k, spec, d) ==
  IF d = 0 THEN Panic(k, "no irq domain found!")
  ELSE IF spec.args = <<>> THEN Panic(k, "BUG: param_count")
  ELSE IF k.domains[d].kind = "plic" THEN __irq_domain_alloc_irqs(k, spec.np, spec)
  ELSE irq_create_mapping(k, spec.np, irq_domain_translate_onecell(spec))

irq_create_of_mapping(k, spec) ==
  irq_create_fwspec_mapping(k, spec, irq_find_host(k, spec.np))

irq_of_parse_and_map(k, spec) == irq_create_of_mapping(k, spec)

of_irq_get(k, x, index) ==
  Bind(of_irq_parse_one(k.n, x, index), LAMBDA spec :
    CASE spec.rc = "ok" -> irq_create_of_mapping(k, spec)
      [] spec.rc = "panic" -> Panic(k, "bad interrupt specifier")
      [] OTHER -> [k EXCEPT !.ret = 0])

ioremap(k, start, size, junk) ==
  Bind(ioremap_prot([k.v EXCEPT !.ret = 0], start, size, junk), LAMBDA v :
    [Panic(k, v.stop) EXCEPT !.v = v, !.ret = v.ret])

of_iomap(k, x, index, junk) ==
  Bind(of_address_to_resource(k.n, x, index), LAMBDA r :
    IF r = <<>> THEN [k EXCEPT !.ret = 0]
    ELSE IF r[1] = Panicked THEN Panic(k, "no ranges")
    ELSE ioremap(k, r[1], (r[2] - r[1]) + 1, junk))

(* One context of plic_init's loop.                                          *)
PlicContext(k, x, i, spec) ==
  LET Chained(k1) == IF k1.stop # "" THEN k1
                     ELSE __irq_set_handler([k1 EXCEPT !.plic.parent = k1.ret], k1.ret, "plic_handle_irq")
      Parent == IF k.plic.parent = 0 /\ irq_find_host(k, spec.np) # 0
                THEN Chained(irq_of_parse_and_map(k, spec)) ELSE k
  IN  IF spec.args[1] # RV_IRQ_EXT THEN k ELSE [Parent EXCEPT !.plic.context = i, !.plic.node = x]

riscv_intc_irq_unmask(k, hwirq) == [k EXCEPT !.sie = @ \cup {hwirq}]

enable_percpu_irq(k, irq) ==
  IF irq_to_desc(k, irq) THEN riscv_intc_irq_unmask(k, k.desc[irq].hwirq) ELSE k

plic_starting_cpu(k) ==
  IF k.plic.parent = 0 THEN Panic(k, "parent irq not available")
  ELSE [enable_percpu_irq(k, k.plic.parent) EXCEPT !.regs.threshold = @ \cup {k.plic.context}]

plic_init(k, x, junk) ==
  LET Added(k1) == __irq_domain_add([k1 EXCEPT !.plic.base = k1.ret], x,
                                    read_u32(k.n, x, "riscv,ndev") + 1, "plic")
      Contexts(k1, specs) == Each(k1, LAMBDA kk, i : PlicContext(kk, x, i - 1, specs[i]),
                                  [i \in DOMAIN specs |-> i])
      Started(k1, specs) ==
        IF k1.ret = 0 THEN Panic(k1, "bad regs!")
        ELSE IF read_u32(k.n, x, "riscv,ndev") = 0 THEN Panic(k1, "out iounmap!")
        ELSE IF \E i \in DOMAIN specs : specs[i].rc = "panic"
        THEN Panic(k1, "bad interrupt specifier")
        ELSE Then(Contexts(Added(k1), specs), plic_starting_cpu)
  IN  Then(of_iomap(k, x, 0, junk), LAMBDA k1 : Started(k1, Specifiers(k.n, x, 0)))

set_handle_irq(k) == IF k.arch THEN Panic(k, "failed to set irq handler") ELSE [k EXCEPT !.arch = TRUE]

riscv_intc_init(k, x) == set_handle_irq(__irq_domain_add(k, x, INTC_LINES, "intc"))

(* The nodes of_irq_init finds, in tree order; each is marked and started.   *)
Controllers(n, compatible) ==
  SelectSeq(of_allnodes(n), LAMBDA x :
    /\ of_match_node(n, x, <<[compatible |-> compatible, type |-> "", name |-> ""]>>) # 0
    /\ HasProp(n, x, "interrupt-controller")
    /\ __of_device_is_available(n, x))

irq_init_cb(k, x, compatible, junk) ==
  CASE compatible = "riscv,cpu-intc" -> riscv_intc_init(k, x)
    [] compatible = "riscv,plic0" -> plic_init(k, x, junk)

of_irq_init(k, compatible, junk) ==
  Each(k, LAMBDA kk, x : irq_init_cb([kk EXCEPT !.flags = @ \cup {x}], x, compatible, junk),
       Controllers(k.n, compatible))

-----------------------------------------------------------------------------
(* From a trap to a handler.                                               *)

__setup_irq(k, irq, action) ==
  IF k.desc[irq].chip = "none" THEN [k EXCEPT !.ret = -1]
  ELSE [k EXCEPT !.desc[irq].action = action, !.ret = 0]

(* action is the device that asked                                           *)
request_threaded_irq(k, irq, action) ==
  IF irq_to_desc(k, irq) THEN __setup_irq(k, irq, action) ELSE [k EXCEPT !.ret = -1]

(* What a number's flow handler does: "plic" runs plic_handle_irq, "none"    *)
(* is a number with no descriptor.                                         *)
generic_handle_irq(k, irq) ==
  IF ~irq_to_desc(k, irq) THEN "none"
  ELSE CASE k.desc[irq].flow = "plic_handle_irq" -> "plic"
         [] k.desc[irq].flow = "percpu_devid" -> "panic"      (* it has no action *)
         [] OTHER -> "device"

(* The number is the line itself: the domain is not asked.                   *)
__handle_domain_irq(k, hwirq) ==
  IF hwirq = 0 \/ hwirq >= NR_IRQS THEN "panic" ELSE generic_handle_irq(k, hwirq)

IRQ_S_SOFT == 1

riscv_intc_irq(k, cause) ==
  IF cause >= INTC_LINES \/ cause = IRQ_S_SOFT THEN "panic" ELSE __handle_domain_irq(k, cause)

(* The descriptor of a claimed line, 0 where plic_handle_irq panics.         *)
irq_find_mapping(k, hwirq) ==
  LET d == k.domains[irq_find_host(k, k.plic.node)]
  IN  IF hwirq < d.size THEN d.revmap[hwirq] ELSE 0
=============================================================================
