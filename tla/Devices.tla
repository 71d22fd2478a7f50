------------------------------ MODULE Devices ------------------------------
(***************************************************************************)
(* A machine coming up: the modules initialise one after the other, in any *)
(* order that respects the symbols they take from each other; devices      *)
(* raise their lines, the hart traps and the PLIC driver claims and        *)
(* completes; and a process writes to the console while the UART sends.    *)
(*                                                                         *)
(* The machine is chosen at the start: its device tree blob, and the       *)
(* devices that are really there with their addresses and lines.           *)
(***************************************************************************)
EXTENDS DriverCore

CONSTANTS
  Boards,            (* the machines                                           *)
  UART_XMIT_SIZE,    (* the transmit ring, a power of two                      *)
  CHUNK,             (* the 2048 bytes do_tty_write hands on at once           *)
  TX_LOADSZ,         (* what a 16550A takes at once                            *)
  MaxWrite, MaxBytes,(* bounds on one write and on all of them                 *)
  MaxAsserts         (* how often devices raise a line: requests outstanding   *)

ASSUME DevicesAssumption == U64 = ULONG_MAX + 1     (* both are 64 bits *)

VARIABLES
  board, k,
  loaded,            (* modules whose init_module has run                      *)
  asserted,          (* devices holding their line up                          *)
  raised,            (* how often one was raised                               *)
  trap,              (* [at, line]: where the trap handler is                  *)
  tty                (* the console's ring, UART and the write in progress     *)

vars == <<board, k, loaded, asserted, raised, trap, tty>>

Modules ==
  {"early_dt", "of", "irq", "intc", "plic", "platform", "virtio", "virtio_mmio", "virtio_blk", "of_serial"}

(* Which modules' symbols an init_module needs.                              *)
Needs(m) ==
  CASE m \in {"early_dt", "virtio"} -> {}
    [] m \in {"of", "irq"} -> {"early_dt"}
    [] m \in {"intc", "plic"} -> {"of", "irq"}
    [] m = "platform" -> {"intc", "plic"}
    [] m = "virtio_mmio" -> {"platform", "virtio"}
    [] m = "virtio_blk" -> {"virtio"}
    [] m = "of_serial" -> {"platform"}

NoTree == [x \in {} |-> 0]

DevicesInit ==
  /\ board \in Boards
  /\ k = [n |-> NoTree, early |-> <<>>, stdout |-> 0, flags |-> {}, popbus |-> {}, v |-> VmapInit,
          desc |-> [i \in {} |-> NewDesc], domains |-> <<>>, arch |-> FALSE, sie |-> {}, ie |-> FALSE,
          plic |-> [parent |-> 0, context |-> -1, node |-> 0, base |-> 0],
          regs |-> [enable |-> {}, priority |-> {}, threshold |-> {}],
          bus |-> [b \in {"platform", "virtio"} |-> [up |-> FALSE, devs |-> <<>>, drivers |-> <<>>]],
          devs |-> <<>>, windows |-> {}, vindex |-> 0, vdindex |-> 0, depth |-> 0, major |-> 0,
          disks |-> <<>>, probes |-> <<>>, ports |-> [i \in 0..(NR_UARTS - 1) |-> NoPort],
          con |-> [index |-> -1, enabled |-> FALSE, linked |-> FALSE],
          uart |-> [up |-> FALSE, ldisc |-> FALSE, console |-> FALSE, ttys |-> {}, ports |-> {}, cdevs |-> {}],
          cmd |-> [list |-> <<>>, preferred |-> 0], hw |-> board.hw, ret |-> 0, stop |-> ""]
  /\ loaded = {} /\ asserted = {} /\ raised = 0
  /\ trap = [at |-> "none", line |-> 0]
  /\ tty = [open |-> FALSE, error |-> FALSE, count |-> 0, head |-> 0, tail |-> 0, load |-> 0, depth |-> 0, left |-> 0, accepted |-> 0,
            buf |-> [i \in 0..(UART_XMIT_SIZE - 1) |-> 0], fifo |-> <<>>, wire |-> <<>>]

-----------------------------------------------------------------------------
(* init_module of each module.                                              *)

(* parse_dtb and the "console=" parameters of the command line.              *)
early_dt_init(kk) ==
  LET e == early_init_dt_scan_nodes(board.blob, PAGE_SIZE)
      Args[i \in 0..Len(e.args)] ==
        IF i = 0 THEN kk.cmd
        ELSE __add_preferred_console(Args[i - 1], e.args[i].name, e.args[i].index, e.args[i].options)
  IN  IF ~e.found THEN Panic(kk, "No chosen node found!")
      ELSE [kk EXCEPT !.early = e, !.cmd = Args[Len(e.args)]]

(* The name of of_stdout is printed whether or not there is such a node.     *)
unflatten_device_tree(kk) ==
  LET n == unflatten_dt_nodes(board.blob)
      scan == of_alias_scan(n)
  IN  IF scan.panic THEN Panic(kk, "no aliases!")
      ELSE IF scan.stdout = NULL_NODE THEN Panic([kk EXCEPT !.n = n], "of_stdout is NULL")
      ELSE [kk EXCEPT !.n = n, !.stdout = scan.stdout]

platform_init(kk) ==
  IF ~{"intc", "plic"} \subseteq loaded THEN Panic(kk, "BUG: controllers")
  ELSE of_platform_populate(platform_bus_init(kk))

init_module(m, kk, junk) ==
  CASE m = "early_dt" -> early_dt_init(kk)
    [] m = "of" -> unflatten_device_tree(kk)
    [] m = "irq" -> [kk EXCEPT !.ie = TRUE]
    [] m = "intc" -> of_irq_init(kk, "riscv,cpu-intc", junk)
    [] m = "plic" -> of_irq_init(kk, "riscv,plic0", junk)
    [] m = "platform" -> platform_init(kk)
    [] m = "virtio" -> bus_register(kk, "virtio")
    [] m = "virtio_mmio" -> driver_register(kk, "virtio-mmio", junk)
    [] m = "virtio_blk" -> Then(register_blkdev(kk, {}), LAMBDA k1 : driver_register(k1, "virtio_blk", junk))
    [] m = "of_serial" -> driver_register(serial8250_init(tty_init(tty_register_ldisc(kk))), "of_serial", junk)

Running == k.stop = ""

Load(m) ==
  /\ Running /\ trap.at = "none" /\ m \notin loaded /\ Needs(m) \subseteq loaded
  /\ \E junk \in Junk : k' = init_module(m, k, junk)
  /\ loaded' = loaded \cup {m}
  /\ UNCHANGED <<board, asserted, raised, trap, tty>>

-----------------------------------------------------------------------------
(* Interrupts.  The PLIC (external) offers a context the enabled lines that *)
(* are up, have a priority above the threshold and are not in service.      *)

Pending ==
  {l \in k.regs.priority :
     /\ \E h \in asserted : k.hw[h].line = l
     /\ <<board.context, l>> \in k.regs.enable
     /\ board.context \in k.regs.threshold
     /\ l # trap.line}

(* A block device that is ready returns a buffer.                            *)
Assert(d) ==
  /\ Running /\ k.devs[d].bus = "virtio" /\ "DRIVER_OK" \in k.devs[d].status
  /\ \E h \in {RegsAt(k, k.devs[d].base)} \ asserted : asserted' = asserted \cup {h}
  /\ raised < MaxAsserts /\ raised' = raised + 1
  /\ UNCHANGED <<board, k, loaded, trap, tty>>

(* handle_exception enters handle_arch_irq with interrupts off.              *)
Trap ==
  /\ Running /\ k.ie /\ trap.at = "none" /\ RV_IRQ_EXT \in k.sie /\ Pending # {}
  /\ LET flow == riscv_intc_irq(k, RV_IRQ_EXT)
     IN  /\ trap' = [trap EXCEPT !.at = IF flow = "plic" THEN "claim" ELSE "none"]
         /\ k' = IF flow \in {"plic", "none"} THEN k ELSE Panic(k, "no action")
  /\ UNCHANGED <<board, loaded, asserted, raised, tty>>

(* The loop of plic_handle_irq: claim a line ...                             *)
plic_handle_irq ==
  /\ Running /\ trap.at = "claim"
  /\ IF Pending = {} THEN trap' = [trap EXCEPT !.at = "none"] /\ UNCHANGED k
     ELSE IF irq_find_mapping(k, Min(Pending)) <= 0
     THEN k' = Panic(k, "can't find mapping") /\ UNCHANGED trap
     ELSE trap' = [at |-> "handle", line |-> Min(Pending)] /\ UNCHANGED k
  /\ UNCHANGED <<board, loaded, asserted, raised, tty>>

(* ... run the handler, vm_interrupt, which acknowledges its own device ...  *)
vm_interrupt ==
  /\ Running /\ trap.at = "handle"
  /\ LET d == k.desc[irq_find_mapping(k, trap.line)].action
     IN  asserted' = IF d = NoAction THEN asserted ELSE asserted \ {RegsAt(k, k.devs[d].base)}
  /\ trap' = [trap EXCEPT !.at = "eoi"]
  /\ UNCHANGED <<board, k, loaded, raised, tty>>

\* Mutant of plic_irq_eoi: the line is not completed.
plic_irq_eoiNot ==
  /\ Running /\ trap.at = "eoi"
  /\ trap' = [trap EXCEPT !.at = "claim"]
  /\ UNCHANGED <<board, k, loaded, asserted, raised, tty>>

(* ... and complete the line the descriptor stands for.                      *)
plic_irq_eoi ==
  /\ Running /\ trap.at = "eoi"
  /\ LET hwirq == k.desc[irq_find_mapping(k, trap.line)].hwirq
     IN  trap' = [at |-> "claim", line |-> IF hwirq = trap.line THEN 0 ELSE trap.line]
  /\ UNCHANGED <<board, k, loaded, asserted, raised, tty>>

-----------------------------------------------------------------------------
(* The console.  Byte i is the i-th ever written.                            *)

\* Mutant of CIRC_SPACE_TO_END: no slot is kept free, so a full ring looks empty.
CIRC_SPACE_TO_ENDFull(head, tail) ==
  LET end == UART_XMIT_SIZE - head
      n == (end + tail) % UART_XMIT_SIZE
  IN  IF n = 0 \/ n > end THEN end ELSE n

CIRC_SPACE_TO_END(head, tail) ==
  LET end == UART_XMIT_SIZE - 1 - head
      n == (end + tail) % UART_XMIT_SIZE
  IN  IF n <= end THEN n ELSE end + 1

(* uart_config[type].tx_loadsz: the table ends at the 16550A, a larger type *)
(* reads past it.                                                           *)
tx_loadsz(type) ==
  CASE type = "ns16550a" -> {TX_LOADSZ}
    [] type \in {"ns16750", "ns16850"} -> 0..UART_XMIT_SIZE
    [] OTHER -> {1}

(* The FIFO of the UART the port's window reaches (external).                *)
Fifo(port) == LET h == RegsAt(k, port.membase) IN IF h = 0 THEN 0 ELSE k.hw[h].num

(* /dev/console leads to the line of the registered console, -1 for none.    *)
console_device(kk) == IF kk.con.linked THEN kk.con.index ELSE -1

tty_ldisc_init(kk) == IF kk.uart.ldisc THEN kk ELSE Panic(kk, "no ld ops!")

tty_init_dev(kk, index) ==
  Then(tty_ldisc_init(kk), LAMBDA k1 : [k1 EXCEPT !.uart.ttys = @ \cup {index}])

(* A tty is opened once: a second open stops the machine.                    *)
tty_open_by_driver(kk, index) ==
  IF index < 0 THEN Panic(kk, "bad driver!")
  ELSE IF index \in kk.uart.ttys THEN Panic(kk, "find tty!")
  ELSE tty_init_dev(kk, index)

(* serial8250_do_startup: the load size of the type.                         *)
serial8250_do_startup(t, port, load) == [t EXCEPT !.load = load, !.depth = Fifo(port)]

uart_port_startup(t, port, load) ==
  IF port.type = "unknown" THEN [t EXCEPT !.error = TRUE]
  ELSE serial8250_do_startup([t EXCEPT !.head = 0, !.tail = 0], port, load)

(* tty_port_open activates a port that is not initialized yet.               *)
tty_port_open(t, port, load) ==
  IF t.open THEN t ELSE [uart_port_startup(t, port, load) EXCEPT !.open = TRUE]

tty_open ==
  /\ Running /\ trap.at = "none" /\ "of_serial" \in loaded /\ tty.left = 0 /\ tty.count = 0
  /\ k' = tty_open_by_driver(k, console_device(k))
  /\ IF k'.stop # "" THEN UNCHANGED tty
     ELSE \E port \in {k.ports[k.con.index]} : \E load \in tx_loadsz(port.type) :
            tty' = tty_port_open(tty, port, load)
  /\ UNCHANGED <<board, loaded, asserted, raised, trap>>

(* A write of /dev/console, -EIO from a tty in error.  The process that      *)
(* writes was read from a disk, so every module is in.                      *)
tty_write ==
  /\ Running /\ loaded = Modules /\ tty.open /\ ~tty.error /\ tty.left = 0 /\ tty.count = 0 /\ trap.at = "none"
  /\ \E n \in 1..MaxWrite : /\ tty.accepted + n <= MaxBytes
                            /\ tty' = [tty EXCEPT !.count = n]
  /\ UNCHANGED <<board, k, loaded, asserted, raised, trap>>

(* do_tty_write hands n_tty_write a chunk at a time.                         *)
do_tty_write ==
  /\ Running /\ tty.count > 0 /\ tty.left = 0 /\ trap.at = "none"
  /\ tty' = [tty EXCEPT !.left = Min({tty.count, CHUNK}), !.count = @ - Min({tty.count, CHUNK})]
  /\ UNCHANGED <<board, k, loaded, asserted, raised, trap>>

(* One turn of uart_write's loop: fill the ring as far as it runs straight.  *)
Fill(t) ==
  LET c == Min({CIRC_SPACE_TO_END(t.head, t.tail), t.left})
  IN  [t EXCEPT !.buf = [i \in DOMAIN t.buf |->
                           IF i \in t.head..(t.head + c - 1)
                           THEN t.accepted + (i - t.head) + 1 ELSE t.buf[i]],
                !.head = (t.head + c) % UART_XMIT_SIZE,
                !.left = @ - c, !.accepted = @ + c]

(* Move bytes to the UART until the ring is empty or the load size is used  *)
(* up, one at least if there is one; serial_out to a UART whose FIFO is full loses the byte. *)
serial8250_tx_chars(t) ==
  LET pending == (t.head + UART_XMIT_SIZE - t.tail) % UART_XMIT_SIZE
      count == IF pending = 0 THEN 0 ELSE Max({1, Min({t.load, pending})})
      bytes == [i \in 1..count |-> t.buf[(t.tail + i - 1) % UART_XMIT_SIZE]]
  IN  [t EXCEPT !.fifo = @ \o SubSeq(bytes, 1, Min({count, t.depth - Len(@)})),
                !.tail = (@ + count) % UART_XMIT_SIZE]

\* Mutant of __start_tx: sending waits until the whole write is in the ring.
__start_txLate(t) == IF t.fifo = <<>> /\ t.left = 0 THEN serial8250_tx_chars(t) ELSE t

__start_tx(t) == IF t.fifo = <<>> THEN serial8250_tx_chars(t) ELSE t

(* One turn of n_tty_write's loop: uart_write, whose own loop ends after the *)
(* ring's two stretches, and __start_tx.                                     *)
uart_write ==
  /\ Running /\ tty.left > 0 /\ trap.at = "none"
  /\ \E t \in {Fill(tty)} : \E t1 \in {Fill(t)} : tty' = __start_tx(t1)
  /\ UNCHANGED <<board, k, loaded, asserted, raised, trap>>

(* The UART shifts a byte out (external).                                    *)
Send ==
  /\ Running /\ tty.fifo # <<>>
  /\ tty' = [tty EXCEPT !.wire = Append(@, Head(tty.fifo)), !.fifo = Tail(@)]
  /\ UNCHANGED <<board, k, loaded, asserted, raised, trap>>

Next ==
  \/ \E m \in Modules : Load(m)
  \/ \E d \in 1..Len(k.devs) : Assert(d)
  \/ Trap \/ plic_handle_irq \/ vm_interrupt \/ plic_irq_eoi
  \/ tty_open \/ tty_write \/ do_tty_write \/ uart_write \/ Send

(* The hart takes a pending interrupt and runs on; the UART keeps sending.   *)
DevicesSpec ==
  /\ DevicesInit /\ [][Next]_vars
  /\ WF_vars(Trap) /\ WF_vars(plic_handle_irq) /\ WF_trap(vm_interrupt) /\ WF_trap(plic_irq_eoi)
  /\ WF_tty(do_tty_write) /\ WF_tty(uart_write) /\ WF_tty(Send)
-----------------------------------------------------------------------------
(* What should hold.  board.hw, board.context, board.memory, board.stdout   *)
(* and board.console are what the machine is, told without the blob.        *)

(* The tree that unflatten_device_tree links has the blob's nodes, each     *)
(* under the node that encloses it, and is walked in the blob's order, and  *)
(* of_stdout is the port that stdout-path names; the early scan kept        *)
(* exactly the whole pages of the last bank above the start of RAM, and     *)
(* none of a bank that ends at the top of the address space.                *)
TreeMatches ==
  /\ "of" \in loaded /\ Running =>
       TreeIsBlob(k.n, board.blob) /\ k.n[k.stdout].full = board.stdout
  /\ "early_dt" \in loaded /\ Running =>
       {a \in 0..(U64 - 1) : k.early.base <= a /\ a < k.early.base + k.early.bytes}
         = {a \in PHYS_OFFSET..(U64 - 1) :
              LET page == a - (a % PAGE_SIZE)
                  end == board.memory[1] + board.memory[2]
              IN  board.memory[1] <= page /\ page + PAGE_SIZE <= end /\ end < U64}

Disk(h) == h.kind = "virtio" /\ h.on /\ h.id = VIRTIO_ID_BLOCK

(* The modules that must not be the next one, on this machine.              *)
Fatal(m) ==
  CASE m = "of" -> board.stdout = <<>>
    [] m = "plic" -> "intc" \notin loaded
    [] m = "virtio_mmio" -> "virtio_blk" \in loaded /\ \E h \in Range(board.hw) : Disk(h)
    [] m = "virtio_blk" ->
         "virtio_mmio" \in loaded /\ \E h \in Range(board.hw) : Disk(h) /\ h.refuses
    [] OTHER -> FALSE

(* Which loading orders come up is known in advance: init_module of a       *)
(* module stops the kernel exactly when there is no stdout node to name,    *)
(* the PLIC comes before the hart's controller, virtio-mmio finds a disk    *)
(* after its driver, or a disk refuses the features, and never for another  *)
(* reason in any of the orders that the symbols allow.  After loading, no   *)
(* interrupt and no write stops it; opening the console does, when the      *)
(* command line chose no console this driver has or it is open already.     *)
ComesUp ==
  [][/\ \A m \in loaded' \ loaded : ~Running' <=> Fatal(m)
     /\ loaded' = loaded /\ ~Running' =>
          k'.stop = (IF board.console THEN "find tty!" ELSE "bad driver!")
     /\ ~tty.open /\ tty'.open => board.console /\ Running'
     /\ k'.stop = "find tty!" => tty.open]_vars

(* Devices have names of their own and are probed once at most.  Once every *)
(* module is in, each device the tree enables has been probed, through a    *)
(* window that reaches that very device; a placeholder is left alone; a     *)
(* block device has one bound driver and one disk.                          *)
DevicesBound ==
  /\ \A d, e \in DOMAIN k.devs :
       k.devs[d].probes <= 1 /\ (k.devs[d].name = k.devs[e].name => d = e)
  /\ loaded = Modules /\ Running =>
       \A h \in {i \in DOMAIN k.hw : k.hw[i].on} :
         LET On(bus) == {d \in DOMAIN k.devs : /\ k.devs[d].bus = bus /\ k.devs[d].base # 0
                                               /\ RegsAt(k, k.devs[d].base) = h}
             Disks == {i \in DOMAIN k.disks : k.disks[i].dev \in On("virtio")}
         IN  CASE k.hw[h].kind = "uart" -> RegsAt(k, k.ports[0].membase) = h
               [] k.hw[h].kind = "plic" -> RegsAt(k, k.plic.base) = h
               [] k.hw[h].kind = "virtio" ->
                    /\ Cardinality(On("platform")) = 1
                    /\ \A d \in On("platform") : k.devs[d].bound = (k.hw[h].id # 0)
                    /\ Cardinality(On("virtio")) = IF k.hw[h].id = 0 THEN 0 ELSE 1
                    /\ \A d \in On("virtio") : k.devs[d].bound = (k.hw[h].id = VIRTIO_ID_BLOCK)
                    /\ Cardinality(Disks) = IF k.hw[h].id = VIRTIO_ID_BLOCK THEN 1 ELSE 0

(* Looking a disk's partition up by name gives a number that leads back to  *)
(* that disk, for every partition number it has.                            *)
DisksFound ==
  \A i \in DOMAIN k.disks : \A part \in 0..(k.disks[i].minors - 1) :
    get_gendisk(k, blk_lookup_devt(k, k.disks[i].name, part)) = i

(* The areas of vma.c partition the address space in two balanced trees     *)
(* whose cached sizes are exact, every ioremap translates byte for byte to  *)
(* the range asked for, and a search passes over an area only when it might *)
(* not fit.                                                                 *)
IoAreasExact ==
  /\ AreasExact(k.v) /\ MapsExact(k.v)
  /\ \A pages \in 1..3 : LowestSure(k.v, pages * PAGE_SIZE, PAGE_SIZE)

(* The lines devices raise are all acknowledged at the device that raised   *)
(* them once no more are raised: the number a descriptor was given, the     *)
(* domain's map, the PLIC's context and the order of claim and completion   *)
(* agree.                                                                   *)
LineServed == asserted # {} ~> (asserted = {} \/ ~Running)

RECURSIVE Ring(_, _)
Ring(t, at) == IF at = t.head THEN <<>> ELSE <<t.buf[at]>> \o Ring(t, (at + 1) % UART_XMIT_SIZE)

(* Bytes reach the wire in the order written, none lost or repeated: sent,  *)
(* in the FIFO and in the ring, in that order, are all that uart_write took. *)
ConsoleOrder ==
  tty.wire \o tty.fifo \o Ring(tty, tty.tail) = [i \in 1..tty.accepted |-> i]

(* A write to the console returns: both loops end.                           *)
WriteReturns == tty.left + tty.count > 0 ~> (tty.left + tty.count = 0 \/ ~Running)
=============================================================================
