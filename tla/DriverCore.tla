----------------------------- MODULE DriverCore -----------------------------
(***************************************************************************)
(* Devices and drivers: the buses and the binding of drivers to devices    *)
(* (kobject/), the platform devices made from the device tree (platform/), *)
(* their register windows (devres/), the virtio-mmio transport and virtio  *)
(* core (virtio/, virtio_mmio/), the probe of the virtio block driver      *)
(* (virtio_blk/), disks and their numbers (genhd/, kobject/map.c), and the *)
(* probe of the serial port and the choice of the console (of_serial/,     *)
(* lib/printk.c).                                                          *)
(*                                                                         *)
(* Fields of k used here: bus the two buses, devs every device in order of *)
(* creation, popbus the nodes marked OF_POPULATED_BUS, windows the claimed *)
(* physical ranges, vindex and vdindex the counters of virtio devices and  *)
(* disks, depth the static virtblk_queue_depth, major the number of        *)
(* virtblk, disks the block class, probes the hash chain of that major,    *)
(* ports the serial ports, uart what the serial module has registered, con *)
(* the console, cmd the "console=" parameters, and hw the devices the      *)
(* machine really has, which no code changes.                              *)
(***************************************************************************)
EXTENDS IrqDomain

CONSTANTS PART_BITS, BLKDEV_MAJORS, NR_UARTS, MAX_CMDLINECONSOLES

ASSUME DriverAssumption ==
  /\ {BLKDEV_MAJORS, NR_UARTS, MAX_CMDLINECONSOLES} \subseteq Nat \ {0}
  /\ PART_BITS \in Nat

NoDriver == "none"

(* The machine's device behind a virtual address, 0 for none.                *)
RegsAt(k, va) ==
  LET page == va - (va % PAGE_SIZE)
      pa == k.v.pte[page] * PAGE_SIZE + (va % PAGE_SIZE)
  IN  IF page \notin DOMAIN k.v.pte THEN 0
      ELSE FirstOf(k.hw, LAMBDA h : h.pa <= pa /\ pa < h.pa + h.size)

-----------------------------------------------------------------------------
(* Binding.                                                                *)

Entries(list) == [i \in DOMAIN list |-> [compatible |-> list[i], type |-> "", name |-> ""]]

of_platform_serial_table ==
  Entries(<<"ns8250", "ns16450", "ns16550a", "ns16550", "ns16750", "ns16850">>)
virtio_mmio_match == Entries(<<"virtio,mmio">>)
VIRTIO_ID_BLOCK == 2

BusOfDriver(drv) == IF drv = "virtio_blk" THEN "virtio" ELSE "platform"

virtio_dev_match(k, d) == k.devs[d].id = VIRTIO_ID_BLOCK

driver_match_device(k, drv, d) ==
  CASE drv = "virtio_blk" -> virtio_dev_match(k, d)
    [] drv = "virtio-mmio" -> of_match_node(k.n, k.devs[d].node, virtio_mmio_match) # 0
    [] drv = "of_serial" -> of_match_node(k.n, k.devs[d].node, of_platform_serial_table) # 0

NewDevice(bus, node, up) ==
  [bus |-> bus, node |-> node, up |-> up, name |-> <<>>, driver |-> NoDriver, bound |-> FALSE,
   probes |-> 0, resource |-> <<>>, base |-> 0, id |-> 0, irq |-> 0, features |-> {}, status |-> {},
   queues |-> {}]

klist_add_tail(list, x) == Append(list, x)

(* The place after a place in a list as it is now, 0 after the last.         *)
klist_next(list, at) == IF at < Len(list) THEN at + 1 ELSE 0

kset_find_obj(names, name) == FirstOf(names, LAMBDA obj : obj = name)

driver_find(k, name, bus) == kset_find_obj(k.bus[bus].drivers, name) # 0

bus_register(k, bus) == [k EXCEPT !.bus[bus] = [up |-> TRUE, devs |-> <<>>, drivers |-> <<>>]]

bus_add_device(k, d) == [k EXCEPT !.bus[k.devs[d].bus].devs = klist_add_tail(@, d)]

(* Adding a device that a driver already waits for is not supported.         *)
__device_attach_driver(k, drv, d) ==
  IF driver_match_device(k, drv, d) THEN Panic(k, "__device_attach_driver") ELSE k

bus_for_each_drv(k, bus, d) ==
  Each(k, LAMBDA kk, drv : __device_attach_driver(kk, drv, d), k.bus[bus].drivers)

bus_probe_device(k, d) == bus_for_each_drv(k, k.devs[d].bus, d)

DeviceAdded(k, d) == bus_probe_device(bus_add_device(k, d), d)

device_add(k, dev) == DeviceAdded([k EXCEPT !.devs = Append(@, dev)], Len(k.devs) + 1)

-----------------------------------------------------------------------------
(* Platform devices.                                                       *)

of_default_bus_match_table == Entries(<<"simple-bus", "simple-mfd", "isa">>)

(* The names from below the root down to the node.                           *)
RECURSIVE of_device_make_bus_id(_, _)
of_device_make_bus_id(n, x) ==
  IF n[x].parent = NULL_NODE THEN <<>> ELSE Append(of_device_make_bus_id(n, n[x].parent), n[x].full)

of_device_alloc(n, x, up) ==
  [NewDevice("platform", x, up) EXCEPT !.name = of_device_make_bus_id(n, x),
                                       !.resource = Resources(n, x, 0)]

(* ret is the new device, 0 for none                                         *)
of_platform_device_create_pdata(k, x, up) ==
  LET Add(k1, dev) == IF \E r \in Range(dev.resource) : r[1] = Panicked THEN Panic(k1, "no ranges")
                      ELSE [device_add(k1, dev) EXCEPT !.ret = Len(k.devs) + 1]
  IN  IF ~__of_device_is_available(k.n, x) \/ x \in k.flags THEN [k EXCEPT !.ret = 0]
      ELSE Add([k EXCEPT !.flags = @ \cup {x}], of_device_alloc(k.n, x, up))

(* A node that is not available, or was populated before (an interrupt      *)
(* controller), gets no device and its children are not visited.            *)
RECURSIVE of_platform_bus_create(_, _, _)
of_platform_bus_create(k, x, up) ==
  LET Below(k1) ==
        [Each(k1, LAMBDA kk, c : of_platform_bus_create(kk, c, k1.ret), Children(k.n, x))
           EXCEPT !.popbus = @ \cup {x}]
  IN  IF ~HasProp(k.n, x, "compatible") \/ x \in k.popbus THEN k
      ELSE Then(of_platform_device_create_pdata(k, x, up), LAMBDA k1 :
             IF k1.ret = 0 \/ of_match_node(k.n, x, of_default_bus_match_table) = 0 THEN k1
             ELSE Below(k1))

of_platform_populate(k) ==
  [Each(k, LAMBDA kk, c : of_platform_bus_create(kk, c, 0), Children(k.n, of_root))
     EXCEPT !.popbus = @ \cup {of_root}]

platform_bus_init(k) == bus_register(k, "platform")

platform_get_irq_optional(k, d, num) ==
  Then(of_irq_get(k, k.devs[d].node, num), LAMBDA k1 :
    IF k1.ret > 0 THEN k1 ELSE Panic(k1, "platform_get_irq_optional"))

platform_get_irq(k, d, num) == platform_get_irq_optional(k, d, num)

(* <<>> when the device has no such resource                                 *)
platform_get_resource(k, d, num) ==
  IF num < Len(k.devs[d].resource) THEN k.devs[d].resource[num + 1] ELSE <<>>

(* The conflict that keeps a range out of iomem_resource.                    *)
__request_resource(k, start, end) ==
  end < start \/ \E w \in k.windows : w[1] <= end /\ start <= w[2]

__request_region(k, start, n) ==
  Bind((start + n - 1) % U64, LAMBDA end :
    IF __request_resource(k, start, end) THEN Panic(k, "find conflict!")
    ELSE [k EXCEPT !.windows = @ \cup {<<start, end>>}])

__devm_ioremap_resource(k, res, junk) ==
  LET size == (res[2] - res[1]) + 1
      Mapped(k2) == IF k2.ret = 0 THEN Panic(k2, "ioremap failed") ELSE k2
  IN  IF res = <<>> THEN Panic(k, "invalid resource")
      ELSE Then(__request_region(k, res[1], size), LAMBDA k1 : Mapped(ioremap(k1, res[1], size, junk)))

devm_platform_ioremap_resource(k, d, junk) ==
  __devm_ioremap_resource(k, platform_get_resource(k, d, 0), junk)

-----------------------------------------------------------------------------
(* virtio over mmio.  A probe leaves its error in ret, 0 for none.           *)

vm_get_status(dev) == dev.status
vm_set_status(dev, status) == [dev EXCEPT !.status = status]
vm_reset(dev) == [dev EXCEPT !.status = {}]

virtio_add_status(dev, bit) == vm_set_status(dev, vm_get_status(dev) \cup {bit})

register_virtio_device(k, dev) ==
  device_add([k EXCEPT !.vindex = @ + 1, !.ret = 0],
             virtio_add_status(vm_reset([dev EXCEPT !.name = <<<<"virtio", k.vindex>>>>]), "ACKNOWLEDGE"))

virtio_mmio_probe(k, d, junk) ==
  Then(devm_platform_ioremap_resource(k, d, junk), LAMBDA k1 :
    LET at == RegsAt(k1, k1.ret)
        k2 == [k1 EXCEPT !.devs[d].base = k1.ret]
    IN  IF at = 0 \/ k.hw[at].kind # "virtio" THEN Panic(k2, "Wrong magic value")
        ELSE IF k.hw[at].version # 1 THEN Panic(k2, "BUG: version")
        ELSE IF k.hw[at].id = 0 THEN [k2 EXCEPT !.ret = -1]
        ELSE register_virtio_device(k2, [NewDevice("virtio", k.devs[d].node, d) EXCEPT
                                           !.id = k.hw[at].id, !.base = k1.ret]))

(* The bits of virtblk's two tables and of the transport, as sets of names.  *)
features ==
  {"SEG_MAX", "SIZE_MAX", "GEOMETRY", "RO", "BLK_SIZE", "FLUSH", "TOPOLOGY", "CONFIG_WCE",
   "MQ", "DISCARD", "WRITE_ZEROES"}
features_legacy == features
TransportBits ==
  {"INDIRECT_DESC", "EVENT_IDX", "VERSION_1", "ACCESS_PLATFORM", "RING_PACKED", "ORDER_PLATFORM", "SR_IOV"}

(* The ring drops the transport bits it does not understand.                 *)
vring_transport_features(bits) == bits \ {"SR_IOV"}

vm_get_features(k, d) == k.hw[RegsAt(k, k.devs[d].base)].features

vm_finalize_features(k, d) == [k EXCEPT !.devs[d].features = vring_transport_features(@)]

(* A device of version 1.0 may refuse the features: it does not keep the bit. *)
virtio_finalize_features(k, d) ==
  Bind(vm_finalize_features(k, d), LAMBDA k1 :
    IF "VERSION_1" \notin k1.devs[d].features THEN k1
    ELSE IF k.hw[RegsAt(k, k.devs[d].base)].refuses THEN Panic(k1, "device refuses features")
    ELSE [k1 EXCEPT !.devs[d] = virtio_add_status(@, "FEATURES_OK")])

Negotiated(offered) ==
  (offered \cap (IF "VERSION_1" \in offered THEN features ELSE features_legacy))
    \cup (offered \cap TransportBits)

(* A queue that is set up already, or of no size, stops the machine.         *)
vm_setup_vq(k, d, index) ==
  IF index \in k.devs[d].queues THEN Panic(k, "Queue shouldn't already be set up.")
  ELSE IF k.hw[RegsAt(k, k.devs[d].base)].num = 0 THEN Panic(k, "No argument!")
  ELSE [k EXCEPT !.devs[d].queues = @ \cup {index}]

(* The interrupt is mapped and requested before the queues are set up.       *)
vm_find_vqs(k, d, nvqs) ==
  LET Setup(k2) == IF k2.ret # 0 THEN Panic(k2, "can not request irq!")
                   ELSE Each(k2, LAMBDA kk, i : vm_setup_vq(kk, d, i - 1), [i \in 1..nvqs |-> i])
  IN  Then(platform_get_irq(k, k.devs[d].up, 0), LAMBDA k1 :
        Setup(request_threaded_irq([k1 EXCEPT !.devs[d].irq = k1.ret], k1.ret, d)))

init_vq(k, d) ==
  vm_find_vqs(k, d, IF "MQ" \in k.devs[d].features THEN k.hw[RegsAt(k, k.devs[d].base)].queues ELSE 1)

(* virtblk_name_format: letters in base 26 with no zero digit.               *)
RECURSIVE virtblk_name_format(_)
virtblk_name_format(index) ==
  IF index < 26 THEN <<index>>
  ELSE Append(virtblk_name_format((index \div 26) - 1), index % 26)

\* Mutant of index_to_minor: no room for partitions.
index_to_minorNext(index) == index

index_to_minor(index) == index * 2^PART_BITS

(* kobj_map keeps the chain sorted by range; a probe goes before those of    *)
(* the same range.                                                         *)
kobj_map(chain, minor, range, disk) ==
  LET i == Cardinality({j \in DOMAIN chain : \A m \in 1..j : chain[m].range < range})
  IN  SubSeq(chain, 1, i) \o <<[minor |-> minor, range |-> range, disk |-> disk]>>
        \o SubSeq(chain, i + 1, Len(chain))

(* kobj_lookup: the first probe that covers the number; base_probe is NULL.  *)
get_gendisk(k, minor) ==
  LET at == FirstOf(k.probes, LAMBDA p : p.minor <= minor /\ minor < p.minor + p.range)
  IN  IF at = 0 THEN 0 ELSE k.probes[at].disk

blk_alloc_devt(disk, partno) == disk.first_minor + partno

alloc_disk(d, index, depth) ==
  [name |-> virtblk_name_format(index), dev |-> d, first_minor |-> index_to_minor(index),
   minors |-> 2^PART_BITS, depth |-> depth]

(* The region of the disk's numbers leads to the disk; the block class gets  *)
(* its device.                                                              *)
__device_add_disk(k, disk) ==
  [k EXCEPT !.probes = kobj_map(@, blk_alloc_devt(disk, 0), disk.minors, Len(k.disks) + 1),
            !.disks = Append(@, disk)]

device_add_disk(k, disk) == __device_add_disk(k, disk)

(* The minor of a partition by name, -1 when no disk has the name.           *)
blk_lookup_devt(k, name, partno) ==
  LET at == FirstOf(k.disks, LAMBDA disk : disk.name = name)
  IN  IF at = 0 THEN -1
      ELSE IF partno >= k.disks[at].minors THEN Panicked
      ELSE k.disks[at].first_minor + partno

(* register_blkdev(0): the highest free major.                               *)
register_blkdev(k, taken) ==
  LET free == (1..(BLKDEV_MAJORS - 1)) \ taken
  IN  IF free = {} THEN Panic(k, "failed to get major") ELSE [k EXCEPT !.major = Max(free)]

(* The depth is that of the first ring ever probed.                          *)
virtblk_probe(k, d) ==
  LET index == k.vdindex
      num == k.hw[RegsAt(k, k.devs[d].base)].num
      Depth(k1) == IF k1.depth = 0 THEN num ELSE k1.depth
      Disk(k1) == device_add_disk([k1 EXCEPT !.depth = Depth(k1), !.ret = 0,
                                             !.devs[d] = virtio_add_status(@, "DRIVER_OK")],
                                  alloc_disk(d, index, Depth(k1)))
  IN  Then(init_vq([k EXCEPT !.vdindex = @ + 1], d), LAMBDA k1 :
        IF "INDIRECT_DESC" \notin k1.devs[d].features THEN Panic(k1, "BUG: no indirect descriptors")
        ELSE Disk(k1))

virtio_dev_probe(k, d) ==
  LET k1 == [k EXCEPT !.devs[d] = virtio_add_status(@, "DRIVER")]
  IN  Then(virtio_finalize_features(
             [k1 EXCEPT !.devs[d].features = Negotiated(vm_get_features(k, d))], d),
           LAMBDA k2 : virtblk_probe(k2, d))

-----------------------------------------------------------------------------
(* The serial port and its console.                                        *)

NoPort == [type |-> "unknown", membase |-> 0, io |-> FALSE, added |-> FALSE]

__add_preferred_console(c, name, index, options) ==
  LET at == FirstOf(c.list, LAMBDA e : e.name = name /\ e.index = index)
  IN  IF at # 0 THEN [c EXCEPT !.preferred = at]
      ELSE IF Len(c.list) = MAX_CMDLINECONSOLES THEN c
      ELSE [list |-> Append(c.list, [name |-> name, index |-> index, options |-> options]),
            preferred |-> Len(c.list) + 1]

serial8250_console_setup(k, index, options) ==
  IF k.ports[index].membase = 0 THEN [k EXCEPT !.ret = -1]
  ELSE IF options THEN Panic(k, "NOT options parse func!")
  ELSE [k EXCEPT !.ret = 0]

(* -1 on error.  An index past the last port is taken for port 0.            *)
univ8250_console_setup(k, options) ==
  Bind(IF k.con.index >= NR_UARTS THEN 0 ELSE k.con.index, LAMBDA index :
    serial8250_console_setup([k EXCEPT !.con.index = index], index, options))

(* The first "console=" entry that names this driver and fits its index.     *)
try_enable_new_console(k) ==
  LET at == FirstOf(k.cmd.list, LAMBDA c : c.name = "ttyS" /\ k.con.index \in {-1, c.index})
      c == k.cmd.list[at]
      Enabled(k1) == IF k1.ret # 0 THEN k1 ELSE [k1 EXCEPT !.con.enabled = TRUE]
  IN  IF at = 0 THEN [k EXCEPT !.ret = IF k.con.enabled THEN 0 ELSE -1]
      ELSE Then(univ8250_console_setup([k EXCEPT !.con.index = c.index], c.options), Enabled)

register_console(k) ==
  LET Enabled(k1) == IF k1.ret = 0 THEN [k1 EXCEPT !.con.enabled = TRUE] ELSE k1
      First == IF k.cmd.preferred # 0 THEN k
               ELSE Enabled(univ8250_console_setup(
                              [k EXCEPT !.con.index = IF @ < 0 THEN 0 ELSE @], FALSE))
  IN  IF k.con.linked THEN Panic(k, "already registered")
      ELSE Then(try_enable_new_console(First), LAMBDA k3 :
             IF k3.ret # 0 THEN k3 ELSE [k3 EXCEPT !.con.linked = TRUE])

serial8250_request_std_resource(k, line, start, size, junk) ==
  LET Mapped(k2) == IF k2.ret = 0 THEN Panic(k2, "ioremap error!")
                    ELSE [k2 EXCEPT !.ports[line].membase = k2.ret]
  IN  IF size = 0 THEN Panic(k, "serial8250_port_size")
      ELSE IF start = 0 THEN k
      ELSE Then(__request_region(k, start, size), LAMBDA k1 : Mapped(ioremap(k1, start, size, junk)))

(* The registers become accessible through serial_in and serial_out.         *)
set_io_from_upio(k, line) == [k EXCEPT !.ports[line].io = TRUE]

serial8250_config_port(k, line, start, size, junk) ==
  Then(serial8250_request_std_resource(k, line, start, size, junk), LAMBDA k1 :
    IF k1.ports[line].io THEN k1 ELSE set_io_from_upio(k1, line))

uart_configure_port(k, line, start, size, junk) ==
  IF start = 0 /\ k.ports[line].membase = 0 THEN k
  ELSE Then(serial8250_config_port(k, line, start, size, junk), LAMBDA k1 :
         IF k1.con.enabled THEN k1 ELSE register_console(k1))

tty_port_link_device(k, line) ==
  IF line >= NR_UARTS THEN Panic(k, "BUG: line") ELSE [k EXCEPT !.uart.ports = @ \cup {line}]

(* The character device of the line; cdev_add cannot fail.                   *)
tty_register_device_attr(k, line) ==
  IF line >= NR_UARTS THEN Panic(k, "Attempt to register invalid tty line number")
  ELSE [k EXCEPT !.uart.cdevs = @ \cup {line}]

uart_add_one_port(k, line, start, size, junk) ==
  IF k.ports[line].added THEN Panic(k, "uart_port alreay exists!")
  ELSE Then(uart_configure_port(tty_port_link_device([k EXCEPT !.ports[line].added = TRUE], line),
                                line, start, size, junk),
            LAMBDA k1 : tty_register_device_attr(tty_port_link_device(k1, line), line))

serial8250_find_match_or_unused(k, line) == line < NR_UARTS /\ k.ports[line].type = "unknown"

(* The port asked for is always line 0, the cleared structure's.             *)
serial8250_register_8250_port(k, type, start, size, junk) ==
  IF ~serial8250_find_match_or_unused(k, 0) THEN Panic(k, "serial8250_find_match_or_unused")
  ELSE uart_add_one_port([k EXCEPT !.ports[0].type = type], 0, start, size, junk)

(* alloc_tty_driver with NR_UARTS lines, none open.                          *)
__tty_alloc_driver(k) == [k EXCEPT !.uart = [@ EXCEPT !.up = TRUE, !.ttys = {}, !.ports = {}, !.cdevs = {}]]

uart_register_driver(k) == __tty_alloc_driver(k)

serial8250_isa_init_ports(k) == [k EXCEPT !.ports = [i \in 0..(NR_UARTS - 1) |-> NoPort]]

serial8250_init(k) == uart_register_driver(serial8250_isa_init_ports(k))

tty_register_ldisc(k) == [k EXCEPT !.uart.ldisc = TRUE]

tty_init(k) == [k EXCEPT !.uart.console = TRUE]

of_platform_serial_probe(k, d, junk) ==
  LET x == k.devs[d].node
      type == of_platform_serial_table[of_match_node(k.n, x, of_platform_serial_table)].compatible
  IN  Bind(of_address_to_resource(k.n, x, 0), LAMBDA res :
        IF res = <<>> THEN Panic(k, "invalid address")
        ELSE [serial8250_register_8250_port(k, type, res[1], (res[2] - res[1]) + 1, junk)
                EXCEPT !.ret = 0])

-----------------------------------------------------------------------------
platform_drv_probe(k, drv, d, junk) ==
  CASE drv = "virtio-mmio" -> virtio_mmio_probe(k, d, junk)
    [] drv = "of_serial" -> of_platform_serial_probe(k, d, junk)

device_is_bound(k, d) == k.devs[d].bound

driver_bound(k, d) ==
  IF device_is_bound(k, d) THEN Panic(k, "already bound") ELSE [k EXCEPT !.devs[d].bound = TRUE]

(* dev->driver is set before the probe and stays set when the probe fails.   *)
really_probe(k, drv, d, junk) ==
  LET Probe(k1) == IF k.devs[d].bus = "virtio" THEN virtio_dev_probe(k1, d)
                   ELSE platform_drv_probe(k1, drv, d, junk)
  IN  Then(Probe([k EXCEPT !.devs[d].driver = drv, !.devs[d].probes = @ + 1]), LAMBDA k2 :
        IF k2.ret # 0 THEN k2 ELSE driver_bound(k2, d))

device_driver_attach(k, drv, d, junk) ==
  IF k.devs[d].driver = NoDriver THEN really_probe(k, drv, d, junk) ELSE k

__driver_attach(k, drv, d, junk) ==
  IF driver_match_device(k, drv, d) THEN device_driver_attach(k, drv, d, junk) ELSE k

\* Mutant of bus_for_each_dev: a probe that fails ends the loop.
RECURSIVE bus_for_each_devStops(_, _, _, _)
bus_for_each_devStops(k, drv, at, junk) ==
  LET devs == k.bus[BusOfDriver(drv)].devs
  IN  Bind(klist_next(devs, at), LAMBDA i :
        IF i = 0 \/ k.stop # "" THEN k
        ELSE Bind(__driver_attach(k, drv, devs[i], junk), LAMBDA k1 :
               IF k1.ret < 0 THEN k1 ELSE bus_for_each_devStops(k1, drv, i, junk)))

(* The loop over a bus's devices, which follows the list as it grows.        *)
RECURSIVE bus_for_each_dev(_, _, _, _)
bus_for_each_dev(k, drv, at, junk) ==
  LET devs == k.bus[BusOfDriver(drv)].devs
  IN  Bind(klist_next(devs, at), LAMBDA i :
        IF i = 0 \/ k.stop # "" THEN k
        ELSE bus_for_each_dev(__driver_attach(k, drv, devs[i], junk), drv, i, junk))

driver_attach(k, drv, junk) == bus_for_each_dev(k, drv, 0, junk)

bus_add_driver(k, drv, junk) ==
  driver_attach([k EXCEPT !.bus[BusOfDriver(drv)].drivers = klist_add_tail(@, drv)], drv, junk)

driver_register(k, drv, junk) ==
  IF ~k.bus[BusOfDriver(drv)].up THEN Panic(k, "the bus was not initialized")
  ELSE IF driver_find(k, drv, BusOfDriver(drv)) THEN Panic(k, "already registered")
  ELSE bus_add_driver(k, drv, junk)
=============================================================================
