----------------------------- MODULE MCDevices -----------------------------
(***************************************************************************)
(* Five machines for  Devices: the blobs, written as trees, and what is    *)
(* behind them.                                                            *)
(***************************************************************************)
EXTENDS Devices

Prop(name, val) == [tag |-> "PROP", name |-> name, val |-> val]
Mark(tag) == [tag |-> tag, name |-> <<>>, val |-> <<>>]
NOP == <<Mark("NOP")>>
DtNode(base, unit, props, kids) ==
  <<[tag |-> "BEGIN_NODE", name |-> <<base, unit>>, val |-> <<>>]>> \o props \o kids
    \o <<Mark("END_NODE")>>
Blob(props, kids) == DtNode("", -1, props, kids) \o <<Mark("END")>>

Two(a) == <<a \div CELL, a % CELL>>
Con(name, index) == [name |-> name, index |-> index, options |-> FALSE]
Cells(na, ns) == <<Prop("#address-cells", <<na>>), Prop("#size-cells", <<ns>>)>>

Chosen(args, more) == DtNode("chosen", -1, <<Prop("bootargs", args)>> \o more, <<>>)
Stdout(path) == <<Prop("stdout-path", <<path>>)>>
Memory(base, size) ==
  DtNode("memory", base, <<Prop("device_type", <<"memory">>), Prop("reg", Two(base) \o Two(size))>>, <<>>)
Cpus(ph) ==
  DtNode("cpus", -1, Cells(1, 0),
       DtNode("cpu", 0, <<Prop("reg", <<0>>)>>,
            DtNode("interrupt-controller", -1,
                 <<Prop("#interrupt-cells", <<1>>), Prop("interrupt-controller", <<>>),
                   Prop("compatible", <<"riscv,cpu-intc">>), Prop("phandle", <<ph>>)>>, <<>>)))
Plic(at, reg, ph, ints) ==
  DtNode("plic", at, <<Prop("phandle", <<ph>>), Prop("riscv,ndev", <<4>>), Prop("reg", reg),
                     Prop("interrupts-extended", ints), Prop("interrupt-controller", <<>>),
                     Prop("compatible", <<"sifive,plic", "riscv,plic0">>),
                     Prop("#address-cells", <<0>>), Prop("#interrupt-cells", <<1>>)>>, <<>>)
Dev(name, at, reg, line, compatible, more) ==
  DtNode(name, at, <<Prop("interrupts", <<line>>), Prop("reg", reg), Prop("compatible", <<compatible>>)>>
                 \o more, <<>>)

Hw(kind, pa, size, line, id, num, on) ==
  [kind |-> kind, pa |-> pa, size |-> size, line |-> line, id |-> id, num |-> num, on |-> on,
   version |-> 1, features |-> {"INDIRECT_DESC", "BLK_SIZE", "NOTIFY_ON_EMPTY", "SR_IOV"}, queues |-> 1,
   refuses |-> FALSE]
Multi(hw) == [hw EXCEPT !.features = @ \cup {"MQ"}, !.queues = 2]
Modern(hw, refuses) == [hw EXCEPT !.features = @ \cup {"VERSION_1"}, !.refuses = refuses]

(* Devices on a simple-bus with the root's cells and empty ranges, the      *)
(* interrupt parent in every device, two contexts, an empty virtio slot.    *)
Virt ==
  [blob |-> Blob(Cells(2, 2),
     Chosen(<<Con("tty", 0), Con("ttyS", 0)>>, Stdout(<<<<"soc", -1>>, <<"serial", 34>>>>)) \o Memory(130, 61) \o Cpus(1)
     \o DtNode("soc", -1, Cells(2, 2) \o <<Prop("compatible", <<"simple-bus">>), Prop("ranges", <<>>)>>,
          Dev("serial", 34, Two(34) \o Two(4), 3, "ns16550a", <<Prop("interrupt-parent", <<2>>)>>)
          \o Dev("virtio", 40, Two(40) \o Two(4), 1, "virtio,mmio", <<Prop("interrupt-parent", <<2>>)>>)
          \o Dev("virtio", 44, Two(44) \o Two(4), 2, "virtio,mmio", <<Prop("interrupt-parent", <<2>>)>>)
          \o Dev("virtio", 48, Two(48) \o Two(4), 4, "virtio,mmio", <<Prop("interrupt-parent", <<2>>)>>)
          \o Plic(16, Two(16) \o Two(18), 2, <<1, 11, 1, 9>>))),
   hw |-> <<Hw("plic", 16, 18, 0, 0, 0, TRUE), Hw("uart", 34, 4, 3, 0, 2, TRUE),
            Hw("virtio", 40, 4, 1, 2, 4, TRUE), Hw("virtio", 44, 4, 2, 0, 0, TRUE),
            Multi(Hw("virtio", 48, 4, 4, 2, 2, TRUE))>>,
   context |-> 1, memory |-> <<130, 61>>, stdout |-> <<"serial", 34>>, console |-> TRUE]

(* A bus of one-cell addresses behind an offset, the interrupt parent on    *)
(* the bus, an entropy device, a disabled slot, NOPs, memory that starts    *)
(* below the kernel, and a 16550 without a FIFO.                            *)
Offset ==
  [blob |-> Blob(Cells(2, 2),
     Memory(120, 62)
     \o Chosen(<<>>, <<Prop("linux,stdout-path", <<<<<<"bus", -1>>, <<"serial", 12>>>>>>)>>)
     \o DtNode("bus", -1, Cells(1, 1)
             \o <<Prop("ranges", <<0>> \o Two(64) \o <<15>>), Prop("interrupt-parent", <<7>>),
                  Prop("compatible", <<"vendor,bus", "simple-bus">>)>> \o NOP,
          Plic(0, <<0, 4>>, 7, <<6, 9>>) \o NOP
          \o Dev("virtio", 8, <<8, 2>>, 1, "virtio,mmio", <<Prop("status", <<"okay">>)>>)
          \o Dev("virtio", 10, <<10, 2>>, 2, "virtio,mmio", <<Prop("status", <<"disabled">>)>>)
          \o Dev("virtio", 5, <<5, 3>>, 2, "virtio,mmio", <<>>)
          \o Dev("serial", 12, <<12, 3>>, 3, "ns16550", <<>>))
     \o Cpus(6)),
   hw |-> <<Hw("plic", 64, 4, 0, 0, 0, TRUE), Hw("uart", 76, 3, 3, 0, 1, TRUE),
            Hw("virtio", 72, 2, 1, 4, 4, TRUE), Hw("virtio", 74, 2, 2, 2, 4, FALSE),
            Modern(Hw("virtio", 69, 3, 2, 2, 4, TRUE), FALSE)>>,
   context |-> 0, memory |-> <<120, 62>>, stdout |-> <<"serial", 12>>, console |-> TRUE]

(* Devices right below the root.                                           *)
Flat(args, path, memory, stdout, console, refuses) ==
  [blob |-> Blob(Cells(2, 2) \o <<Prop("interrupt-parent", <<3>>)>>,
     Cpus(2) \o Plic(16, Two(16) \o Two(4), 3, <<2, 11, 2, 9>>)
     \o Dev("virtio", 21, Two(21) \o Two(2), 2, "virtio,mmio", <<>>)
     \o Dev("serial", 28, Two(28) \o Two(4), 1, "ns16550a", <<>>)
     \o Memory(memory[1], memory[2]) \o Chosen(args, path)),
   hw |-> <<Hw("plic", 16, 4, 0, 0, 0, TRUE), Modern(Hw("virtio", 21, 2, 2, 2, 4, TRUE), refuses),
            Hw("uart", 28, 4, 1, 0, 2, TRUE)>>,
   context |-> 1, memory |-> memory, stdout |-> stdout, console |-> console]

Serial == <<"serial", 28>>

(* The command line names a port there is none behind.                     *)
NoPortBehind == Flat(<<Con("ttyS", 1)>>, Stdout(<<Serial>>), <<160, 32>>, Serial, FALSE, FALSE)

(* stdout-path starts with an alias, and memory ends with the addresses.   *)
Alias == Flat(<<Con("ttyS", 0)>>, Stdout(<<<<"serial0", -1>>>>), <<U64 - 64, 64>>, <<>>, TRUE, FALSE)

(* The disk refuses the features.                                          *)
Refusing == Flat(<<>>, Stdout(<<Serial>>), <<160, 32>>, Serial, TRUE, TRUE)

MCBoards == {Virt, Offset, NoPortBehind, Alias, Refusing}
MCJunk == {0, 300}
=============================================================================
