# Verification of xlinux

xlinux is a kernel for RISC-V cut out of Linux into loadable modules: one hart, one
task that boots, mounts an ext2 file system from a virtio disk and executes a user
program. These TLA+ modules follow that path: memory allocators, device tree, devices and
interrupts, the disk read path, file names and mounts, and the address space of the program.
They model the parts in which interleavings, wrapping counters, stale caches and long
sequences of calls matter. TLC checks them on small instances. TLAPS proves the slab
allocator, the virtio ring under its driver, the block stack and the search for a file descriptor correct for
every size.

Contents: [the system](#the-system), [modules](#modules),
[runs](#runs), [findings](#findings), [other divergences](#other-divergences),
[proofs](#proofs), [what is not modelled](#what-is-not-modelled).

## The system

Facts that all modules rely on, each read from the source:

- There is one hart. Interrupts are enabled once (`irq/irq.c`) and no code of the
  allocators or the block layer disables them again. Hardware disables them while a
  handler runs, so handlers do not nest, and the softirq runs at the end of the handler.
- There is no preemption. A process that waits spins on a flag (`while (!PageUptodate(page));`)
  which a handler sets.
- `panic` and `BUG_ON` do not return. In the models they are states with no way out.
- Work queues run their work inside `insert_work`, in the caller.

### Inventory

| Part | State | Operations that change it | What is hard | Properties |
|---|---|---|---|---|
| slab (`slab/`) | per-cpu array, three slab lists, freelists, counters | kmalloc, kfree, refill, grow, flush, tune | freelist stored in free objects; array replaced while in use; kfree from interrupts | `OneOwner`, `FreelistStorage`, `ListsMatch`, `CountersMatch`, `CallsReturn`, `ImplementsAllocator` |
| memblock (`memblock/`) | two sorted region arrays | add, reserve, alloc, free_all | splitting and merging, two-array iterators, fixed array size | `IteratorsExact`, `AllocDisjoint` |
| buddy (`buddy/`) | free lists per zone and order, page fields | zone set-up, hand-over, alloc, exact alloc, free | partial pages, buddy outside memory, zone order, reference counts | `BlocksDisjoint`, `NoFreeBuddies`, `HandOver`, `PanicOnlyWhenEmpty`, `NoLeak` |
| virtio ring (`virtio/`, `virtio_mmio/`) | descriptors, available and used rings, event index | add, notify, get_buf, enable and disable callbacks, interrupt | index wrap, out-of-order completion, lost interrupts | `FreeListExact`, `OnePlacePerHead`, `NoLostInterrupt`, `EveryBufReturns`, `RingTransfers` |
| block I/O (`block/`, `virtio_blk/`, `fs/buffer.c`, `fs/mpage.c`, `filemap/`, `readahead/`, `plic/`, `intc/`, `softirq/`) | scheduler lists, requests, done list, softirq mask, PLIC gateway, buffer and page flags | bread, readahead, fault, submit, dispatch, complete | completion interrupting submission, softirq raised once, spinning readers, errors | `FlagsFollowIO`, `OnlyErrorPanics`, `EveryBioEnds`, `WaitersLeave`, `BlockTransfers` |
| names (`dcache/`, `fs/namei.c`, `fs/mount.c`, `fs/inode.c`, `fs/super.c`, `rootfs/`, `ramfs/`, `procfs/`, `ext2/`) | dentries, inodes, superblocks, mounts and their hash | lookup, mkdir, mknod, mount, move, chdir, chroot | mounts are crossed in RCU mode only; negative dentries; one inode for a disk inode; four records per mount | `WalkAgrees`, `DcacheUnique`, `MountsAgree`, `MountTakesEffect` |
| open files (`fs/file.c`, `fs/open.c`, `fs/init.c`) | fd bitmaps and table | alloc_fd, fd_install, open, dup, write | two levels of bitmap, `next_fd`, table at its limit | `FdTable` |
| address space (`mm/`, `pgalloc/`, `gup/`, `filemap/`) | areas in list and tree, cached gaps, page tables, page cache | mmap, brk, stack growth, every fault, end of a read | `find_vma` past the last area, gaps after growth, order of faults and reads | `VmasExact`, `MemoryAgrees`, `BrkCovers`, `OnlyThesePanics`, `AccessEnds` |
| exec (`fs/exec.c`, `fs/binfmt_elf.c`) | binprm, the new mm, its stack | execve, segment mapping, tables | arguments across a page, stack placed after they are copied | `ArgsAsGiven`, `OnlyThesePanics` |
| device tree (`of/`, `early_dt/`) | the tree, phandles | early scan, unflatten | recursion and reversal, cells of different parents | `TreeMatches` |
| interrupts (`irq/`, `of_irq/`, `intc/`, `plic/`) | descriptors, domains, PLIC registers | domain creation, mapping, request, claim, completion | parents found through the tree, one number mapped to another at each level | `ComesUp`, `LineServed` |
| driver core and disks (`kobject/`, `platform/`, `devres/`, `virtio*`, `genhd/`) | buses, devices, drivers, disks, numbers | register device and driver, probe, add_disk | any order of arrival, failed probe, number ranges | `DevicesBound`, `DisksFound`, `ComesUp` |
| vmap areas (`vma/`, `ioremap/`) | free tree with subtree maxima, busy tree, page tables | alloc, split, map | search by cached maximum, sums that wrap, a range over several tables | `IoAreasExact` |
| serial console (`of_serial/`, `lib/printk.c`) | ports, console, tty, transmit ring | probe, open, write, transmit | ring wrap, FIFO smaller than the ring | `ConsoleOrder`, `WriteReturns` |
| scheduler, fork (`sched/`, `fork/`) | run queue | kernel_thread, schedule | only one switch is supported | none |

How the parts interact: `memblock` hands all free memory to the buddy allocator once.
The slab allocator takes pages from the buddy allocator and, in this code, never returns
one. A reader builds a bio over page-cache pages or a buffer. The block layer turns it into
a request. The virtio block driver puts the request on the ring, with an indirect table from
kmalloc. The device completes it and raises a line at the PLIC. The handler takes it off
the ring, frees the table and queues the request for the softirq, which ends the bio and sets
the flag the reader spins on.

Before that, the modules load in an order their symbols allow. The early scan finds memory, the
tree is unflattened, interrupt controllers and devices are made from it, and drivers bind to
devices whichever comes first. Then `rootfs` mounts a ramfs, makes `/dev/root`, mounts the disk on
`/root`, moves that mount to `/` and changes root. Last, `kernel_execve` reads the program's first
page through the page cache, builds an address space and starts it; from then on the kernel
runs only for its faults, system calls and interrupts.

## Modules

Variables carry the names of the fields they model. Comments in the modules say which
function each action is. Operators called *Mutant of X* change X the way a plausible
mistake would; no specification uses them.

**Slab** models one `kmem_cache` (`slab/slab.c`). A call that takes several steps keeps its
locals in `pc`, `batch`, `cur`, `objp`, `prev`, `nr`, `i`, so that each list operation of a refill or a
flush is a step of its own. `CacheAlloc` and `CacheAllocEmpty` are the two ways through
`____cache_alloc`; `RefillStart`, `RefillSlab`, `RefillDone`, `RefillReturn`, `GrowBegin`, `GrowEnd`,
`GrowReturn` are `cache_alloc_refill`; `CacheFree`, `CacheFreeFull`, `FreeBlock`, `FlushDone` are
`___cache_free`; `TuneCpucache` and `TuneDone` are `do_tune_cpucache`. Both placements of the
freelist (inside an object or at the end of the slab) are covered by the constant `ObjFreelist`.
The page allocator is external: it hands out a page that has not been given out before.

**Allocator** is what a cache promises: it gives out an object nobody has, from a stock that
only grows by whole slabs, and takes it back into the stock. **SlabIrq** lets a complete
`kfree` from a hard interrupt run between any two steps of the task's call.

**Memblock** models the region arrays as sequences and the iterators as recursive functions over
the pair of indices the code packs into one `u64`. **Buddy** extends it with zones, `mem_map`,
free lists and page fields, so one behaviour runs from the first `memblock_add` through
`memblock_free_all` (one block per step) to allocations and frees. Page fields start from zero,
as `mem_map` does: `page_type` has no base bits, hence `PageBuddy` is never true and blocks are
never merged. That is the code's behaviour and the model keeps it.

**VirtioRing** has the split ring's state and operations and the external device: `DevPop` takes an
available entry, `DevSleep` waits for a notification, `DevUse` completes any entry it has, `DevSignal`
decides by the event index whether to interrupt. **VirtioDriver** is the driver around it: adding a
buffer is three steps (fill, expose, notify), the handler alternates `virtqueue_get_buf` and the
two halves of `virtqueue_enable_cb`. **Transfer** is the abstract promise: a submitted item is
finished once and reported once.

**BlockIO** composes the ring with readers, block layer, PLIC and softirq. A reader is at one place of
`__bread`, `read_cache_page`, `generic_file_buffered_read` or `filemap_fault`; an interrupt can be taken between any two of its
steps and runs to its end. A file is a sequence of runs of pages, each run being one bio, as
`do_mpage_readpage` cuts it where blocks are not contiguous. Pages and buffers are model values. The place `stop`
is where the kernel gives up on a file read it does not support: one that starts beyond the first page
(`BUG_ON(index)`), meets the read-ahead mark, asks for more than its page gives, or needs a page with a
hole or scattered blocks. Which pages those are is data, so each is a choice at the step where the code tests for it.

**Dcache**, **Mounts** and **Files** are functions on records of kernel tables; **NameSpace** is the state
machine over them. A path walk takes one step per component, in RCU mode until a lookup misses the
cache (`WalkFast`, `WalkSlow`), so it meets every state of the cache the calls before it can leave.
`BootScript` is the sequence of calls `rootfs` makes; afterwards the init process makes any of the calls in
`Syscalls`. What a walk should find is `Resolve`, defined on the disk's contents and the mounts alone,
without the cache. `__d_alloc` leaves `d_flags` uninitialised; `PerSlab` says which dentries get the bytes
of the slab's freelist there.

**RbTree** is `rbtree.c` with the augmented callbacks, **Vmap** the kernel's virtual areas and `ioremap` on
top of it, **AddrSpace** the areas of a program on top of it. **UserPages** adds the page cache of the
program's file, page tables and frames, with the faults that fill them; **Exec** is `kernel_execve` and the ELF
loader in the pieces between which they touch user memory or wait. **UserSpace** runs one program: an
access whose page is absent traps and is made again, the disk completes reads at any time, and `strict`
says whether the machine checks the write bit and the supervisor's access to user pages. Cells are values that say where they came
from (a byte of the file, a character of an argument, the n-th store), so that what a page shows can be compared with what it should.

**FlatTree** is the blob, the early scan, the unflattened tree and the questions drivers ask; **IrqDomain** the
descriptors, domains and both interrupt controllers; **DriverCore** buses, binding, probes and disk
numbers. **Devices** composes them: `Load(m)` runs a module's init to its end once the modules whose
symbols it takes are in; devices raise lines; the hart traps, claims, handles and completes in four
steps; a process writes to the console while the UART sends. What should come out is told by the
board's hardware list, which the code never sees. **Values** holds one helper for evaluation.

**MCSlab**, **MCBuddy**, **MCBlockIO**, **MCNameSpace**, **MCUserSpace** and **MCDevices** give the constants.
**SlabProofs** has the theorems about Slab, **SlabTypes**, **SlabOwner** and **SlabLists** the lemmas they
rest on. **RingProofs** has those about VirtioDriver, with lemmas on indices and one lemma per action
in **RingPlaces**. **BlockProofs** is about BlockIO, **FilesProofs** about Files.

## Runs

| Run | Instance | Distinct states | What it shows |
|---|---|---|---|
| `slab` | 2 pages of 3 objects, limit 1 then 3, freelist in objects | 17,359 | the properties of the slab row above; the cache implements `Allocator` |
| `buddy` | up to 20 pages of 4 bytes, region arrays of 3, blocks of 1, 2 and 4 pages, 4 boot calls, 4 allocations | 48,664 | the memblock and buddy rows |
| `virtio_ring` | 2 descriptors, indices modulo 4, 2 buffers | 29,261 | the ring row; refinement of `Transfer` |
| `block_io` | 3 buffers and 2 contiguous files on a ring of 2, errors allowed | 18,836 | the block row; refinement of `Transfer` |
| `names` | a disk with 5 inodes and two directory pages, boot and then 3 system calls, descriptor words of 2 bits, a table of 4 | 84,371 | the names and open files rows |
| `address_space` | pages of 16 cells, 20 pages of address space, 10 pairs of program and arguments, 3 accesses or breaks, both kinds of machine, failing reads | 36,164 | the address space and exec rows |
| `devices` | 5 machines, every loading order of 10 modules, a ring of 4 bytes, 5 bytes written, 2 interrupts | 13,095 | the device tree, interrupt, driver core, vmap and console rows |
| `slab_irq`, `buddy_zones`, `buddy_leak`, `block_tag`, `block_fault` | | | counterexamples, see Findings |

Why the bounds are enough to be interesting:

- Two slabs of three objects make a slab free, partial and full, and let a refill take from two
  slabs. Limit 1 before tuning and 3 after make the batch 1 and 2, so a flush keeps an entry.
- The memory ranges touch, leave holes, start and end inside a page; the reservations touch each
  other, cover a region's start and lie inside a page; `MaxRegions = 3` makes the array overflow.
  Sizes are in bytes, so rounding is real. One layout lies above the DMA32 limit, so a zone has no pages.
- `IdxMod = 4` with `Num = 2` makes every index wrap many times and keeps the ratio that lets a full
  ring be told from an empty one. The counter `num_added` is capped at `IdxMod`.
- Three buffers are one more than the ring has slots for; the single task reads one thing at a
  time, so more processes would not add interleavings this kernel has.

- The disk has a name in each of two directory pages, a deleted entry, two names of one file and a
  symbolic link; the calls mount over directories, files, mounts, the root and missing names, move
  mounts into each other, and open more files than the table holds. The limit of descriptors is above the table's
  size, as it is in the code (1024 and 64): a full table stops in `expand_files`, and `EMFILE` is never returned. Three calls after boot are enough for a
  mount, a move of it and a walk through both.
- The programs have text and data with a hole between them, bss in the last file page and beyond, two
  segments on one file page, a file shorter than its segments, a file of three pages, and one of each kind
  the loader refuses; the arguments fill less or more than a page. Accesses lie in
  every area, in the hole, below the stack within and beyond reach, and above it. `FAULT_AROUND` is two
  pages, so a window can begin or end outside an area.
- The machines differ in where the interrupt parent is found (device, bus, root), in cell sizes, in an
  address offset, in disabled, empty and non-block slots, in the PLIC's contexts, in the console asked for, in a bank of memory that
  ends at the top of the address space, in a missing `stdout` node and in a disk that refuses the features. Each kind of
  device has one driver. Address ranges are scaled so that an `ioremap` crosses from one page table to the next.
- No machine has an ns16750 or ns16850 port. `uart_config` has no entry for them, so `serial8250_do_startup` would read
  the load size from beyond the table; `ConsoleOrder` and `WriteReturns` say nothing about such a port.

`MaxCalls`, `MaxAllocs`, `MaxOps`, `MaxBytes` and `MaxAsserts` bound the number of calls, blocks, accesses, bytes
and interrupts. Everything else is finite by itself. In the older runs `Halted` or `Quiet` stutters where
the code has stopped or a bound is reached, so deadlock checking stays on. `names`, `address_space`
and `devices` end when the bound is used up or the kernel panics, and check no deadlock.

Fairness. `Slab!FairSpec` assumes that the processor keeps executing the call it is in: weak
fairness of the refill and free steps. `VirtioDriver` and `BlockIO` assume it of the process, of the handler and of the device:
the device takes what it has been notified of, completes each entry it has taken and
signals. `UserSpace` assumes it of the processor, which makes an access or takes its trap, and of the disk,
which ends each read, well or with an error. `Devices` assumes that the hart takes a pending interrupt and runs its handler on,
that a write in progress runs on, and that the UART sends what its FIFO holds. Only weak fairness is used. It is never assumed that a caller calls, that a
device chooses one entry first, or that an interrupt arrives at a given place.

`WaitersLeave` allows a reader to wait for ever on a page whose read failed: `page_endio` sets
`PG_error`, leaves the page not up to date, and no code ends the loop in `wait_on_page_read`.

`OnlyErrorPanics` is about the place `panic`: what the reader, the block layer, the ring and the handlers may do to each other.
The reads that end in `stop` panic whatever the device does, and are not counted.

`AccessEnds` says that exec and the program get their pages or a panic, except in the two cases of `Endless`, which no code
ends: exec's loop for a page whose read failed, and an access beyond the end of the file (see below).
`MemoryAgrees` leaves out a page of the file that two segments map once the program has stored through the other one on a
machine that ignores the write bit (`Aliased`): `PAGE_COPY` has none, so the store shows through both.
`MountTakesEffect` says that the path of a successful mount or move, walked again, ends at the mount's root. It leaves out
paths without a name (`path_init` crosses no mount), missing names, walks that panic on a dentry's
uninitialised flags, and a mount moved below itself. `MountsAgree` leaves out the state `tangled`, after a mount that is its own
parent has been linked twice.

`ComesUp` says exactly which loading orders stop the kernel: no `stdout` node to name, the PLIC before the hart's
controller, the virtio bus after the driver of a disk that is there, a disk that refuses the features. No other order that the
symbols allow stops it, and after loading nothing does but opening a console that no driver has or that is open already.

## Findings

Each is a run whose one property states what a comment or an assertion of the source says, and which
TLC violates.

1. `slab_irq`: the assertion `BUG_ON(ac->avail > 0 || !n)` of `cache_alloc_refill` can fail when an
   interrupt handler calls `kfree`; interrupts are supposed to be off there and are not.
2. `buddy_zones`: `get_page_from_freelist` does not go through the zonelist. All pages
   land in ZONE_DMA32 since the zone bits of `page->flags` are never set, while ZONE_NORMAL is
   asked first and panics.
3. `buddy_leak`: freed pages are not released, since allocation never sets the reference count.
4. `block_tag`: all requests share tag 1, so two requests in flight have one token.
5. `block_fault`: `filemap_fault` panics on a page whose read is in flight and has not failed.

## Other divergences

Met while modelling; the models behave this way, and no run states the opposite.

- `__d_alloc` does not set `d_flags` (`dcache/dcache.c:44`). A dentry whose object held the slab's freelist starts with
  flags that make the first RCU walk over it panic in `__follow_mount_rcu` (`fs/namei.c:217`).
  `ManagedIsMounted` of `NameSpace` states that it does not.
- A mount that is its own parent, moved onto itself, meets `BUG_ON(parent == mnt)` (`fs/mount.c:206`); `NeverOwnParent`
  states that it does not. Moved elsewhere it is
  silently linked twice. `mount` on a missing name succeeds on a negative dentry.
- `do_sys_openat2` goes on when `build_open_flags` has failed (`fs/open.c:219`). Opening `/dev/console` twice panics
  (`of_serial/tty_io.c:132`), and so does opening it when no console matched, where `rootfs/rootfs.c:236` says
  "this should never fail".
- A file of three pages cannot be executed: the read-ahead mark falls on page 0 (`readahead/readahead.c:141`) and
  the reader panics on a marked page (`filemap/filemap.c:202`). A fault-around whose window holds no page
  up to date panics with `no pte!` (`pgalloc/pgalloc.c:112`). Arguments beyond the first page panic in
  `find_extend_vma`.
- `_do_page_fault` says it will "exit gracefully rather than endlessly redo the fault" (`mm/mm.c:232`) and ignores the
  result of `handle_mm_fault`: an access to a page beyond the end of the file faults for ever.
- Growth of the stack neither keeps `stack_guard_gap`, the "enforced gap between the expanding stack and other
  mappings" (`mm/mmap.c:13`), nor aligns the address, as `fs/exec.c:525` expects.
- `find_vmap_lowest_match` (`vma/vma.c:83`) looks for room for size and alignment together and so may pass over the
  lowest area that would fit; `LowestSure` states what it does guarantee.
- Two devices on one PLIC line leave only the last handler; `__handle_domain_irq` uses the hardware number as the
  logical one, against `include/irqdesc.h:17-22`; the PLIC's match table has no terminator (`plic/plic.c:225`);
  `__irq_alloc_descs` panics before `irq_domain_alloc_descs` can retry (`irq/irqdomain.c:260`).
- `virtblk_queue_depth` is static: the second disk gets the first one's depth. A second serial port panics.
- `unflatten_device_tree` prints the name of `of_stdout` without a test (`of/of.c:530`), so a tree without a console node
  stops the kernel. A bank of memory that ends at 2^64 is ignored: its end is computed as 0
  (`early_dt/early_dt.c`, `early_init_dt_add_memory_arch`).
- `free_area_init_core` leaves the free lists of a zone that spans no pages uninitialised (`buddy/buddy.c:329`). As every page is
  freed to ZONE_DMA32, a machine with memory above the limit only faults at the first page it frees (`FreePagesFault`).
- `page_cache_readahead_unbounded` says of I/O errors that "if the page is not uptodate then the caller will launch readpage again"
  (`readahead/readahead.c:148`); no caller does.
- `uart_write` sends one FIFO's worth when the port is idle and nothing sends the rest until the next write, so
  the tail of a write may stay in the ring.

## Proofs

### Slab allocator

`SlabProofs` proves, for every set of pages, every number of objects per slab (`Num > 0`), every tuned
limit above zero and both freelist placements:

| Theorem | Statement |
|---|---|
| `Invariance` | `Spec => []SlabInv` |
| `TypeCorrect` | `Spec => []TypeOK`, the bound of the per-cpu array included |
| `OneOwnerAlways` | `Spec => []OneOwner` |
| `FreelistNeverOverwritten` | `Spec => []FreelistStorage` |
| `ListsAlwaysMatch` | `Spec => []ListsMatch` |
| `NeverBug` | `Spec => []NoBug` |
| `CountersAlwaysMatch` | `Spec => []CountersMatch` |
| `Refinement` | `Spec => ImplementsAllocator` |

The assumption is `SlabAssumption`: the constants have their types and the boot-time array has one
entry (`BOOT_CPUCACHE_ENTRIES`).

None of the four safety properties is inductive alone. `OneOwner` needs to know where the freelist
is, because an allocation reads its index from there (`FreelistStorage`). `FreelistStorage` needs to
know that a slab on the full list has no free object and one on the partial list has (`ListsMatch`).
`ListsMatch` needs the list a call is about to change (`Locals`: what the program counter says
about `batch`, `cur`, `prev`, `nr`, `i`). So `SlabInv` is the conjunction
`TypeOK /\ Locals /\ OneOwner /\ FreelistStorage /\ ListsMatch /\ NoBug`. The proof has one lemma per
conjunct group, each with a case per action: `TypeStep` (`SlabTypes`), `OwnerStep` (`SlabOwner`),
`StorageStep` and `ListsStep` (`SlabLists`). They take one counting fact as a hypothesis, `Counted`: a
slab with an object off its freelist has an active object. `SomeActive` (`SlabProofs`) derives it from
the invariant with the pigeonhole principle for finite sets; it is what keeps `page->active` from going
below zero in `slab_put_obj`.
`Refinement` maps the abstract stock to the objects in the array, in an array being flushed, in the hand of
the running call and on freelists, and shows each step to be an abstract step or a stutter.

`CountersMatch` speaks of the state between calls; its inductive form is `CountersInv`. During a call
`free_objects` is ahead of the freelists by `Pending`, because `cache_alloc_refill` subtracts at its end what it
took and `free_block` adds at its start what it will put back, and a slab is counted when
`cache_grow_end` lists it. `CountersStep` (`SlabLists`) has a case per action. What it needs of the sizes
of sets is its hypothesis `Counts`, which `StepCounts` (`SlabProofs`) derives from `SlabInv` before and after the
step: a freelist from `active` on has `Num - active` different objects (`PageCount`), and a step changes one slab.

`TypeOK` and `NoBug` are in no run: the proof shows them for every instance.

### Virtio ring

`RingProofs` proves, for every ring size `Num > 0`, every index width `IdxMod > Num` that is a multiple of it
and every set of at most `Num` buffers:

| Theorem | Statement |
|---|---|
| `RingInvariance` | `DriverSpec => []RingInv` |
| `FreeListAlwaysExact` | `DriverSpec => []FreeListExact` |
| `OnePlaceAlways` | `DriverSpec => []OnePlacePerHead` |
| `NeverLostInterrupt` | `DriverSpec => []NoLostInterrupt` |
| `RingRefinement` | `DriverSpec => RingTransfers` |

The assumptions are `RingAssumption` and `QueueDepth`: the tokens are the requests of the driver's tag set, and there
are no more of them than descriptors. `virtblk_probe` asks for as many as the first disk's ring has descriptors, so
`QueueDepth` holds of a disk whose ring is not smaller than the first one's. `DriverSpec` never adds a token that is already on
the ring. That is the contract of `virtqueue_add_sgs`, and the block layer breaks it: every request has tag 1
(finding `block_tag`). The theorems are about ring and driver under callers that keep the contract, and with the part of
`virtqueue_add_split` before the store of the index taken as one step: an interrupt between the load and the store of `num_free`
or `free_head` is outside them.

`RingInv` is `RingType /\ Places /\ FreeListExact /\ Tokens /\ Events`. `Places` restates `OnePlacePerHead` with
entries counted from the start of a window instead of sets of indices modulo 2^16, and says that the entries of a window
are different. `FreeListExact` is needed for an add to take an idle descriptor. `Tokens` (no
buffer on two descriptors) is needed for the panic of a full ring to be unreachable and for the refinement. `Events` is what
makes `NoLostInterrupt` inductive: outside the loop of `virtblk_done` the event index equals
`last_used_idx`, and what is unread lies in what the device has still to signal.

The argument has three layers. The first part of `RingPlaces` shows what wrapping does: indices less than `Num` apart have different
slots, a wrap does not move a slot, and storing, exposing (`Push`) or consuming (`Pop`) an entry changes the
set of entries of a window by exactly that entry. `Room` gives the bound all three need, and is where the ring could overflow: the entries of a
window are different descriptors and one more descriptor is outside it, so the window is shorter than the ring. The second part has one lemma per action; counting
enters as the hypotheses `Pigeonhole` and `TokensFit`. `RingProofs` discharges them with the theorems on
finite sets. `RingRefinement` maps `pending` to the buffers on busy descriptors outside
the used window and `finished` to those inside it: adding submits, `DevUse` finishes, `virtqueue_get_buf` reports, every other
step stutters.

### Block stack

`BlockProofs` proves, for every ring size, every index width, every set of buffers and every set of files:

| Theorem | Statement | Assumes |
|---|---|---|
| `BlockInvariant` | `BlockSpec => []BlockInv` | `OneExtent` |
| `FlagsSafe` | `BlockSpec => []FlagsFollowIO` | `OneExtent` |
| `TokensSafe` | `BlockSpec => []TokenIdentifies` | `OneExtent` |
| `BlockStackTransfers` | `BlockSpec => BlockTransfers` | `OneExtent` |
| `PanicsSafe` | `BlockSpec => []OnlyErrorPanics` | `OneExtent`, `Mapped = {}` |

`OneExtent` says that readahead makes one bio of every file. The runs `block_tag` and `block_fault` show what
happens without the two hypotheses: with two extents requests share the one `struct request`, and a
fault on a file not read before panics while its read is on its way. So the theorems draw the line at which the stack is
correct, from the correct side. The constants satisfy `RingAssumption` and `BlockAssumption` (a bio reads a buffer or pages of
a file, never both, and no file is empty).

Under `OneExtent` the process waits for its bio before it reads on, so one request is on its way at a time.
`BlockInv` is a typing invariant and `At(st, h)` for some stage `st` and descriptor `h`: at each of the nine
stages (nowhere, queued in the scheduler, on the list being dispatched, added, exposed, taken by the device, used,
on the completion list, with the softirq) it says what the lists (`QueueAt`), the ring and its five
indices (`RingAt`), the process (`ProcessAt`) and the flags and data of the memory (`DataAt`) are. The five conjuncts need each
other: that the device writes the memory of the right bio is `RingAt` (the table entry's sector), that the softirq ends
the right bio is `QueueAt`, that the flags are right afterwards is both with `DataAt`. There is a lemma per action; a step either stays
at its stage or goes to the next. `BlockStackTransfers` maps `pending` to the live bios that are not answered and `finished`
to those that are.

### File descriptors

`FilesProofs` proves three facts about the operators of Files, for every word size, every table size that is a
multiple of it and every set of open descriptors, tables from which descriptors were closed included:

| Theorem | Statement |
|---|---|
| `TwoLevelSearch` | `find_next_fd`, which skips the words marked full, finds what a search of `open_fds` alone finds |
| `LowestDescriptor` | `__alloc_fd` finds the lowest free descriptor, and the end of the table only when all are open |
| `InstallKeepsTable` | allocating and installing keeps the table consistent, and `BUG_ON` of `__fd_install` is not reached |

They assume `FilesAssumption` and the table's invariant `FdInv`, which the table of `init_files` satisfies (`FreshTable`) and
`InstallKeepsTable` preserves. `FdTable` of the run `names` says the same of reachable tables, with `next_fd` exact because
nothing is closed.

### Only model-checked

The liveness properties, and everything about the modules not named here. Liveness under fairness is out of the prover's reach, and so is what a recursive operator computes for every input.

## What is not modelled

- Weak memory. `virtqueue_add_split` has no barrier between the ring slot and the index, nor
  `virtqueue_enable_cb` between the event index and the read of the used index. The models
  execute stores in program order.
- Loads and stores inside `virtqueue_add_split` up to the store of the index are one step.
- `do_mpage_readpage` beyond its split into bios and the fact that it may panic: the blocks of a page and the buffer head that carries
  a mapping from page to page.
- Writes to the disk; the only requests the kernel issues are reads.
- In the slab allocator, the bootstrap of the first caches and the computation of slab geometry.
- The virtio and PLIC devices are modelled from how the drivers use them.
- Reference counts of dentries, inodes, devices and pages beyond what allocation tests: nothing but slab objects and pages is freed.
- Page tables of a user address space have one level, with the rule that a table exists once one of
  its entries is set; those of the kernel have two, and only page entries are written.
- Block mapping in ext2, the xarray and the radix tree: an index is a function. The bio's segments are the set of its pages.
- The scheduler: `__schedule` supports one switch, at boot, and panics on any other. Fork copies the boot
  context once.
- ELF relocation in the module loader, the SBI calls, the first page tables, the formatting and string libraries. `PROJECT.json` lists
  every part with what is left out of it.
- Terminal input, signals and process exit do not exist in the code.
