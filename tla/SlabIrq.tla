------------------------------ MODULE SlabIrq ------------------------------
(***************************************************************************)
(* Slab with interrupts.  slab/slab.c never disables interrupts, and the   *)
(* virtio block interrupt calls kfree (detach_buf_split frees the indirect *)
(* table of a finished request), so a whole kfree can run between any two  *)
(* steps of a kmalloc or kfree of the interrupted task.  The handler       *)
(* itself is not interrupted: the trap entry leaves interrupts off.        *)
(***************************************************************************)
EXTENDS Slab

VARIABLES irq,    \* "off", "entered" before the handler's kfree, "freed" after
          frame   \* the interrupted call: its pc and the locals kfree uses

irqVars == <<irq, frame>>
allVars == <<vars, irqVars>>

NoFrame == [pc |-> "idle", objp |-> NoObj, nr |-> 0, i |-> 0]

InitIrq == Init /\ irq = "off" /\ frame = NoFrame

(* The trap entry saves the registers of the interrupted task.             *)
IrqEnter ==
  /\ irq = "off" /\ slab_state = "FULL"   \* irq/irq.c enables them after boot
  /\ pc \notin {"idle", "panic", "bug"} /\ held # {}
  /\ frame' = [pc |-> pc, objp |-> objp, nr |-> nr, i |-> i]
  /\ irq' = "entered"
  /\ pc' = "idle" /\ objp' = NoObj /\ nr' = 0 /\ i' = 0
  /\ UNCHANGED <<ac, page, lists, cnt, slab_state, alloc, prev, held>>

(* vring_interrupt -> virtblk_done -> virtqueue_get_buf -> detach_buf ->   *)
(* kfree.                                                                  *)
IrqKfree ==
  /\ irq = "entered"
  /\ CacheFree \/ CacheFreeFull
  /\ irq' = "freed"
  /\ UNCHANGED frame

IrqFreeStep == irq = "freed" /\ FreeStep /\ UNCHANGED irqVars

(* The trap exit restores them.                                            *)
IrqExit ==
  /\ irq = "freed" /\ pc = "idle"
  /\ pc' = frame.pc /\ objp' = frame.objp /\ nr' = frame.nr /\ i' = frame.i
  /\ irq' = "off" /\ frame' = NoFrame
  /\ UNCHANGED <<ac, page, lists, cnt, slab_state, alloc, prev, held>>

TaskStep == irq = "off" /\ Next /\ UNCHANGED irqVars

NextIrq == TaskStep \/ IrqEnter \/ IrqKfree \/ IrqFreeStep \/ IrqExit

SpecIrq == InitIrq /\ [][NextIrq]_allVars

\* BUG_ON(ac->avail > 0 || !n) at the head of cache_alloc_refill states that
\* nothing has filled the array cache since ____cache_alloc found it empty,
\* and the comment behind cache_grow_begin that only the page allocator can
\* let an interrupt change it.
RefillFindsArrayEmpty == pc # "bug"
=============================================================================
