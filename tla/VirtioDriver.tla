---------------------------- MODULE VirtioDriver ----------------------------
(***************************************************************************)
(* The virtqueue under the discipline its interface asks for: "Caller must *)
(* ensure we don't call this with other virtqueue operations at the same   *)
(* time".  One context (at) adds buffers as virtio_queue_rq does and, on an *)
(* interrupt, runs vm_interrupt, vring_interrupt and virtblk_done.  The    *)
(* device runs concurrently with all of it.                                *)
(***************************************************************************)
EXTENDS VirtioRing

VARIABLE at    \* the driver's place: "idle" or inside one of its routines

\* The tokens are the requests of the driver's tag set, whose queue_depth
\* virtblk_probe takes from the num_free of the first disk's ring.
ASSUME QueueDepth == IsFiniteSet(Bufs) /\ Cardinality(Bufs) <= Num

dvars == <<ring, at>>

DriverInit == VringInit /\ at = "idle"

Goto(from, to) == at = from /\ at' = to

\* virtqueue_add_sgs called from virtblk_add_req with a request not in flight.
Add(b) ==
  /\ b \notin Outstanding
  /\ at = "idle"
  /\ \/ UseIndirect  /\ at' = "expose" /\ AddBuf(b)
     \/ ~UseIndirect /\ at' = "bug"    /\ UNCHANGED ring

AddExpose == Goto("expose", "notify") /\ Expose

\* Mutant of AddNotify: the device is not notified.
AddNoNotify == Goto("notify", "idle") /\ UNCHANGED ring

\* bd.last is always true, so virtio_queue_rq notifies after every request.
AddNotify == Goto("notify", "idle") /\ Notify

\* vm_interrupt acknowledges and, through vring_interrupt, looks at the ring.
Interrupt == intr /\ Goto("idle", "vring") /\ AckIntr

VringInterrupt ==
  /\ at = "vring"
  /\ at' = IF MoreUsed THEN "get" ELSE "idle"
  /\ UNCHANGED ring

\* virtblk_done: while (get_buf) ..., then enable_cb, then look once more.
DoneGet ==
  /\ at = "get"
  /\ \/ MoreUsed /\ ~BadHead /\ at' = "get"    /\ GetBuf
     \/ MoreUsed /\ BadHead  /\ at' = "bug"    /\ UNCHANGED ring
     \/ ~MoreUsed            /\ at' = "enable" /\ UNCHANGED ring

DoneEnable == Goto("enable", "poll") /\ EnableCb

\* Mutant of DonePoll: no second look at the ring.
DoneNoPoll == Goto("poll", "idle") /\ UNCHANGED ring

DonePoll ==
  /\ at = "poll"
  /\ at' = IF MoreUsed THEN "get" ELSE "idle"
  /\ UNCHANGED ring

Device == (DevPop \/ DevSleep \/ DevSignal \/ \E h \in Heads : DevUse(h)) /\ UNCHANGED at

Driver == AddExpose \/ AddNotify \/ Interrupt \/ VringInterrupt
            \/ DoneGet \/ DoneEnable \/ DonePoll

DriverNext == (\E b \in Bufs : Add(b)) \/ Driver \/ Device

DriverSpec == DriverInit /\ [][DriverNext]_dvars

\* The processor runs and takes interrupts, the device answers every request.
DriverFair ==
  /\ WF_dvars(Driver)
  /\ WF_dvars(DevPop /\ UNCHANGED at) /\ WF_dvars(DevSignal /\ UNCHANGED at)
  /\ \A h \in Heads : WF_dvars(DevUse(h) /\ UNCHANGED at)

FairDriverSpec == DriverSpec /\ DriverFair

-----------------------------------------------------------------------------
\* The free list of virtqueue_add_split and detach_buf_split: following `next'
\* from free_head num_free times meets every descriptor without a buffer
\* exactly once, whatever the order in which the device finishes requests.
FreeListExact ==
  Threaded({h \in Heads : vq.data[h] = NoBuf}, vq.num_free, vq.free_head, vq.next)

\* A descriptor with a buffer is in exactly one place: being added, exposed in
\* the available array, with the device, or in the used array; the entries of
\* the two arrays in the open windows are never overwritten.  Its indirect
\* table is allocated exactly as long (no leak, no early kfree in detach_buf),
\* and neither BUG_ON(!virtqueue_use_indirect) nor the panic of get_buf on an
\* id that "is not a head!" is reached.
OnePlacePerHead ==
  LET adding  == IF at = "expose" THEN {avail.ring[Slot(vq.avail_idx_shadow)]} ELSE {}
      places  == <<adding, AvailEntries, dev.inflight, UsedEntries>>
      busy    == {h \in Heads : vq.data[h] # NoBuf}
  IN  /\ UNION {places[k] : k \in 1 .. 4} = busy
      /\ \A j, k \in 1 .. 4 : j # k => places[j] \cap places[k] = {}
      /\ Cardinality(AvailEntries) = U16(avail.idx - dev.last_avail)
      /\ Cardinality(UsedEntries) = U16(used.idx - vq.last_used_idx)
      /\ vq.indir = busy /\ at # "bug"

\* virtqueue_enable_cb: "We optimistically turn back on interrupts, then check
\* if there was more to do": when the driver is outside virtblk_done, a used
\* entry it has not seen has raised the interrupt or is about to.
NoLostInterrupt ==
  at \in {"idle", "expose", "notify"} /\ MoreUsed =>
    intr \/ (dev.signalled # used.idx /\ NeedEvent)

\* Every buffer added is returned by virtqueue_get_buf, however its completion
\* races with virtblk_done and with the wrap of the 16-bit indices.
EveryBufReturns == \A b \in Bufs : b \in Outstanding ~> b \notin Outstanding

\* The ring implements the transfer of buffers: virtqueue_get_buf returns each
\* buffer once and only after the device has finished it.
T == INSTANCE Transfer WITH Items <- Bufs,
       pending  <- {b \in Outstanding : \E h \in Heads \ UsedEntries : vq.data[h] = b},
       finished <- {vq.data[h] : h \in UsedEntries}
RingTransfers == T!Spec
=============================================================================
