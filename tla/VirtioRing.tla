----------------------------- MODULE VirtioRing -----------------------------
(***************************************************************************)
(* The split virtqueue of virtio/virtio_ring.c and, as its environment,    *)
(* the device on the other side of the shared memory.  This module holds   *)
(* the state of one queue and one action per operation on it; the order in *)
(* which a driver calls them is given by the modules that extend this one. *)
(*                                                                         *)
(* Every buffer takes one descriptor (virtqueue_add_split insists on an    *)
(* indirect table), so a descriptor is known by its index, the head.  The  *)
(* notify hook of virtio_mmio never fails, so vq->broken stays FALSE and   *)
(* is left out; avail_flags_shadow is never written to the ring (the event *)
(* index is mandatory) and is left out too.                                *)
(***************************************************************************)
EXTENDS Integers, FiniteSets

CONSTANTS
  Num,      \* vring.num, a power of two
  IdxMod,   \* 2^16: avail->idx, used->idx, last_used_idx and used_event are u16
  Bufs,     \* the tokens a driver can add: its virtblk_req structures
  NoBuf     \* desc_state[].data is NULL

ASSUME RingAssumption ==
  /\ Num \in Nat \ {0}
  /\ IdxMod \in Nat /\ IdxMod > Num /\ IdxMod % Num = 0
  /\ NoBuf \notin Bufs

VARIABLES
  vq,          \* vring_virtqueue: what only the driver reads and writes
  avail,       \* vring.avail: ring and idx, written by the driver
  used_event,  \* vring_used_event, written by the driver
  used,        \* vring.used: ring and idx, written by the device
  dev,         \* the device: its own indices and the heads it works on
  kicked,      \* the device has been notified and has not gone to sleep
  intr         \* VIRTIO_MMIO_INT_VRING in the interrupt status register

ring == <<vq, avail, used_event, used, dev, kicked, intr>>

Heads == 0 .. Num - 1
U16(n)  == n % IdxMod
Slot(n) == n % Num

\* The indices from `from' up to, not including, `to', modulo 2^16.
Window(from, to) == {U16(from + k) : k \in 0 .. U16(to - from) - 1}

-----------------------------------------------------------------------------
(* vring_create_virtqueue_split and __vring_new_virtqueue: the pages are   *)
(* zeroed, the descriptors are chained into the free list.                 *)
VringInit ==
  /\ vq = [free_head |-> 0, num_free |-> Num,
           next |-> [h \in Heads |-> IF h < Num - 1 THEN h + 1 ELSE 0],
           data |-> [h \in Heads |-> NoBuf], indir |-> {},
           avail_idx_shadow |-> 0, last_used_idx |-> 0, num_added |-> 0]
  /\ avail = [ring |-> [k \in Heads |-> 0], idx |-> 0]
  /\ used  = [ring |-> [k \in Heads |-> 0], idx |-> 0]
  /\ used_event = 0
  /\ dev = [last_avail |-> 0, inflight |-> {}, signalled |-> 0]
  /\ kicked = FALSE
  /\ intr = FALSE

\* BUG_ON(!virtqueue_use_indirect(..)): a request always has a header and a
\* status entry, so what can fail is a full ring.
UseIndirect == vq.num_free > 0

\* Mutant of AddBuf: the head goes one slot too far.
AddBufNextSlot(b) ==
  LET head == vq.free_head IN
  /\ vq' = [vq EXCEPT !.num_free = @ - 1, !.free_head = vq.next[head],
                      !.data[head] = b, !.indir = @ \cup {head}]
  /\ avail' = [avail EXCEPT !.ring[Slot(vq.avail_idx_shadow + 1)] = head]
  /\ UNCHANGED <<used_event, used, dev, kicked, intr>>

\* virtqueue_add_split up to the store of the head in the available array.
AddBuf(b) ==
  LET head == vq.free_head IN
  /\ vq' = [vq EXCEPT !.num_free = @ - 1, !.free_head = vq.next[head],
                      !.data[head] = b, !.indir = @ \cup {head}]
  /\ avail' = [avail EXCEPT !.ring[Slot(vq.avail_idx_shadow)] = head]
  /\ UNCHANGED <<used_event, used, dev, kicked, intr>>

\* The rest of virtqueue_add_split: expose the entry; kick on the 2^16-1st.
\* num_added is never reset, here it stops at 2^16.
Expose ==
  LET idx == U16(vq.avail_idx_shadow + 1)
      added == IF vq.num_added < IdxMod THEN vq.num_added + 1 ELSE IdxMod
  IN
  /\ vq' = [vq EXCEPT !.avail_idx_shadow = idx, !.num_added = added]
  /\ avail' = [avail EXCEPT !.idx = idx]
  /\ kicked' = (kicked \/ added = IdxMod - 1)
  /\ UNCHANGED <<used_event, used, dev, intr>>

\* virtqueue_notify and vm_notify: a write to QUEUE_NOTIFY.
Notify == kicked' = TRUE /\ UNCHANGED <<vq, avail, used_event, used, dev, intr>>

\* Mutant of MoreUsed: compares with the wrong index.
MoreUsedAvail == vq.last_used_idx # avail.idx

MoreUsed == vq.last_used_idx # used.idx

\* The descriptor the next used entry names, and the two panics on it.
UsedHead == used.ring[Slot(vq.last_used_idx)]
BadHead  == UsedHead \notin Heads \/ vq.data[UsedHead] = NoBuf

\* Mutant of GetBuf: the free list does not start at the freed descriptor.
GetBufKeepHead ==
  LET head == UsedHead IN
  /\ vq' = [vq EXCEPT !.data[head] = NoBuf, !.next[head] = vq.free_head,
                      !.num_free = @ + 1, !.indir = @ \ {head},
                      !.last_used_idx = U16(@ + 1)]
  /\ UNCHANGED <<avail, used_event, used, dev, kicked, intr>>

\* virtqueue_get_buf_ctx_split with detach_buf_split: the descriptor goes
\* back to the head of the free list, its indirect table is freed.
GetBuf ==
  LET head == UsedHead IN
  /\ vq' = [vq EXCEPT !.data[head] = NoBuf, !.next[head] = vq.free_head,
                      !.free_head = head, !.num_free = @ + 1,
                      !.indir = @ \ {head},
                      !.last_used_idx = U16(@ + 1)]
  /\ UNCHANGED <<avail, used_event, used, dev, kicked, intr>>

\* virtqueue_enable_cb_prepare_split: ask for an interrupt at the next entry.
EnableCb ==
  /\ used_event' = vq.last_used_idx
  /\ UNCHANGED <<vq, avail, used, dev, kicked, intr>>

\* vm_interrupt reads the interrupt status and acknowledges what it read.
AckIntr == intr' = FALSE /\ UNCHANGED <<vq, avail, used_event, used, dev, kicked>>

-----------------------------------------------------------------------------
(* The device (external).  Once notified it takes entries until it finds   *)
(* none, finishes them in any order, and after publishing used entries, at *)
(* most Num of them, interrupts if the driver's event index asks for it.   *)
DevPop ==
  /\ kicked
  /\ dev.last_avail # avail.idx
  /\ dev' = [dev EXCEPT !.last_avail = U16(@ + 1),
                        !.inflight = @ \cup {avail.ring[Slot(dev.last_avail)]}]
  /\ UNCHANGED <<vq, avail, used_event, used, kicked, intr>>

DevSleep ==
  /\ kicked
  /\ dev.last_avail = avail.idx
  /\ kicked' = FALSE
  /\ UNCHANGED <<vq, avail, used_event, used, dev, intr>>

DevUse(h) ==
  /\ h \in dev.inflight
  /\ U16(used.idx - dev.signalled) < Num
  /\ used' = [ring |-> [used.ring EXCEPT ![Slot(used.idx)] = h],
              idx |-> U16(used.idx + 1)]
  /\ dev' = [dev EXCEPT !.inflight = @ \ {h}]
  /\ UNCHANGED <<vq, avail, used_event, kicked, intr>>

NeedEvent == U16(used.idx - used_event - 1) < U16(used.idx - dev.signalled)

DevSignal ==
  /\ dev.signalled # used.idx
  /\ intr' = (intr \/ NeedEvent)
  /\ dev' = [dev EXCEPT !.signalled = used.idx]
  /\ UNCHANGED <<vq, avail, used_event, used, kicked>>

-----------------------------------------------------------------------------
(* Where the descriptors are.                                              *)
Outstanding  == {vq.data[h] : h \in Heads} \ {NoBuf}
UsedEntries  == {used.ring[Slot(k)] : k \in Window(vq.last_used_idx, used.idx)}
AvailEntries == {avail.ring[Slot(k)] : k \in Window(dev.last_avail, avail.idx)}

\* The descriptors of `free' are linked through `next' from `head', n of them.
Threaded(free, n, head, next) ==
  \E f \in [0 .. n - 1 -> free] :
    /\ \A i, j \in 0 .. n - 1 : f[i] = f[j] => i = j
    /\ \A h \in free : \E i \in 0 .. n - 1 : f[i] = h
    /\ \A i \in 0 .. n - 1 : f[i] = IF i = 0 THEN head ELSE next[f[i - 1]]
=============================================================================
