------------------------------ MODULE BlockIO ------------------------------
(***************************************************************************)
(* A block read from the reader to the device and back, on one processor   *)
(* with interrupts enabled all along:                                      *)
(*   - a process in __bread_slow (fs/buffer.c), do_read_cache_page,        *)
(*     generic_file_buffered_read or filemap_fault (filemap) submits bios; *)
(*   - blk_mq_submit_bio turns a bio into a request, mq-deadline queues it, *)
(*     the kblockd work, run synchronously by insert_work, dispatches it   *)
(*     to virtio_queue_rq, which adds it to the virtqueue and notifies;    *)
(*   - the PLIC interrupts the process anywhere: vm_interrupt, virtblk_done *)
(*     and blk_mq_complete_request put the request on blk_cpu_done, and    *)
(*     irq_exit runs blk_done_softirq, which ends the bio.                 *)
(* The ring tokens (Bufs) are the request tags, as virtblk_req follows its *)
(* request in memory.  A bio is named after what it reads: a buffer head   *)
(* or a file page.                                                         *)
(***************************************************************************)
EXTENDS VirtioRing, Sequences

CONSTANTS
  Buffers,     \* buffer heads, read through __bread_slow
  Files,       \* files that are read: each the sequence of bios readahead makes of it
  Mapped,      \* the same for files first touched by a page fault
  Errors       \* the device may fail a transfer

PagesOf(fs) == UNION {{f[k] : k \in DOMAIN f} : f \in fs}
Bios == Buffers \cup PagesOf(Files \cup Mapped)
NoBio == <<>>
Tags == Bufs
BlkTag == 1           \* __blk_mq_alloc_request: tag = 1

\* A bio reads a buffer or pages of a file, never both, and readahead makes at
\* least one bio of a file.
ASSUME BlockAssumption ==
  /\ BlkTag \in Tags
  /\ NoBio \notin Bios
  /\ Buffers \cap PagesOf(Files \cup Mapped) = {}
  /\ \A f \in Files \cup Mapped : f \in Seq(PagesOf(Files \cup Mapped)) /\ f # <<>>

READ == 0
WRITE == 1

VARIABLES
  pc, todo, waiton,      \* the process: place, bios it still submits, what it waits for
  rq,                    \* static_rqs: per tag the bio and virtblk_req.out_hdr, .status
  fifo, rq_list,         \* deadline_data.fifo_list, the list being dispatched
  irqc, local_list,      \* the interrupt: place, the list of blk_done_softirq
  blk_cpu_done, softirq, \* completed requests, BLOCK_SOFTIRQ pending
  plic,                  \* pending and claimed
  table,                 \* per head what its indirect table points to, and the
                         \* sector the device found in the request's header
  locked, uptodate, error, cached,   \* BH_Lock, BH/PG_uptodate, PG_error, in i_pages
  live, answered, filled \* history: bios submitted and not ended, those the device
                         \* answered, and those whose memory has its sector's data

proc  == <<pc, todo, waiton>>
queue == <<rq, fifo, rq_list>>
intc  == <<irqc, local_list, blk_cpu_done, softirq, plic>>
flags == <<locked, uptodate, error, cached>>
hist  == <<live, answered, filled>>
bvars == <<ring, proc, queue, intc, table, flags, hist>>

BlockInit ==
  /\ VringInit
  /\ pc = "user" /\ todo = <<>> /\ waiton = NoBio
  /\ rq = [t \in Tags |-> [bio |-> NoBio, sector |-> NoBio, status |-> "OK"]]
  /\ fifo = [d \in {READ, WRITE} |-> <<>>] /\ rq_list = <<>>
  /\ irqc = "none" /\ local_list = <<>> /\ blk_cpu_done = <<>> /\ softirq = FALSE
  /\ plic = [pending |-> FALSE, claimed |-> FALSE]
  /\ table = [h \in Heads |-> [tag |-> BlkTag, bio |-> NoBio, sector |-> NoBio]]
  /\ locked = {} /\ uptodate = {} /\ error = {} /\ cached = {}
  /\ live = {} /\ answered = {} /\ filled = {}

\* The process runs only while no interrupt is being handled.
Running(place) == pc = place /\ irqc = "none"

-----------------------------------------------------------------------------
(* The readers.  Each reads one thing at a time and spins until it is there. *)

\* __bread_gfp and __bread_slow: lock_buffer panics on a locked buffer
\* (wait_on_bit_lock_io), then submit_bh and wait_on_buffer.
Bread(b) ==
  /\ Running("user")
  /\ b \notin uptodate
  /\ \/ b \in locked /\ pc' = "panic" /\ UNCHANGED <<todo, waiton, locked>>
     \/ /\ b \notin locked
        /\ locked' = locked \cup {b}
        /\ pc' = "submit" /\ todo' = <<b>> /\ waiton' = b
  /\ UNCHANGED <<ring, queue, intc, table, uptodate, error, cached, hist>>

\* The first read of a file (generic_file_buffered_read, do_read_cache_page
\* when it has one page) or the first fault on it (filemap_fault): the pages
\* are not in the cache, readahead adds all of them and mpage_readahead submits
\* one bio per contiguous extent.  A read that starts beyond the first page hits
\* BUG_ON(index) of ondemand_readahead, and do_mpage_readpage panics on a page
\* with a hole or with blocks out of order: the place "stop".
ReadFile(f) ==
  /\ Running("user")
  /\ f[1] \notin cached
  /\ waiton' = f[1]
  /\ \/ /\ cached' = cached \cup {f[k] : k \in DOMAIN f}
        /\ pc' = "submit" /\ todo' = f
     \/ pc' = "stop" /\ UNCHANGED <<todo, cached>>
  /\ UNCHANGED <<ring, queue, intc, table, locked, uptodate, error, hist>>

\* The same with the page in the cache: generic_file_buffered_read panics on
\* the readahead mark ("stop"), or waits for the page; do_read_cache_page
\* returns it (no step) or panics when it is not up to date.
ReadCached(p) ==
  /\ Running("user")
  /\ p \in cached
  /\ waiton' = p
  /\ \/ pc' \in {"wait", "stop"}
     \/ p \notin uptodate /\ pc' = "panic"
  /\ UNCHANGED <<ring, todo, queue, intc, table, flags, hist>>

\* filemap_fault on a page that is in the cache.
FaultCached(p) ==
  /\ Running("user")
  /\ p \in cached
  /\ pc' = "fault" /\ waiton' = p
  /\ UNCHANGED <<ring, todo, queue, intc, table, flags, hist>>

\* Mutants of WaitBuffer and WaitPage: the reader does not wait.
WaitBufferNot ==
  /\ Running("wait") /\ waiton \in Buffers
  /\ IF waiton \in uptodate THEN pc' = "user" /\ waiton' = NoBio
                            ELSE pc' = "panic" /\ UNCHANGED waiton
  /\ UNCHANGED <<ring, todo, queue, intc, table, flags, hist>>
WaitPageNot ==
  /\ Running("wait") /\ waiton \notin Buffers
  /\ pc' = "user" /\ waiton' = NoBio
  /\ UNCHANGED <<ring, todo, queue, intc, table, flags, hist>>

\* wait_on_buffer, then buffer_uptodate or panic; wait_on_page_read; the
\* test in filemap_fault, which does not wait.
WaitBuffer ==
  /\ Running("wait") /\ waiton \in Buffers
  /\ waiton \notin locked
  /\ IF waiton \in uptodate THEN pc' = "user" /\ waiton' = NoBio
                            ELSE pc' = "panic" /\ UNCHANGED waiton
  /\ UNCHANGED <<ring, todo, queue, intc, table, flags, hist>>

\* A read that is longer than its page gives panics after the copy.
WaitPage ==
  /\ Running("wait") /\ waiton \notin Buffers
  /\ waiton \in uptodate
  /\ \/ pc' = "user" /\ waiton' = NoBio
     \/ pc' = "stop" /\ UNCHANGED waiton
  /\ UNCHANGED <<ring, todo, queue, intc, table, flags, hist>>

FaultCheck ==
  /\ Running("fault")
  /\ IF waiton \in uptodate THEN pc' = "user" /\ waiton' = NoBio
                            ELSE pc' = "panic" /\ UNCHANGED waiton
  /\ UNCHANGED <<ring, todo, queue, intc, table, flags, hist>>

-----------------------------------------------------------------------------
(* Submission.                                                             *)

\* dd_insert_requests: the tail of the fifo of its direction; only reads occur.
InsertRequest(t) ==
  fifo' = [fifo EXCEPT ![READ] = Append(@, t)]

\* submit_bio, blk_mq_submit_bio: __blk_mq_alloc_request, blk_mq_rq_ctx_init,
\* blk_mq_bio_to_request, then dd_insert_requests.
SubmitBio ==
  /\ Running("submit")
  /\ rq' = [rq EXCEPT ![BlkTag].bio = Head(todo)]
  /\ InsertRequest(BlkTag)
  /\ todo' = Tail(todo)
  /\ live' = live \cup {Head(todo)}
  /\ pc' = "dispatch"
  /\ UNCHANGED <<ring, waiton, rq_list, intc, table, flags, answered, filled>>

HasWork == fifo[READ] # <<>> \/ fifo[WRITE] # <<>>

\* __dd_dispatch_request: a queued write goes before every read.
DispatchOrder == fifo[WRITE] \o fifo[READ]

\* blk_mq_run_hw_queue, insert_work, blk_mq_run_work_fn and the loop of
\* __blk_mq_do_dispatch_sched: drain the elevator into rq_list.  Without work
\* the caller returns to submit its next bio, to wait for its first, or in
\* filemap_fault to test it; the next page may be one that do_mpage_readpage
\* panics on, and the one to wait for may have the readahead mark.
Dispatch ==
  /\ Running("dispatch")
  /\ \/ /\ HasWork
        /\ rq_list' = DispatchOrder
        /\ fifo' = [d \in {READ, WRITE} |-> <<>>]
        /\ pc' = "queue_rq"
     \/ /\ ~HasWork
        /\ \/ pc' = IF todo # <<>> THEN "submit"
                    ELSE IF waiton \in PagesOf(Mapped) THEN "fault" ELSE "wait"
           \/ /\ waiton \notin Buffers
              /\ todo # <<>> \/ waiton \notin PagesOf(Mapped)
              /\ pc' = "stop"
        /\ UNCHANGED <<rq_list, fifo>>
  /\ UNCHANGED <<ring, todo, waiton, rq, intc, table, flags, hist>>

\* blk_mq_dispatch_rq_list takes the first request; virtio_queue_rq fills the
\* header, maps the pages of rq->bio (BUG_ON(rq->bio == NULL)) and adds it.
QueueRq ==
  /\ Running("queue_rq")
  /\ LET t == Head(rq_list) IN
     \/ /\ rq[t].bio = NoBio \/ ~UseIndirect
        /\ pc' = "panic"
        /\ UNCHANGED <<ring, rq, rq_list, table>>
     \/ /\ rq[t].bio # NoBio /\ UseIndirect
        /\ rq' = [rq EXCEPT ![t].sector = rq[t].bio]
        /\ table' = [table EXCEPT ![vq.free_head] =
                        [tag |-> t, bio |-> rq[t].bio, sector |-> NoBio]]
        /\ AddBuf(t)
        /\ rq_list' = Tail(rq_list)
        /\ pc' = "expose"
  /\ UNCHANGED <<todo, waiton, fifo, intc, flags, hist>>

QueueExpose ==
  /\ Running("expose") /\ pc' = "notify" /\ Expose
  /\ UNCHANGED <<todo, waiton, queue, intc, table, flags, hist>>

\* bd.last is true for every request.  When the list is empty the sum of the
\* uninitialised `queued' and `errors' decides whether __blk_mq_do_dispatch_sched
\* is called again; both ways end the dispatch, as no work is left.
QueueNotify ==
  /\ Running("notify") /\ Notify
  /\ pc' = IF rq_list # <<>> THEN "queue_rq" ELSE "dispatch"
  /\ UNCHANGED <<todo, waiton, queue, intc, table, flags, hist>>
-----------------------------------------------------------------------------
(* The interrupt, with the processor's interrupts off from entry to exit.  *)

\* handle_exception, riscv_intc_irq, handle_domain_irq, plic_handle_irq.
TakeIrq ==
  /\ irqc = "none" /\ plic.pending
  /\ irqc' = "claim"
  /\ UNCHANGED <<ring, proc, queue, local_list, blk_cpu_done, softirq, plic, table, flags, hist>>

\* readl(claim): zero ends the loop of plic_handle_irq.
Claim ==
  /\ irqc = "claim"
  /\ \/ /\ plic.pending
        /\ plic' = [pending |-> FALSE, claimed |-> TRUE]
        /\ irqc' = "isr"
     \/ /\ ~plic.pending
        /\ irqc' = "exit" /\ UNCHANGED plic
  /\ UNCHANGED <<ring, proc, queue, local_list, blk_cpu_done, softirq, table, flags, hist>>

\* vm_interrupt reads and acknowledges the status, then calls vring_interrupt;
\* virtblk_done ends with the same look at the used ring.
VmInterrupt ==
  /\ irqc = "isr"
  /\ irqc' = IF intr THEN "vring" ELSE "eoi"
  /\ AckIntr
  /\ UNCHANGED <<proc, queue, local_list, blk_cpu_done, softirq, plic, table, flags, hist>>

VringIrq ==
  /\ irqc \in {"vring", "poll"}
  /\ irqc' = IF MoreUsed THEN "get" ELSE "eoi"
  /\ UNCHANGED <<ring, proc, queue, local_list, blk_cpu_done, softirq, plic, table, flags, hist>>

\* blk_mq_trigger_softirq: list_add_tail; raise if the list was empty.  A
\* request that is already linked would leave a list that never ends.
TriggerSoftirq(t) ==
  /\ blk_cpu_done' = Append(blk_cpu_done, t)
  /\ softirq' = (softirq \/ blk_cpu_done = <<>>)

OnDoneList(t) == \E k \in DOMAIN blk_cpu_done : blk_cpu_done[k] = t

\* The inner loop of virtblk_done: virtqueue_get_buf, blk_mq_complete_request.
VirtblkDone ==
  /\ irqc = "get"
  /\ \/ /\ MoreUsed
        /\ BadHead \/ OnDoneList(vq.data[UsedHead])
        /\ irqc' = "panic" /\ UNCHANGED <<ring, blk_cpu_done, softirq>>
     \/ /\ MoreUsed /\ ~BadHead /\ ~OnDoneList(vq.data[UsedHead])
        /\ GetBuf /\ TriggerSoftirq(vq.data[UsedHead])
        /\ UNCHANGED irqc
     \/ /\ ~MoreUsed
        /\ irqc' = "enable" /\ UNCHANGED <<ring, blk_cpu_done, softirq>>
  /\ UNCHANGED <<proc, queue, local_list, plic, table, flags, hist>>

VirtblkEnable ==
  /\ irqc = "enable" /\ irqc' = "poll" /\ EnableCb
  /\ UNCHANGED <<proc, queue, local_list, blk_cpu_done, softirq, plic, table, flags, hist>>

\* Mutant of Eoi: the interrupt is never completed at the PLIC.
EoiMissing ==
  /\ irqc = "eoi"
  /\ irqc' = "claim"
  /\ UNCHANGED <<ring, proc, queue, local_list, blk_cpu_done, softirq, plic, table, flags, hist>>

\* plic_irq_eoi: the line, if still raised, becomes pending again.
Eoi ==
  /\ irqc = "eoi"
  /\ plic' = [pending |-> plic.pending \/ intr, claimed |-> FALSE]
  /\ irqc' = "claim"
  /\ UNCHANGED <<ring, proc, queue, local_list, blk_cpu_done, softirq, table, flags, hist>>

\* irq_exit and __do_softirq: clear the pending mask, take the whole list.
IrqExit ==
  /\ irqc = "exit"
  /\ \/ /\ softirq
        /\ softirq' = FALSE /\ local_list' = blk_cpu_done /\ blk_cpu_done' = <<>>
        /\ irqc' = "softirq"
     \/ /\ ~softirq
        /\ irqc' = "none" /\ UNCHANGED <<softirq, local_list, blk_cpu_done>>
  /\ UNCHANGED <<ring, proc, queue, plic, table, flags, hist>>

\* Mutants of EndBufferRead: a failed read is up to date; the buffer stays locked.
EndBufferReadOk(b, status) ==
  uptodate' = uptodate \cup {b} /\ locked' = locked \ {b} /\ UNCHANGED error
EndBufferReadLocked(b, status) ==
  /\ uptodate' = IF status = "OK" THEN uptodate \cup {b} ELSE uptodate \ {b}
  /\ UNCHANGED <<error, locked>>

\* end_bio_bh_io_sync and end_buffer_read_sync; mpage_end_io and page_endio.
EndBufferRead(b, status) ==
  /\ uptodate' = IF status = "OK" THEN uptodate \cup {b} ELSE uptodate \ {b}
  /\ locked' = locked \ {b}
  /\ UNCHANGED error
PageEndio(p, status) ==
  /\ uptodate' = IF status = "OK" THEN uptodate \cup {p} ELSE uptodate \ {p}
  /\ error' = IF status = "OK" THEN error ELSE error \cup {p}
  /\ UNCHANGED locked

\* bio_endio calls the bi_end_io of the submitter.
BioEndio(b, status) ==
  /\ IF b \in Buffers THEN EndBufferRead(b, status) ELSE PageEndio(b, status)
  /\ live' = live \ {b}
  /\ UNCHANGED <<cached, answered, filled>>

\* blk_done_softirq: virtblk_request_done, blk_mq_end_request and
\* blk_update_request, which does nothing for a request without a bio.
BlkDoneSoftirq ==
  /\ irqc = "softirq"
  /\ \/ /\ local_list # <<>>
        /\ LET t == Head(local_list) IN
           \/ /\ rq[t].bio # NoBio
              /\ BioEndio(rq[t].bio, rq[t].status)
              /\ rq' = [rq EXCEPT ![t].bio = NoBio]
           \/ rq[t].bio = NoBio /\ UNCHANGED <<rq, flags, hist>>
        /\ local_list' = Tail(local_list) /\ UNCHANGED irqc
     \/ /\ local_list = <<>>
        /\ irqc' = "none" /\ UNCHANGED <<local_list, rq, flags, hist>>
  /\ UNCHANGED <<ring, proc, fifo, rq_list, blk_cpu_done, softirq, plic, table>>
-----------------------------------------------------------------------------
(* The device (external): it reads the header when it takes a request, and *)
(* fills the pages and the status byte before it publishes the used entry. *)
DiskTake ==
  /\ DevPop
  /\ LET h == avail.ring[Slot(dev.last_avail)]
     IN  table' = [table EXCEPT ![h].sector = rq[table[h].tag].sector]
  /\ UNCHANGED <<proc, queue, intc, flags, hist>>

DiskSleep == DevSleep /\ UNCHANGED <<proc, queue, intc, table, flags, hist>>

DiskFinish(h, status) ==
  /\ DevUse(h)
  /\ rq' = [rq EXCEPT ![table[h].tag].status = status]
  /\ answered' = answered \cup {table[h].bio}
  /\ filled' = IF status = "OK" /\ table[h].sector = table[h].bio
               THEN filled \cup {table[h].bio} ELSE filled
  /\ UNCHANGED <<proc, fifo, rq_list, intc, table, flags, live>>

\* The interrupt line goes up; the PLIC forwards it unless one is in service.
DiskSignal ==
  /\ DevSignal
  /\ plic' = [plic EXCEPT !.pending = @ \/ (intr' /\ ~plic.claimed)]
  /\ UNCHANGED <<proc, queue, irqc, local_list, blk_cpu_done, softirq, table, flags, hist>>

Statuses == {"OK"} \cup (IF Errors THEN {"IOERR"} ELSE {})

-----------------------------------------------------------------------------
Process == WaitBuffer \/ WaitPage \/ FaultCheck \/ SubmitBio \/ Dispatch
             \/ QueueRq \/ QueueExpose \/ QueueNotify

Irq == TakeIrq \/ Claim \/ VmInterrupt \/ VringIrq \/ VirtblkDone
         \/ VirtblkEnable \/ Eoi \/ IrqExit \/ BlkDoneSoftirq

Disk == DiskTake \/ DiskSleep \/ DiskSignal
          \/ \E h \in Heads, st \in Statuses : DiskFinish(h, st)

\* Everything the process can read has been read, or it waits for ever.
Quiet ==
  /\ pc \in {"user", "wait", "stop", "panic"} /\ irqc \in {"none", "panic"}
  /\ ~plic.pending /\ dev.inflight = {} /\ live = {}
  /\ UNCHANGED bvars

BlockNext ==
  \/ \E b \in Buffers : Bread(b)
  \/ \E f \in Files \cup Mapped : ReadFile(f)
  \/ \E p \in PagesOf(Files) : ReadCached(p) \/ FaultCached(p)
  \/ Process \/ Irq \/ Disk \/ Quiet

BlockSpec == BlockInit /\ [][BlockNext]_bvars

\* The processor executes the process and takes interrupts when enabled, the
\* device answers every request it is notified of.
FairBlockSpec ==
  /\ BlockSpec
  /\ WF_bvars(Process) /\ WF_bvars(Irq)
  /\ WF_bvars(DiskTake) /\ WF_bvars(DiskSignal)
  /\ \A h \in Heads : WF_bvars(\E st \in Statuses : DiskFinish(h, st))

-----------------------------------------------------------------------------
\* The flags of a buffer or page follow its I/O.  end_buffer_read_sync and
\* page_endio mark memory up to date only when the device has put the data of
\* its own sector there, so a reader that leaves its wait never sees stale
\* memory; a buffer is locked from lock_buffer in __bread_slow to unlock_buffer
\* in the completion, and once the process waits a locked buffer has a bio in
\* flight, so the wait can end.
FlagsFollowIO ==
  /\ uptodate \subseteq filled
  /\ live \cap Buffers \subseteq locked
  /\ pc \in {"wait", "user"} => locked \subseteq live

\* The panics of the path (lock_buffer, BUG_ON(rq->bio == NULL), a full ring, a
\* used entry that is not a head, a request completed twice, a cached page that
\* do_read_cache_page or filemap_fault finds not up to date) are unreachable;
\* __bread_slow panics only after the device failed that very read.  The reads
\* the kernel does not support, whatever the device does, end in "stop" instead.
OnlyErrorPanics ==
  /\ irqc # "panic"
  /\ pc = "panic" => waiton \in (Buffers \cap answered) \ filled

\* The block stack implements the transfer of bios: every bio is ended exactly
\* once, and only after the device has answered that very bio.
B == INSTANCE Transfer WITH Items <- Bios,
       pending <- live \ answered, finished <- live \cap answered
BlockTransfers == B!Spec

\* Every bio submitted is ended, however the completion interrupt interleaves
\* with the submission (submit_bio .. bio_endio).
EveryBioEnds == \A b \in Bios : b \in live ~> b \notin live

\* A reader spinning in wait_on_buffer or wait_on_page_read leaves the loop,
\* unless the device failed the read of a page (PG_error).
WaitersLeave == pc = "wait" ~> (pc # "wait" \/ waiton \in error)

\* virtqueue_add_sgs, "@data: the token identifying the buffer.": two buffers
\* in the ring have different tokens.
TokenIdentifies ==
  \A g, h \in Heads : g # h /\ vq.data[g] = vq.data[h] => vq.data[h] = NoBuf

\* filemap_fault, "now we need to check that it's up-to-date. If not, it is
\* going to be due to an error.": the panic on a page that is not up to date
\* happens only after the device failed to read it.
FaultPanicIsError == pc = "panic" /\ waiton \notin Buffers => waiton \in error
=============================================================================
