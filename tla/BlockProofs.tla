---------------------------- MODULE BlockProofs ----------------------------
(***************************************************************************)
(* The block stack for every ring size, index width, set of buffers and    *)
(* set of files of one extent: the flags of what is read follow its I/O,   *)
(* a bio is ended exactly once and only after the device answered it, and  *)
(* without page faults on unread files only a failed buffer read panics.   *)
(*                                                                         *)
(* One request is on its way at a time.  The inductive invariant says, for *)
(* each stage of its way, what the lists, the ring, the process and the    *)
(* flags of the memory are.                                                *)
(***************************************************************************)
EXTENDS BlockIO, TLAPS

\* Every file is one extent, so that readahead makes one bio of it: with more,
\* requests share the one struct request (TokenIdentifies is violated).
OneExtent == \A f \in Files \cup Mapped : Len(f) = 1

Indexes == 0 .. IdxMod - 1

\* Where the request is on its way: nowhere, queued in the scheduler, on the
\* list being dispatched, in the ring (added, exposed, with the device, used),
\* completed, or with the softirq.
Stages == {"none", "fifo", "list", "added", "exposed", "taken", "used", "done", "local"}
InRing == {"added", "exposed", "taken", "used"}
Queued == {"fifo", "list"}

PCs == {"user", "submit", "dispatch", "queue_rq", "expose", "notify", "wait", "fault", "stop",
        "panic"}
IrqPCs == {"none", "claim", "isr", "vring", "get", "enable", "poll", "eoi", "exit", "softirq"}

BioOrNone == Bios \cup {NoBio}

Queues == [free_head : Heads, num_free : Int, next : [Heads -> Heads],
           data : [Heads -> Bufs \cup {NoBuf}], indir : SUBSET Heads,
           avail_idx_shadow : Indexes, last_used_idx : Indexes, num_added : Int]
Rings    == [ring : [Heads -> Heads], idx : Indexes]
DevStates == [last_avail : Indexes, inflight : SUBSET Heads, signalled : Indexes]
Requests == [bio : BioOrNone, sector : BioOrNone, status : {"OK", "IOERR"}]
Entries  == [tag : Tags, bio : BioOrNone, sector : BioOrNone]

BlockType ==
  /\ vq \in Queues /\ avail \in Rings /\ used \in Rings /\ dev \in DevStates
  /\ rq \in [Tags -> Requests] /\ table \in [Heads -> Entries]
  /\ pc \in PCs /\ irqc \in IrqPCs /\ waiton \in BioOrNone
  /\ answered \subseteq Bios /\ cached \subseteq PagesOf(Files \cup Mapped)

One(st, S) == IF st \in S THEN <<BlkTag>> ELSE <<>>

\* The scheduler's lists, the completion lists and the bio of the request.
QueueAt(st) ==
  /\ fifo = [d \in {READ, WRITE} |-> IF d = READ THEN One(st, {"fifo"}) ELSE <<>>]
  /\ rq_list = One(st, {"list"})
  /\ blk_cpu_done = One(st, {"done"}) /\ softirq = (st = "done")
  /\ local_list = One(st, {"local"})
  /\ rq[BlkTag].bio = IF st = "none" THEN NoBio ELSE waiton
  /\ live = IF st = "none" THEN {} ELSE {waiton}

\* The ring: one descriptor at most is busy, and each of the five indices is
\* either the next entry to be read from the used array or one past it.
RingAt(st, h) ==
  LET now == vq.last_used_idx
      past(S) == IF st \in S THEN U16(now + 1) ELSE now
  IN  /\ vq.num_free = IF st \in InRing THEN Num - 1 ELSE Num
      /\ vq.data = [g \in Heads |-> IF st \in InRing /\ g = h THEN BlkTag ELSE NoBuf]
      /\ vq.avail_idx_shadow = past({"exposed", "taken", "used"})
      /\ avail.idx = past({"exposed", "taken", "used"})
      /\ dev.last_avail = past({"taken", "used"})
      /\ used.idx = past({"used"})
      /\ dev.inflight = IF st = "taken" THEN {h} ELSE {}
      /\ st \in {"added", "exposed"} => avail.ring[Slot(now)] = h
      /\ st = "used" => used.ring[Slot(now)] = h
      /\ st \in {"added", "exposed", "taken"} =>
           /\ table[h].tag = BlkTag /\ table[h].bio = waiton
           /\ rq[BlkTag].sector = waiton
      /\ st = "taken" => table[h].sector = waiton

\* What the process does meanwhile.
ProcessAt(st) ==
  /\ st = "fifo" => pc = "dispatch"
  /\ st = "list" <=> pc = "queue_rq"
  /\ st = "added" <=> pc = "expose"
  /\ pc \in {"user", "submit"} => st = "none"
  /\ todo = IF pc = "submit" THEN <<waiton>> ELSE <<>>
  /\ waiton = NoBio <=> pc = "user"
  /\ pc \in {"dispatch", "notify", "wait"} /\ st = "none" /\ waiton \in Buffers =>
       waiton \in answered

\* The flags and the data of the memory that is read.
DataAt(st) ==
  /\ uptodate = filled \ live
  /\ filled \subseteq answered
  /\ pc = "submit" \/ st \in Queued \cup {"added", "exposed", "taken"} => waiton \notin answered
  /\ st \in {"used", "done", "local"} =>
       waiton \in answered /\ (waiton \in filled <=> rq[BlkTag].status = "OK")
  /\ answered \subseteq uptodate \cup {waiton}
  /\ uptodate \subseteq Buffers \cup cached
  /\ waiton \in Buffers \cup cached \cup {NoBio} \/ (pc = "stop" /\ st = "none")
  /\ locked = IF waiton \in Buffers /\ (pc = "submit" \/ st # "none") THEN {waiton} ELSE {}

\* Without page faults on files not read before, the pages in the cache are up
\* to date but for the one being read, and only a failed buffer read panics.
NoFaultsAt(st) ==
  /\ cached \subseteq uptodate \cup {waiton}
  /\ pc = "fault" => waiton \in uptodate
  /\ pc = "panic" => st = "none" /\ waiton \in (Buffers \cap answered) \ filled

\* The whole state at a stage, with h the descriptor of the request.
At(st, h) ==
  /\ QueueAt(st) /\ RingAt(st, h) /\ ProcessAt(st) /\ DataAt(st)
  /\ Mapped = {} => NoFaultsAt(st)

BlockInv == BlockType /\ \E st \in Stages, h \in Heads : At(st, h)

-----------------------------------------------------------------------------
(* Constants and indices.                                                  *)

\* The numbers of the ring: an index is not its successor, a slot is a head.
LEMMA Index ==
  /\ Num \in Nat \ {0} /\ 0 \in Heads /\ 0 \in Indexes
  /\ \A x \in Indexes : U16(x + 1) \in Indexes /\ U16(x + 1) # x /\ Slot(x) \in Heads
<1>1. Num \in Nat \ {0} /\ IdxMod \in Nat \ {0} /\ Num < IdxMod
  BY RingAssumption
<1>2. \A x \in Indexes : U16(x + 1) = IF x + 1 = IdxMod THEN 0 ELSE x + 1
  BY <1>1 DEF U16, Indexes
<1>3. \A x \in Indexes : Slot(x) \in Heads
  BY <1>1 DEF Slot, Indexes, Heads
<1> QED
  BY <1>1, <1>2, <1>3 DEF Indexes, Heads

\* A file of one extent is one bio, which is not a buffer and not NoBio.
LEMMA FileIsBio ==
  ASSUME OneExtent, NEW f \in Files \cup Mapped
  PROVE  /\ f[1] \in PagesOf(Files \cup Mapped) /\ f[1] \in Bios \ Buffers
         /\ f[1] # NoBio /\ f = <<f[1]>> /\ {f[k] : k \in DOMAIN f} = {f[1]}
<1>1. f \in Seq(PagesOf(Files \cup Mapped)) /\ Len(f) = 1
  BY BlockAssumption, Zenon DEF OneExtent
<1>2. DOMAIN f = {1} /\ f[1] \in PagesOf(Files \cup Mapped)
  BY <1>1
<1>3. f = <<f[1]>>
  BY <1>1, <1>2
<1>4. {f[k] : k \in DOMAIN f} = {f[1]}
  BY <1>2
<1>5. f[1] \in Bios \ Buffers /\ f[1] # NoBio
  BY <1>2, BlockAssumption, Zenon DEF Bios
<1> QED
  BY <1>2, <1>3, <1>4, <1>5

\* The updates of a request keep it one.
LEMMA RequestUpdate ==
  ASSUME NEW r \in [Tags -> Requests], NEW b \in BioOrNone, NEW x \in {"OK", "IOERR"}
  PROVE  /\ [r EXCEPT ![BlkTag].bio = b] \in [Tags -> Requests]
         /\ [r EXCEPT ![BlkTag].sector = b] \in [Tags -> Requests]
         /\ [r EXCEPT ![BlkTag].status = x] \in [Tags -> Requests]
BY Zenon DEF Requests

\* virtqueue_add_split fills the indirect table of a descriptor.
LEMMA EntryUpdate ==
  ASSUME NEW t \in [Heads -> Entries], NEW b \in BioOrNone, NEW g \in Heads
  PROVE  /\ [t EXCEPT ![g] = [tag |-> BlkTag, bio |-> b, sector |-> NoBio]] \in [Heads -> Entries]
         /\ [t EXCEPT ![g].sector = b] \in [Heads -> Entries]
BY BlockAssumption DEF Entries, BioOrNone

-----------------------------------------------------------------------------
(* The readers.                                                            *)

\* lock_buffer never finds the buffer locked: nothing is being read.
LEMMA BreadStep ==
  ASSUME BlockType, NEW st \in Stages, NEW h \in Heads, At(st, h), NEW b \in Buffers,
         Bread(b)
  PROVE  BlockInv'
<1> USE DEF Running, One, Stages, InRing, Queued
<1>1. /\ st = "none" /\ waiton = NoBio /\ locked = {} /\ live = {} /\ b \in Bios /\ b # NoBio
      /\ NoBio \notin answered /\ b \notin answered
      /\ pc' = "submit" /\ todo' = <<b>> /\ waiton' = b /\ locked' = {b}
  BY BlockAssumption, Zenon DEF BlockType, At, QueueAt, ProcessAt, DataAt, Bios,
     Bread, ring, queue, intc, hist
<1>2. BlockType'
  BY <1>1, BlockAssumption, Zenon DEF BlockType, PCs, IrqPCs, BioOrNone, Bread, ring,
     queue, intc, hist
<1>3. QueueAt("none")'
  BY <1>1 DEF BlockType, At, QueueAt, Bread, ring, queue, intc, hist
<1>4. RingAt("none", h)'
  BY <1>1 DEF BlockType, At, RingAt, Bread, ring, queue, intc, hist
<1>5. ProcessAt("none")'
  BY SMTT(60), <1>1 DEF BlockType, At, ProcessAt, Bread, ring, queue, intc, hist
<1>6. DataAt("none")'
  BY <1>1, BlockAssumption DEF BlockType, At, QueueAt, ProcessAt, DataAt,
     BioOrNone, Bios, Bread, ring, queue, intc, hist
<1>7. Mapped = {} => NoFaultsAt("none")'
  BY <1>1, BlockAssumption DEF BlockType, At, QueueAt, ProcessAt, DataAt,
     NoFaultsAt, BioOrNone, Bios, Bread, ring, queue, intc, hist
<1>8. At("none", h)'
  BY <1>3, <1>4, <1>5, <1>6, <1>7 DEF At
<1> QED
  BY <1>2, <1>8 DEF BlockInv

\* The page of the file is not in the cache, so it was never read.
LEMMA ReadFileStep ==
  ASSUME BlockType, NEW st \in Stages, NEW h \in Heads, At(st, h),
         OneExtent, NEW f \in Files \cup Mapped,
         ReadFile(f)
  PROVE  BlockInv'
<1> USE DEF Running, One, Stages, InRing, Queued
<1>1. /\ st = "none" /\ waiton = NoBio /\ locked = {} /\ live = {}
      /\ NoBio \notin answered /\ f[1] \notin answered
      /\ f[1] \in Bios /\ f[1] \notin Buffers /\ f[1] # NoBio /\ f[1] \in PagesOf(Files \cup Mapped)
      /\ waiton' = f[1]
      /\ \/ pc' = "submit" /\ todo' = <<f[1]>> /\ cached' = cached \cup {f[1]}
         \/ pc' = "stop" /\ todo' = <<>> /\ cached' = cached
  BY BlockAssumption, FileIsBio, Zenon DEF BlockType, At, QueueAt, ProcessAt, DataAt,
     Bios, ReadFile, ring, queue, intc, hist
<1>2. BlockType'
  BY <1>1, BlockAssumption, Zenon DEF BlockType, PCs, IrqPCs, BioOrNone, ReadFile,
     ring, queue, intc, hist
<1>3. QueueAt("none")'
  BY <1>1 DEF BlockType, At, QueueAt, ReadFile, ring, queue, intc, hist
<1>4. RingAt("none", h)'
  BY <1>1 DEF BlockType, At, RingAt, ReadFile, ring, queue, intc, hist
<1>5. ProcessAt("none")'
  BY <1>1 DEF BlockType, At, ProcessAt, ReadFile, ring, queue, intc, hist
<1>6. DataAt("none")'
  BY <1>1, BlockAssumption DEF BlockType, At, QueueAt, ProcessAt, DataAt,
     BioOrNone, Bios, ReadFile, ring, queue, intc, hist
<1>7. Mapped = {} => NoFaultsAt("none")'
  BY <1>1, BlockAssumption DEF BlockType, At, QueueAt, ProcessAt, DataAt,
     NoFaultsAt, BioOrNone, Bios, ReadFile, ring, queue, intc, hist
<1>8. At("none", h)'
  BY <1>3, <1>4, <1>5, <1>6, <1>7 DEF At
<1> QED
  BY <1>2, <1>8 DEF BlockInv

\* A read of a page in the cache: nothing is on its way.
LEMMA ReadCachedStep ==
  ASSUME BlockType, NEW st \in Stages, NEW h \in Heads, At(st, h), NEW p \in PagesOf(Files),
         ReadCached(p)
  PROVE  BlockInv'
<1> USE DEF Running, One, Stages, InRing, Queued
<1>1. /\ st = "none" /\ waiton = NoBio /\ locked = {} /\ live = {} /\ p \in cached
      /\ NoBio \notin answered /\ pc' \in {"wait", "stop", "panic"} /\ waiton' = p
      /\ pc' = "panic" => p \notin uptodate
  BY BlockAssumption DEF BlockType, At, QueueAt, ProcessAt, DataAt, Bios,
     ReadCached, ring, queue, intc, flags, hist
<1>2. p \in Bios /\ p # NoBio /\ p \notin Buffers
  BY <1>1, BlockAssumption, Zenon DEF BlockType, Bios
<1>3. BlockType'
  BY <1>1, <1>2, BlockAssumption, Zenon DEF BlockType, PCs, IrqPCs, BioOrNone, ReadCached,
     ring, queue, intc, flags, hist
<1>4. QueueAt("none")'
  BY Zenon, <1>1, <1>2 DEF BlockType, At, QueueAt, ReadCached, ring, queue, intc, flags,
     hist
<1>5. RingAt("none", h)'
  BY <1>1, <1>2 DEF BlockType, At, RingAt, ReadCached, ring, queue, intc, flags,
     hist
<1>6. ProcessAt("none")'
  BY Zenon, <1>1, <1>2 DEF BlockType, At, ProcessAt, ReadCached, ring, queue, intc, flags,
     hist
<1>7. DataAt("none")'
  BY <1>1, <1>2, BlockAssumption DEF BlockType, At, QueueAt, ProcessAt, DataAt,
     BioOrNone, Bios, ReadCached, ring, queue, intc, flags, hist
<1>8. Mapped = {} => NoFaultsAt("none")'
  BY <1>1, <1>2, BlockAssumption DEF BlockType, At, QueueAt, ProcessAt, DataAt,
     NoFaultsAt, BioOrNone, Bios, ReadCached, ring, queue, intc, flags, hist
<1>9. At("none", h)'
  BY <1>4, <1>5, <1>6, <1>7, <1>8 DEF At
<1> QED
  BY <1>3, <1>9 DEF BlockInv

\* A fault on a page in the cache: nothing is being read.
LEMMA FaultCachedStep ==
  ASSUME BlockType, NEW st \in Stages, NEW h \in Heads, At(st, h), NEW p \in PagesOf(Files),
         FaultCached(p)
  PROVE  BlockInv'
<1> USE DEF Running, One, Stages, InRing, Queued
<1>1. /\ st = "none" /\ waiton = NoBio /\ locked = {} /\ live = {} /\ p \in cached
      /\ NoBio \notin answered /\ pc' = "fault" /\ waiton' = p
  BY BlockAssumption DEF BlockType, At, QueueAt, ProcessAt, DataAt, Bios,
     FaultCached, ring, queue, intc, flags, hist
<1>2. p \in Bios /\ p # NoBio /\ p \notin Buffers
  BY <1>1, BlockAssumption, Zenon DEF BlockType, Bios
<1>3. BlockType'
  BY <1>1, <1>2, BlockAssumption, Zenon DEF BlockType, PCs, IrqPCs, BioOrNone, FaultCached,
     ring, queue, intc, flags, hist
<1>4. QueueAt("none")'
  BY Zenon, <1>1, <1>2 DEF BlockType, At, QueueAt, FaultCached, ring, queue, intc, flags,
     hist
<1>5. RingAt("none", h)'
  BY <1>1, <1>2 DEF BlockType, At, RingAt, FaultCached, ring, queue, intc, flags,
     hist
<1>6. ProcessAt("none")'
  BY Zenon, <1>1, <1>2 DEF BlockType, At, ProcessAt, FaultCached, ring, queue, intc, flags,
     hist
<1>7. DataAt("none")'
  BY <1>1, <1>2, BlockAssumption DEF BlockType, At, QueueAt, ProcessAt, DataAt,
     BioOrNone, Bios, FaultCached, ring, queue, intc, flags, hist
<1>8. Mapped = {} => NoFaultsAt("none")'
  BY <1>1, <1>2, BlockAssumption DEF BlockType, At, QueueAt, ProcessAt, DataAt,
     NoFaultsAt, BioOrNone, Bios, FaultCached, ring, queue, intc, flags, hist
<1>9. At("none", h)'
  BY <1>4, <1>5, <1>6, <1>7, <1>8 DEF At
<1> QED
  BY <1>3, <1>9 DEF BlockInv

\* The buffer is unlocked, so its request is over.
LEMMA WaitBufferStep ==
  ASSUME BlockType, NEW st \in Stages, NEW h \in Heads, At(st, h),
         WaitBuffer
  PROVE  BlockInv'
<1> USE DEF Running, One, Stages, InRing, Queued
<1>1. st = "none" /\ live = {} /\ locked = {} /\ waiton \in Buffers \cap answered
  BY DEF BlockType, BioOrNone, At, QueueAt, ProcessAt, DataAt, WaitBuffer,
     ring, queue, intc, flags, hist
<1>2. BlockType'
  BY <1>1, BlockAssumption, Zenon DEF BlockType, PCs, IrqPCs, BioOrNone, WaitBuffer,
     ring, queue, intc, flags, hist
<1>3. QueueAt(st)'
  BY Zenon, <1>1 DEF BlockType, At, QueueAt, WaitBuffer, ring, queue, intc, flags,
     hist
<1>4. RingAt(st, h)'
  BY <1>1 DEF BlockType, At, RingAt, WaitBuffer, ring, queue, intc, flags,
     hist
<1>5. ProcessAt(st)'
  BY <1>1 DEF BlockType, At, ProcessAt, WaitBuffer, ring, queue, intc, flags,
     hist
<1>6. DataAt(st)'
  BY Zenon, <1>1, BlockAssumption DEF BlockType, At, QueueAt, ProcessAt, DataAt,
     BioOrNone, Bios, WaitBuffer, ring, queue, intc, flags, hist
<1>7. Mapped = {} => NoFaultsAt(st)'
  BY <1>1, BlockAssumption DEF BlockType, At, QueueAt, ProcessAt, DataAt,
     NoFaultsAt, BioOrNone, Bios, WaitBuffer, ring, queue, intc, flags, hist
<1>8. At(st, h)'
  BY <1>3, <1>4, <1>5, <1>6, <1>7 DEF At
<1> QED
  BY <1>2, <1>8 DEF BlockInv

\* The page is up to date, so its request is over.
LEMMA WaitPageStep ==
  ASSUME BlockType, NEW st \in Stages, NEW h \in Heads, At(st, h),
         WaitPage
  PROVE  BlockInv'
<1> USE DEF Running, One, Stages, InRing, Queued
<1>1. st = "none" /\ live = {} /\ waiton \in uptodate /\ waiton \in Bios \ Buffers
  BY DEF BlockType, BioOrNone, At, QueueAt, ProcessAt, DataAt, WaitPage, ring,
     queue, intc, flags, hist
<1>2. BlockType'
  BY <1>1, BlockAssumption, Zenon DEF BlockType, PCs, IrqPCs, BioOrNone, WaitPage,
     ring, queue, intc, flags, hist
<1>3. QueueAt(st)'
  BY Zenon, <1>1 DEF BlockType, At, QueueAt, WaitPage, ring, queue, intc, flags, hist
<1>4. RingAt(st, h)'
  BY Zenon, <1>1 DEF BlockType, At, RingAt, WaitPage, ring, queue, intc, flags, hist
<1>5. ProcessAt(st)'
  BY <1>1 DEF BlockType, At, ProcessAt, WaitPage, ring, queue, intc, flags,
     hist
<1>6. DataAt(st)'
  BY ZenonT(60), <1>1, BlockAssumption DEF BlockType, At, QueueAt, ProcessAt, DataAt,
     BioOrNone, Bios, WaitPage, ring, queue, intc, flags, hist
<1>7. Mapped = {} => NoFaultsAt(st)'
  BY Zenon, <1>1, BlockAssumption DEF BlockType, At, QueueAt, ProcessAt, DataAt,
     NoFaultsAt, BioOrNone, Bios, WaitPage, ring, queue, intc, flags, hist
<1>8. At(st, h)'
  BY <1>3, <1>4, <1>5, <1>6, <1>7 DEF At
<1> QED
  BY <1>2, <1>8 DEF BlockInv

\* Up to date or not, what becomes of the request does not change.
LEMMA FaultCheckStep ==
  ASSUME BlockType, NEW st \in Stages, NEW h \in Heads, At(st, h),
         FaultCheck
  PROVE  BlockInv'
<1> USE DEF Running, One, Stages, InRing, Queued
<1>1. (waiton \in uptodate => st = "none") /\ pc = "fault" /\ waiton \in Bios
  BY Zenon DEF BlockType, BioOrNone, At, QueueAt, ProcessAt, DataAt, FaultCheck,
     ring, queue, intc, flags, hist
<1>2. BlockType'
  BY <1>1, BlockAssumption, Zenon DEF BlockType, PCs, IrqPCs, BioOrNone, FaultCheck,
     ring, queue, intc, flags, hist
<1>3. QueueAt(st)'
  BY ZenonT(60), <1>1 DEF BlockType, At, QueueAt, FaultCheck, ring, queue, intc, flags,
     hist
<1>4. RingAt(st, h)'
  BY Zenon, <1>1 DEF BlockType, At, RingAt, FaultCheck, ring, queue, intc, flags,
     hist
<1>5. ProcessAt(st)'
  BY <1>1 DEF BlockType, At, ProcessAt, FaultCheck, ring, queue, intc, flags,
     hist
<1>6. DataAt(st)'
  <2>1. CASE waiton \in uptodate
    BY <1>1, <2>1, BlockAssumption, Zenon DEF BlockType, At, QueueAt, DataAt, Bios,
       FaultCheck, ring, queue, intc, flags, hist
  <2>2. CASE waiton \notin uptodate
    BY ZenonT(60), <1>1, <2>2 DEF At, DataAt, FaultCheck, ring, queue, intc, flags, hist
  <2> QED
    BY <2>1, <2>2
<1>7. Mapped = {} => NoFaultsAt(st)'
  BY Zenon, <1>1, BlockAssumption DEF BlockType, At, QueueAt, ProcessAt, DataAt,
     NoFaultsAt, BioOrNone, Bios, FaultCheck, ring, queue, intc, flags, hist
<1>8. At(st, h)'
  BY <1>3, <1>4, <1>5, <1>6, <1>7 DEF At
<1> QED
  BY <1>2, <1>8 DEF BlockInv
-----------------------------------------------------------------------------
(* Submission.                                                             *)

\* blk_mq_submit_bio finds the request unused.
LEMMA SubmitStep ==
  ASSUME BlockType, NEW st \in Stages, NEW h \in Heads, At(st, h),
         SubmitBio
  PROVE  BlockInv'
<1> USE DEF Running, One, Stages, InRing, Queued
<1>1. /\ st = "none" /\ waiton \in Bios \ answered /\ waiton # NoBio /\ live = {}
      /\ pc = "submit" /\ todo = <<waiton>>
      /\ fifo = [d \in {READ, WRITE} |-> <<>>]
  BY DEF BlockType, At, QueueAt, ProcessAt, DataAt, BioOrNone, SubmitBio
<1>2. Head(todo) = waiton /\ Tail(todo) = <<>>
  BY <1>1
<1>3. fifo' = [d \in {READ, WRITE} |-> IF d = READ THEN <<BlkTag>> ELSE <<>>]
  BY SMTT(60), <1>1 DEF SubmitBio, InsertRequest, READ, WRITE
<1>4. /\ rq' = [rq EXCEPT ![BlkTag].bio = waiton] /\ todo' = <<>> /\ live' = {waiton}
      /\ pc' = "dispatch"
      /\ UNCHANGED <<ring, waiton, rq_list, intc, table, flags, answered, filled>>
  BY <1>1, <1>2 DEF SubmitBio
<1>5. BlockType'
  <2>1. waiton \in BioOrNone /\ rq' \in [Tags -> Requests]
    BY <1>4, RequestUpdate, Zenon DEF BlockType
  <2> QED
    BY <1>4, <2>1, Zenon DEF BlockType, PCs, ring, intc, flags
<1>6. QueueAt("fifo")'
  BY <1>1, <1>3, <1>4, BlockAssumption DEF BlockType, Requests, At, QueueAt, intc
<1>7. RingAt("fifo", h)'
  BY <1>1, <1>4 DEF At, RingAt, ring
<1>8. ProcessAt("fifo")'
  BY <1>1, <1>4 DEF At, ProcessAt
<1>9. DataAt("fifo")'
  BY <1>1, <1>4 DEF At, QueueAt, DataAt, flags
<1>10. Mapped = {} => NoFaultsAt("fifo")'
  BY <1>1, <1>4 DEF At, NoFaultsAt, flags
<1>11. At("fifo", h)'
  BY <1>6, <1>7, <1>8, <1>9, <1>10 DEF At
<1> QED
  BY <1>5, <1>11 DEF BlockInv

\* The elevator is drained: it held the one request.
LEMMA DispatchWorkStep ==
  ASSUME BlockType, NEW st \in Stages, NEW h \in Heads, At(st, h), HasWork,
         Dispatch
  PROVE  BlockInv'
<1> USE DEF Running, One, Stages, InRing, Queued
<1>1. /\ st = "fifo" /\ pc = "dispatch" /\ pc' = "queue_rq" /\ rq_list' = <<BlkTag>>
      /\ fifo' = [d \in {READ, WRITE} |-> <<>>]
  BY DEF BlockType, At, QueueAt, ProcessAt, DataAt, Dispatch, HasWork,
     DispatchOrder, READ, WRITE, ring, intc, flags, hist
<1>2. BlockType'
  BY <1>1, BlockAssumption, Zenon DEF BlockType, PCs, IrqPCs, BioOrNone, Dispatch,
     HasWork, DispatchOrder, READ, WRITE, ring, intc, flags, hist
<1>3. QueueAt("list")'
  BY <1>1 DEF BlockType, At, QueueAt, Dispatch, HasWork, DispatchOrder, READ,
     WRITE, ring, intc, flags, hist
<1>4. RingAt("list", h)'
  BY <1>1, Zenon DEF BlockType, At, RingAt, Dispatch, HasWork, DispatchOrder, READ,
     WRITE, ring, intc, flags, hist
<1>5. ProcessAt("list")'
  BY <1>1 DEF BlockType, At, ProcessAt, Dispatch, HasWork, DispatchOrder,
     READ, WRITE, ring, intc, flags, hist
<1>6. DataAt("list")'
  BY <1>1, BlockAssumption, Zenon DEF BlockType, At, QueueAt, ProcessAt, DataAt,
     BioOrNone, Bios, Dispatch, HasWork, DispatchOrder, READ, WRITE, ring,
     intc, flags, hist
<1>7. Mapped = {} => NoFaultsAt("list")'
  BY <1>1, BlockAssumption DEF BlockType, At, QueueAt, ProcessAt, DataAt,
     NoFaultsAt, BioOrNone, Bios, Dispatch, HasWork, DispatchOrder, READ,
     WRITE, ring, intc, flags, hist
<1>8. At("list", h)'
  BY <1>3, <1>4, <1>5, <1>6, <1>7 DEF At
<1> QED
  BY SMTT(60), <1>2, <1>8 DEF BlockInv

\* The elevator is empty: the reader goes on to wait or to test its page.
LEMMA DispatchDoneStep ==
  ASSUME BlockType, NEW st \in Stages, NEW h \in Heads, At(st, h), ~HasWork,
         Dispatch
  PROVE  BlockInv'
<1> USE DEF Running, One, Stages, InRing, Queued
<1>1. /\ st # "fifo" /\ pc = "dispatch" /\ todo = <<>> /\ UNCHANGED <<rq_list, fifo>>
      /\ pc' \in {"fault", "wait", "stop"}
      /\ pc' = "stop" => waiton \notin Buffers
      /\ pc' = "fault" => waiton \in PagesOf(Mapped)
  BY DEF BlockType, At, QueueAt, ProcessAt, DataAt, Dispatch, HasWork, READ,
     WRITE, ring, intc, flags, hist
<1>2. BlockType'
  BY <1>1, BlockAssumption, Zenon DEF BlockType, PCs, IrqPCs, BioOrNone, Dispatch,
     HasWork, READ, WRITE, ring, intc, flags, hist
<1>3. QueueAt(st)'
  BY <1>1 DEF BlockType, At, QueueAt, Dispatch, HasWork, READ, WRITE, ring,
     intc, flags, hist
<1>4. RingAt(st, h)'
  BY <1>1, Zenon DEF BlockType, At, RingAt, Dispatch, HasWork, READ, WRITE, ring,
     intc, flags, hist
<1>5. ProcessAt(st)'
  BY Zenon, <1>1 DEF BlockType, At, ProcessAt, Dispatch, HasWork, READ, WRITE, ring,
     intc, flags, hist
<1>6. DataAt(st)'
  BY <1>1, BlockAssumption DEF BlockType, At, QueueAt, ProcessAt, DataAt,
     BioOrNone, Bios, Dispatch, HasWork, READ, WRITE, ring, intc, flags, hist
<1>7. Mapped = {} => NoFaultsAt(st)'
  <2>1. Mapped = {} => pc' \in {"wait", "stop"}
    BY <1>1 DEF PagesOf
  <2> QED
    BY <1>1, <2>1 DEF At, NoFaultsAt, Dispatch, flags, hist
<1>8. At(st, h)'
  BY <1>3, <1>4, <1>5, <1>6, <1>7 DEF At
<1> QED
  BY <1>2, <1>8, Zenon DEF BlockInv

\* virtio_queue_rq finds a bio and room in the ring: neither BUG_ON is hit.
LEMMA QueueRqStep ==
  ASSUME BlockType, NEW st \in Stages, NEW h \in Heads, At(st, h), QueueRq,
         NEW g \in Heads, g = vq.free_head
  PROVE  BlockInv'
<1> USE DEF Running, One, Stages, InRing, Queued
<1>1. /\ st = "list" /\ pc = "queue_rq" /\ rq_list = <<BlkTag>>
      /\ rq[BlkTag].bio = waiton /\ waiton # NoBio /\ UseIndirect
  BY Index DEF At, QueueAt, ProcessAt, RingAt, QueueRq, UseIndirect
<1>2. Head(rq_list) = BlkTag /\ Tail(rq_list) = <<>>
  BY <1>1
<1>3. /\ pc' = "expose" /\ rq_list' = <<>> /\ AddBuf(BlkTag)
      /\ rq' = [rq EXCEPT ![BlkTag].sector = waiton]
      /\ table' = [table EXCEPT ![g] = [tag |-> BlkTag, bio |-> waiton, sector |-> NoBio]]
      /\ UNCHANGED <<todo, waiton, fifo, intc, flags, hist>>
  BY <1>1, <1>2 DEF QueueRq
<1>4. /\ vq' \in Queues /\ vq'.num_free = Num - 1
      /\ vq'.data = [k \in Heads |-> IF k = g THEN BlkTag ELSE NoBuf]
      /\ vq'.avail_idx_shadow = vq.last_used_idx /\ vq'.last_used_idx = vq.last_used_idx
  <2>1. /\ vq' = [vq EXCEPT !.num_free = @ - 1, !.free_head = vq.next[g],
                            !.data[g] = BlkTag, !.indir = @ \cup {g}]
        /\ vq \in Queues
    BY <1>3 DEF AddBuf, BlockType
  <2>2. /\ vq.num_free = Num /\ vq.data = [k \in Heads |-> NoBuf]
        /\ vq.avail_idx_shadow = vq.last_used_idx
    BY <1>1, Zenon DEF At, RingAt
  <2> QED
    BY <2>1, <2>2, Index, BlockAssumption DEF Queues, Tags
<1>5. /\ avail' \in Rings /\ avail'.idx = vq.last_used_idx
      /\ avail'.ring[Slot(vq.last_used_idx)] = g
  <2>1. Slot(vq.last_used_idx) \in Heads
    BY Index DEF BlockType, Queues
  <2>2. /\ avail' = [avail EXCEPT !.ring[Slot(vq.last_used_idx)] = g]
        /\ avail \in Rings /\ avail.idx = vq.last_used_idx
    BY <1>1, <1>3 DEF AddBuf, At, RingAt, BlockType
  <2> QED
    BY <2>1, <2>2 DEF Rings
<1>6. /\ rq' \in [Tags -> Requests] /\ rq'[BlkTag].bio = waiton
      /\ rq'[BlkTag].sector = waiton /\ rq'[BlkTag].status = rq[BlkTag].status
  <2>1. waiton \in BioOrNone /\ rq \in [Tags -> Requests]
    BY DEF BlockType
  <2>2. rq' \in [Tags -> Requests]
    BY <1>3, <2>1, RequestUpdate, Zenon
  <2> QED
    BY <1>1, <1>3, <2>1, <2>2, BlockAssumption DEF Requests
<1>7. table' \in [Heads -> Entries] /\ table'[g].tag = BlkTag /\ table'[g].bio = waiton
  <2>1. waiton \in BioOrNone /\ table \in [Heads -> Entries]
    BY DEF BlockType
  <2>2. table' \in [Heads -> Entries]
    BY <1>3, <2>1, EntryUpdate, Zenon
  <2> QED
    BY <1>3, <2>1, <2>2
<1>8. UNCHANGED <<used, dev>>
  BY <1>3 DEF AddBuf
<1>9. BlockType'
  BY <1>3, <1>4, <1>5, <1>6, <1>7, <1>8, Zenon DEF BlockType, PCs, intc, flags, hist
<1>10. QueueAt("added")'
  BY <1>1, <1>3, <1>6 DEF At, QueueAt, intc, hist
<1>11. RingAt("added", g)'
  BY <1>1, <1>3, <1>4, <1>5, <1>6, <1>7, <1>8 DEF At, RingAt
<1>12. ProcessAt("added")'
  BY <1>1, <1>3 DEF At, ProcessAt
<1>13. DataAt("added")'
  BY <1>1, <1>3 DEF At, QueueAt, DataAt, flags, hist
<1>14. Mapped = {} => NoFaultsAt("added")'
  BY <1>1, <1>3 DEF At, NoFaultsAt, flags, hist

<1>15. At("added", g)'
  BY <1>10, <1>11, <1>12, <1>13, <1>14 DEF At
<1> QED
  BY <1>9, <1>15 DEF BlockInv

\* The available index goes one past the request.
LEMMA QueueExposeStep ==
  ASSUME BlockType, NEW st \in Stages, NEW h \in Heads, At(st, h),
         QueueExpose
  PROVE  BlockInv'
<1> USE DEF Running, One, Stages, InRing, Queued
<1> DEFINE now == vq.last_used_idx
<1>1. st = "added" /\ pc = "expose" /\ pc' = "notify"
  BY Zenon DEF At, ProcessAt, QueueExpose
<1>2. /\ now \in Indexes /\ U16(now + 1) \in Indexes /\ vq \in Queues /\ avail \in Rings
      /\ vq.avail_idx_shadow = now /\ IdxMod \in Int
  BY <1>1, Index, RingAssumption DEF BlockType, Queues, At, RingAt
<1>3. PICK n \in Int : vq' = [vq EXCEPT !.avail_idx_shadow = U16(now + 1), !.num_added = n]
  <2> DEFINE added == IF vq.num_added < IdxMod THEN vq.num_added + 1 ELSE IdxMod
  <2>1. added \in Int
    BY <1>2 DEF Queues
  <2>2. vq' = [vq EXCEPT !.avail_idx_shadow = U16(now + 1), !.num_added = added]
    BY <1>2 DEF QueueExpose, Expose
  <2> QED
    BY <2>1, <2>2, Zenon
<1>4. /\ vq' \in Queues /\ vq'.avail_idx_shadow = U16(now + 1)
      /\ vq'.last_used_idx = now /\ vq'.num_free = vq.num_free /\ vq'.data = vq.data
  BY <1>2, <1>3, Zenon DEF Queues
<1>5. avail' \in Rings /\ avail'.idx = U16(now + 1) /\ avail'.ring = avail.ring
  BY <1>2 DEF QueueExpose, Expose, Rings
<1>6. UNCHANGED <<used, dev, todo, waiton, queue, intc, table, flags, hist>>
  BY DEF QueueExpose, Expose
<1> HIDE DEF now
<1>7. BlockType'
  BY <1>1, <1>4, <1>5, <1>6, Zenon DEF BlockType, PCs, queue, intc, flags, hist
<1>8. QueueAt("exposed")'
  BY Zenon, <1>1, <1>6 DEF At, QueueAt, queue, intc, hist
<1>9. RingAt("exposed", h)'
  BY <1>1, <1>4, <1>5, <1>6 DEF At, RingAt, now, queue
<1>10. ProcessAt("exposed")'
  BY ZenonT(60), <1>1, <1>6 DEF At, ProcessAt, hist
<1>11. DataAt("exposed")'
  BY Zenon, <1>1, <1>6 DEF At, QueueAt, DataAt, queue, flags, hist
<1>12. Mapped = {} => NoFaultsAt("exposed")'
  BY <1>1, <1>6 DEF At, NoFaultsAt, flags, hist

<1>13. At("exposed", h)'
  BY <1>8, <1>9, <1>10, <1>11, <1>12 DEF At
<1> QED
  BY <1>7, <1>13 DEF BlockInv

\* No request is left on the list.
LEMMA QueueNotifyStep ==
  ASSUME BlockType, NEW st \in Stages, NEW h \in Heads, At(st, h),
         QueueNotify
  PROVE  BlockInv'
<1> USE DEF Running, One, Stages, InRing, Queued
<1>1. pc = "notify" /\ rq_list = <<>> /\ pc' = "dispatch" /\ st \notin {"fifo", "list", "added"}
  BY DEF BlockType, At, QueueAt, ProcessAt, DataAt, QueueNotify, Notify,
     queue, intc, flags, hist
<1>2. BlockType'
  BY <1>1, BlockAssumption, Zenon DEF BlockType, PCs, IrqPCs, BioOrNone, QueueNotify,
     Notify, queue, intc, flags, hist
<1>3. QueueAt(st)'
  BY <1>1 DEF BlockType, At, QueueAt, QueueNotify, Notify, queue, intc, flags,
     hist
<1>4. RingAt(st, h)'
  BY <1>1, Zenon DEF BlockType, At, RingAt, QueueNotify, Notify, queue, intc, flags,
     hist
<1>5. ProcessAt(st)'
  BY <1>1 DEF BlockType, At, ProcessAt, QueueNotify, Notify, queue, intc,
     flags, hist
<1>6. DataAt(st)'
  BY <1>1, BlockAssumption, Zenon DEF BlockType, At, QueueAt, ProcessAt, DataAt,
     BioOrNone, Bios, QueueNotify, Notify, queue, intc, flags, hist
<1>7. Mapped = {} => NoFaultsAt(st)'
  BY <1>1, BlockAssumption, Zenon DEF BlockType, At, QueueAt, ProcessAt, DataAt,
     NoFaultsAt, BioOrNone, Bios, QueueNotify, Notify, queue, intc, flags,
     hist
<1>8. At(st, h)'
  BY <1>3, <1>4, <1>5, <1>6, <1>7 DEF At
<1> QED
  BY Zenon, <1>2, <1>8 DEF BlockInv
-----------------------------------------------------------------------------
(* The interrupt and the device.                                           *)

\* The device takes the request the driver has exposed.
LEMMA DiskTakeStep ==
  ASSUME BlockType, NEW st \in Stages, NEW h \in Heads, At(st, h),
         DiskTake
  PROVE  BlockInv'
<1> USE DEF Running, One, Stages, InRing, Queued
<1> DEFINE now == vq.last_used_idx
<1>1. /\ now \in Indexes /\ U16(now + 1) \in Indexes /\ U16(now + 1) # now
      /\ avail \in Rings /\ dev \in DevStates
  BY Index DEF BlockType, Queues
<1>2. /\ st = "exposed" /\ dev.last_avail = now /\ dev.inflight = {}
      /\ avail.ring[Slot(now)] = h /\ table[h].tag = BlkTag /\ rq[BlkTag].sector = waiton
  BY <1>1, Zenon DEF At, RingAt, DiskTake, DevPop
<1>3. /\ dev' \in DevStates /\ dev'.last_avail = U16(now + 1) /\ dev'.inflight = {h}
  BY <1>1, <1>2, Zenon DEF DiskTake, DevPop, DevStates
<1>4. table' = [table EXCEPT ![h].sector = waiton]
  BY ZenonT(60), <1>2 DEF DiskTake
<1>5. UNCHANGED <<vq, avail, used, proc, queue, intc, flags, hist>>
  BY DEF DiskTake, DevPop
<1>6. /\ table' \in [Heads -> Entries] /\ table'[h].sector = waiton
      /\ table'[h].tag = table[h].tag /\ table'[h].bio = table[h].bio
  <2>1. waiton \in BioOrNone /\ table \in [Heads -> Entries]
    BY DEF BlockType
  <2>2. table' \in [Heads -> Entries]
    BY <1>4, <2>1, EntryUpdate, Zenon
  <2> QED
    BY <1>4, <2>1, <2>2 DEF Entries
<1>7. BlockType'
  BY ZenonT(60), <1>3, <1>5, <1>6 DEF BlockType, proc, queue, intc, flags, hist
<1>8. QueueAt("taken")'
  BY Zenon, <1>2, <1>5 DEF At, QueueAt, proc, queue, intc, hist
<1>9. RingAt("taken", h)'
  BY <1>2, <1>3, <1>5, <1>6, Zenon DEF At, RingAt, proc, queue
<1>10. ProcessAt("taken")'
  BY <1>2, <1>5, Zenon DEF At, ProcessAt, proc, hist
<1>11. DataAt("taken")'
  BY <1>2, <1>5, Zenon DEF At, QueueAt, DataAt, proc, queue, flags, hist
<1>12. Mapped = {} => NoFaultsAt("taken")'
  BY <1>2, <1>5, Zenon DEF At, NoFaultsAt, proc, flags, hist

<1>13. At("taken", h)'
  BY <1>8, <1>9, <1>10, <1>11, <1>12 DEF At
<1> QED
  BY <1>7, <1>13 DEF BlockInv

\* The device answers the request with the bio it belongs to.
LEMMA DiskFinishStep ==
  ASSUME BlockType, NEW st \in Stages, NEW h \in Heads, At(st, h),
         NEW g \in Heads, NEW status \in Statuses,
         DiskFinish(g, status)
  PROVE  BlockInv'
<1> USE DEF Running, One, Stages, InRing, Queued
<1> DEFINE now == vq.last_used_idx
<1>1. /\ now \in Indexes /\ U16(now + 1) \in Indexes /\ Slot(now) \in Heads
      /\ used \in Rings /\ dev \in DevStates
  BY Index DEF BlockType, Queues
<1>2. /\ st = "taken" /\ g = h /\ used.idx = now /\ dev.inflight = {h}
      /\ table[h].tag = BlkTag /\ table[h].bio = waiton /\ table[h].sector = waiton
  BY DEF At, RingAt, DiskFinish, DevUse
<1>3. /\ dev' \in DevStates /\ dev'.last_avail = dev.last_avail /\ dev'.inflight = {}
  BY <1>1, <1>2 DEF DiskFinish, DevUse, DevStates
<1>4. used' \in Rings /\ used'.idx = U16(now + 1) /\ used'.ring[Slot(now)] = h
  BY <1>1, <1>2 DEF DiskFinish, DevUse, Rings
<1>5. /\ answered' = answered \cup {waiton}
      /\ filled' = IF status = "OK" THEN filled \cup {waiton} ELSE filled
      /\ UNCHANGED <<vq, avail, proc, fifo, rq_list, intc, table, flags, live>>
  BY <1>2 DEF DiskFinish, DevUse
<1>6. /\ rq' \in [Tags -> Requests] /\ rq'[BlkTag].bio = rq[BlkTag].bio
      /\ rq'[BlkTag].status = status
  <2>1. waiton \in BioOrNone /\ rq \in [Tags -> Requests] /\ status \in {"OK", "IOERR"}
    BY DEF BlockType, Statuses
  <2>2. rq' = [rq EXCEPT ![BlkTag].status = status]
    BY <1>2 DEF DiskFinish
  <2>3. rq' \in [Tags -> Requests]
    BY <2>1, <2>2, RequestUpdate, Zenon
  <2> QED
    BY <2>1, <2>2, <2>3, BlockAssumption DEF Requests
<1>7. waiton \in Bios /\ live = {waiton} /\ waiton \notin answered /\ waiton \notin filled
  BY <1>2, Zenon DEF BlockType, BioOrNone, At, QueueAt, ProcessAt, DataAt
<1>8. BlockType'
  BY <1>3, <1>4, <1>5, <1>6, <1>7, Zenon DEF BlockType, proc, intc, flags
<1>9. QueueAt("used")'
  BY <1>2, <1>5, <1>6, Zenon DEF At, QueueAt, proc, intc
<1>10. RingAt("used", h)'
  BY <1>2, <1>3, <1>4, <1>5, Zenon DEF At, RingAt
<1>11. ProcessAt("used")'
  BY <1>2, <1>5 DEF At, ProcessAt, proc
<1>12. DataAt("used")'
  <2>1. /\ uptodate = filled \ live /\ filled \subseteq answered
        /\ answered \subseteq uptodate \cup {waiton} /\ pc # "submit"
    BY <1>2, Zenon DEF At, DataAt, ProcessAt
  <2>2. /\ uptodate' = filled' \ live' /\ filled' \subseteq answered'
        /\ answered' \subseteq uptodate' \cup {waiton'} /\ pc' # "submit"
        /\ waiton' \in answered' /\ (waiton' \in filled' <=> rq'[BlkTag].status = "OK")
    BY <1>5, <1>6, <1>7, <2>1, Zenon DEF proc, flags
  <2> QED
    BY <1>2, <1>5, <2>2, Zenon DEF At, DataAt, proc, flags
<1>13. Mapped = {} => NoFaultsAt("used")'
  BY <1>2, <1>5, Zenon DEF At, NoFaultsAt, proc, flags

<1>14. At("used", h)'
  BY <1>9, <1>10, <1>11, <1>12, <1>13 DEF At
<1> QED
  BY <1>8, <1>14 DEF BlockInv

\* The used entry names the descriptor of the request, which is not on the list.
LEMMA VirtblkDoneStep ==
  ASSUME BlockType, NEW st \in Stages, NEW h \in Heads, At(st, h), MoreUsed,
         VirtblkDone
  PROVE  BlockInv'
<1> USE DEF Running, One, Stages, InRing, Queued
<1> DEFINE now == vq.last_used_idx
<1>1. /\ now \in Indexes /\ U16(now + 1) \in Indexes /\ vq \in Queues /\ vq.free_head \in Heads
      /\ BlkTag # NoBuf
  BY Index, BlockAssumption, RingAssumption DEF BlockType, Queues, Tags
<1>2. /\ st = "used" /\ UsedHead = h /\ vq.data[UsedHead] = BlkTag /\ blk_cpu_done = <<>>
  BY <1>1, Zenon DEF At, QueueAt, RingAt, MoreUsed, UsedHead
<1>3. ~BadHead /\ ~OnDoneList(vq.data[UsedHead])
  BY <1>1, <1>2 DEF BadHead, OnDoneList
<1>4. GetBuf /\ TriggerSoftirq(BlkTag) /\ UNCHANGED irqc
  BY <1>2, <1>3 DEF VirtblkDone
<1>5. blk_cpu_done' = <<BlkTag>> /\ softirq' = TRUE
  <2>1. blk_cpu_done' = <<BlkTag>>
    BY <1>2, <1>4 DEF TriggerSoftirq
  <2>2. softirq' = TRUE
    BY <1>2, <1>4, Zenon DEF TriggerSoftirq
  <2> QED
    BY <2>1, <2>2
<1>6. /\ vq' \in Queues /\ vq'.num_free = Num /\ vq'.last_used_idx = U16(now + 1)
      /\ vq'.data = [k \in Heads |-> NoBuf] /\ vq'.avail_idx_shadow = vq.avail_idx_shadow
  <2>1. vq' = [vq EXCEPT !.data[h] = NoBuf, !.next[h] = vq.free_head, !.free_head = h,
                         !.num_free = @ + 1, !.indir = @ \ {h},
                         !.last_used_idx = U16(@ + 1)]
    BY <1>2, <1>4 DEF GetBuf
  <2>2. /\ vq.data = [k \in Heads |-> IF k = h THEN BlkTag ELSE NoBuf]
        /\ vq.num_free = Num - 1
    BY <1>2, Zenon DEF At, RingAt
  <2>3. vq' \in Queues
    <3> DEFINE data == [vq.data EXCEPT ![h] = NoBuf]
               next == [vq.next EXCEPT ![h] = vq.free_head]
               free == vq.num_free + 1
               indir == vq.indir \ {h}
               last == U16(now + 1)
    <3>1. /\ data \in [Heads -> Bufs \cup {NoBuf}] /\ next \in [Heads -> Heads]
          /\ free \in Int /\ indir \in SUBSET Heads /\ last \in Indexes
      BY <1>1 DEF Queues
    <3>2. vq' = [vq EXCEPT !.data = data, !.next = next, !.free_head = h, !.num_free = free,
                           !.indir = indir, !.last_used_idx = last]
      BY <1>1, <2>1 DEF Queues
    <3> HIDE DEF data, next, free, indir, last
    <3> QED
      BY <1>1, <3>1, <3>2, Zenon DEF Queues
  <2>4. /\ vq'.num_free = vq.num_free + 1 /\ vq'.last_used_idx = U16(vq.last_used_idx + 1)
        /\ vq'.avail_idx_shadow = vq.avail_idx_shadow
    BY <1>1, <2>1 DEF Queues
  <2>6. vq'.data = [vq.data EXCEPT ![h] = NoBuf]
    BY <1>1, <2>1 DEF Queues
  <2>5. vq.num_free + 1 = Num
    BY <2>2, Index
  <2> QED
    BY <2>2, <2>3, <2>4, <2>5, <2>6
<1>7. UNCHANGED <<avail, used, dev, proc, queue, local_list, table, flags, hist>>
  BY SMTT(60), <1>4 DEF VirtblkDone, GetBuf
<1>8. /\ avail.idx = U16(now + 1) /\ vq.avail_idx_shadow = U16(now + 1)
      /\ used.idx = U16(now + 1) /\ dev.last_avail = U16(now + 1) /\ dev.inflight = {}
  BY <1>2 DEF At, RingAt
<1>9. BlockType'
  BY <1>4, <1>6, <1>7, Zenon DEF BlockType, proc, queue, flags, hist
<1>10. QueueAt("done")'
  BY ZenonT(60), <1>2, <1>5, <1>7 DEF At, QueueAt, proc, queue, hist
<1>11. RingAt("done", h)'
  BY Zenon, <1>6, <1>7, <1>8 DEF RingAt
<1>12. ProcessAt("done")'
  BY SMTT(60), <1>2, <1>7 DEF At, ProcessAt, proc, hist
<1>13. DataAt("done")'
  BY <1>2, <1>7 DEF At, DataAt, proc, queue, flags, hist
<1>14. Mapped = {} => NoFaultsAt("done")'
  BY <1>2, <1>7 DEF At, NoFaultsAt, proc, flags, hist

<1>15. At("done", h)'
  BY <1>10, <1>11, <1>12, <1>13, <1>14 DEF At
<1> QED
  BY <1>9, <1>15 DEF BlockInv

\* __do_softirq takes the whole list.
LEMMA SoftirqStep ==
  ASSUME BlockType, NEW st \in Stages, NEW h \in Heads, At(st, h), softirq,
         IrqExit
  PROVE  BlockInv'
<1> USE DEF Running, One, Stages, InRing, Queued
<1>1. /\ st = "done" /\ local_list' = <<BlkTag>> /\ blk_cpu_done' = <<>> /\ softirq' = FALSE
      /\ irqc' = "softirq"
  BY Zenon DEF BlockType, At, QueueAt, ProcessAt, DataAt, IrqExit, ring, proc,
     queue, flags, hist
<1>2. BlockType'
  BY <1>1, BlockAssumption, Zenon DEF BlockType, PCs, IrqPCs, BioOrNone, IrqExit,
     ring, proc, queue, flags, hist
<1>3. QueueAt("local")'
  BY <1>1, Zenon DEF BlockType, At, QueueAt, IrqExit, ring, proc, queue, flags, hist
<1>4. RingAt("local", h)'
  BY <1>1, Zenon DEF BlockType, At, RingAt, IrqExit, ring, proc, queue, flags, hist
<1>5. ProcessAt("local")'
  BY <1>1 DEF BlockType, At, ProcessAt, IrqExit, ring, proc, queue, flags,
     hist
<1>6. DataAt("local")'
  BY <1>1, BlockAssumption, Zenon DEF BlockType, At, QueueAt, ProcessAt, DataAt,
     BioOrNone, Bios, IrqExit, ring, proc, queue, flags, hist
<1>7. Mapped = {} => NoFaultsAt("local")'
  BY <1>1, BlockAssumption, Zenon DEF BlockType, At, QueueAt, ProcessAt, DataAt,
     NoFaultsAt, BioOrNone, Bios, IrqExit, ring, proc, queue, flags, hist
<1>8. At("local", h)'
  BY <1>3, <1>4, <1>5, <1>6, <1>7 DEF At
<1> QED
  BY <1>2, <1>8 DEF BlockInv

\* blk_done_softirq ends the bio of the request.
LEMMA BioEndStep ==
  ASSUME BlockType, NEW st \in Stages, NEW h \in Heads, At(st, h), local_list # <<>>,
         BlkDoneSoftirq
  PROVE  BlockInv'
<1> USE DEF Running, One, Stages, InRing, Queued
<1>1. /\ st = "local" /\ local_list = <<BlkTag>> /\ rq[BlkTag].bio = waiton /\ waiton # NoBio
      /\ live = {waiton}
  BY DEF At, QueueAt, ProcessAt
<1>2. Head(local_list) = BlkTag /\ Tail(local_list) = <<>>
  BY <1>1
<1>3. /\ rq' = [rq EXCEPT ![BlkTag].bio = NoBio] /\ local_list' = <<>>
      /\ BioEndio(waiton, rq[BlkTag].status)
      /\ UNCHANGED <<irqc, ring, proc, fifo, rq_list, blk_cpu_done, softirq, table>>
  BY <1>1, <1>2 DEF BlkDoneSoftirq
<1>4. /\ live' = {} /\ UNCHANGED <<cached, answered, filled>>
      /\ uptodate' = IF rq[BlkTag].status = "OK" THEN uptodate \cup {waiton}
                                               ELSE uptodate \ {waiton}
      /\ locked' = IF waiton \in Buffers THEN locked \ {waiton} ELSE locked
  BY <1>1, <1>3 DEF BioEndio, EndBufferRead, PageEndio
<1>5. rq' \in [Tags -> Requests] /\ rq'[BlkTag].bio = NoBio
  <2>1. NoBio \in BioOrNone /\ rq \in [Tags -> Requests]
    BY DEF BlockType, BioOrNone
  <2>2. rq' \in [Tags -> Requests]
    BY <1>3, <2>1, RequestUpdate, Zenon
  <2> QED
    BY <1>3, <2>1, <2>2, BlockAssumption DEF Requests
<1>6. /\ waiton \in answered /\ (waiton \in filled <=> rq[BlkTag].status = "OK")
      /\ uptodate = filled \ {waiton} /\ filled \subseteq answered
      /\ answered \subseteq uptodate \cup {waiton}
      /\ uptodate \subseteq Buffers \cup cached /\ waiton \in Buffers \cup cached
      /\ locked = IF waiton \in Buffers THEN {waiton} ELSE {}
      /\ pc \notin {"user", "submit"}
  BY SMTT(60), <1>1 DEF At, DataAt, ProcessAt
<1>7. uptodate' = filled /\ locked' = {}
  BY <1>4, <1>6
<1>8. BlockType'
  BY <1>3, <1>4, <1>5, Zenon DEF BlockType, ring, proc
<1>9. QueueAt("none")'
  BY <1>1, <1>3, <1>4, <1>5 DEF At, QueueAt
<1>10. RingAt("none", h)'
  BY <1>1, <1>3 DEF At, RingAt, ring
<1>11. ProcessAt("none")'
  BY <1>1, <1>3, <1>4, <1>6 DEF At, ProcessAt, proc
<1>12. DataAt("none")'
  BY <1>3, <1>4, <1>6, <1>7, Zenon DEF DataAt, proc
<1>13. Mapped = {} => NoFaultsAt("none")'
  BY <1>1, <1>3, <1>4, <1>6, <1>7 DEF At, NoFaultsAt, proc

<1>14. At("none", h)'
  BY <1>9, <1>10, <1>11, <1>12, <1>13, Zenon DEF At
<1> QED
  BY Zenon, <1>8, <1>14 DEF BlockInv

\* Steps of the interrupt and of the device that move no request.
LEMMA UnseenStep ==
  ASSUME BlockType, NEW st \in Stages, NEW h \in Heads, At(st, h),
         UNCHANGED <<vq, avail, used, proc, queue, table, flags, hist>>,
         UNCHANGED <<local_list, blk_cpu_done, softirq>>, irqc' \in IrqPCs, dev' \in DevStates,
         dev'.last_avail = dev.last_avail, dev'.inflight = dev.inflight
  PROVE  BlockInv'
<1>1. BlockType'
  BY ZenonT(60) DEF BlockType, proc, queue, flags, hist
<1>2. QueueAt(st)' /\ ProcessAt(st)' /\ DataAt(st)'
  BY Zenon DEF At, QueueAt, ProcessAt, DataAt, One, proc, queue, flags, hist
<1>3. RingAt(st, h)'
  BY Zenon DEF At, RingAt, proc, queue
<1>4. Mapped = {} => NoFaultsAt(st)'
  BY ZenonT(60) DEF At, NoFaultsAt, proc, flags, hist
<1> QED
  BY <1>1, <1>2, <1>3, <1>4 DEF BlockInv, At

-----------------------------------------------------------------------------
(* The invariant.                                                          *)

\* Nothing is on its way at the start.
LEMMA InitInv == BlockInit => BlockInv
<1> SUFFICES ASSUME BlockInit PROVE BlockInv
  OBVIOUS
<1>0. \A k \in Heads : (IF k < Num - 1 THEN k + 1 ELSE 0) \in Heads
  BY Index DEF Heads
<1> USE DEF BlockInit, VringInit, One
<1>1. BlockType
  <2>1. vq \in Queues
    <3> DEFINE next == [k \in Heads |-> IF k < Num - 1 THEN k + 1 ELSE 0]
               data == [k \in Heads |-> NoBuf]
    <3>1. next \in [Heads -> Heads] /\ data \in [Heads -> Bufs \cup {NoBuf}]
      BY <1>0, Zenon
    <3>2. vq = [free_head |-> 0, num_free |-> Num, next |-> next, data |-> data, indir |-> {},
                avail_idx_shadow |-> 0, last_used_idx |-> 0, num_added |-> 0]
      BY Zenon
    <3> HIDE DEF next, data, BlockInit
    <3> QED
      BY <3>1, <3>2, Index DEF Queues
  <2>2. avail \in Rings /\ used \in Rings /\ dev \in DevStates
    BY Index, Zenon DEF Rings, DevStates
  <2>3. rq \in [Tags -> Requests] /\ table \in [Heads -> Entries]
    BY BlockAssumption, Zenon DEF Requests, Entries, BioOrNone
  <2> QED
    BY ZenonT(60), <2>1, <2>2, <2>3 DEF BlockType, PCs, IrqPCs, BioOrNone
<1>2. QueueAt("none")
  BY BlockAssumption, Zenon DEF QueueAt
<1>3. RingAt("none", 0)
  BY Zenon DEF RingAt, InRing
<1>4. ProcessAt("none") /\ DataAt("none") /\ NoFaultsAt("none")
  BY BlockAssumption, Zenon DEF ProcessAt, DataAt, NoFaultsAt, Queued, Bios
<1>5. "none" \in Stages /\ 0 \in Heads /\ At("none", 0)
  BY <1>2, <1>3, <1>4, Index, Zenon DEF At, Stages
<1> QED
  BY <1>1, <1>5 DEF BlockInv

\* Every step keeps the invariant.
LEMMA NextInv ==
  ASSUME OneExtent, BlockInv, [BlockNext]_bvars
  PROVE  BlockInv'
<1>1. BlockType
  BY DEF BlockInv
<1>2. PICK st \in Stages, h \in Heads : At(st, h)
  BY SMTT(60) DEF BlockInv
<1> DEFINE Still == /\ UNCHANGED <<vq, avail, used, proc, queue, table, flags, hist>>
                    /\ UNCHANGED <<local_list, blk_cpu_done, softirq>>
           DevStill == /\ dev' \in DevStates
                       /\ dev'.last_avail = dev.last_avail /\ dev'.inflight = dev.inflight
<1>3. Still /\ DevStill /\ irqc' \in IrqPCs => BlockInv'
  BY <1>1, <1>2, UnseenStep
<1>4. dev \in DevStates /\ irqc \in IrqPCs /\ (UNCHANGED dev => DevStill)
  BY <1>1 DEF BlockType
<1> HIDE DEF Still, DevStill
<1>5. CASE (\E b \in Buffers : Bread(b)) \/ (\E f \in Files \cup Mapped : ReadFile(f))
             \/ (\E p \in PagesOf(Files) : ReadCached(p) \/ FaultCached(p))
  BY SMTT(60), <1>1, <1>2, <1>5, BreadStep, ReadFileStep, ReadCachedStep, FaultCachedStep
<1>6. CASE Process
  <2>1. CASE QueueRq
    <3>1. vq.free_head \in Heads
      BY <1>1 DEF BlockType, Queues
    <3> QED
      BY <1>1, <1>2, <2>1, <3>1, QueueRqStep
  <2> QED
    BY SMTT(60), <1>1, <1>2, <1>6, <2>1, WaitBufferStep, WaitPageStep, FaultCheckStep, SubmitStep,
       DispatchWorkStep, DispatchDoneStep, QueueExposeStep, QueueNotifyStep DEF Process
<1>7. CASE Irq
  <2>1. CASE TakeIrq \/ Claim \/ VringIrq \/ Eoi
    BY <1>3, <1>4, <2>1, Zenon DEF Still, TakeIrq, Claim, VringIrq, Eoi, ring, IrqPCs
  <2>2. CASE VmInterrupt \/ VirtblkEnable
    BY <1>3, <1>4, <2>2 DEF Still, VmInterrupt, VirtblkEnable, AckIntr, EnableCb, IrqPCs
  <2>3. CASE VirtblkDone
    <3>1. CASE ~MoreUsed
      BY <1>3, <1>4, <2>3, <3>1 DEF Still, VirtblkDone, ring, IrqPCs
    <3> QED
      BY SMTT(60), <1>1, <1>2, <2>3, <3>1, VirtblkDoneStep
  <2>4. CASE IrqExit
    <3>1. CASE ~softirq
      BY <1>3, <1>4, <2>4, <3>1 DEF Still, IrqExit, ring, IrqPCs
    <3> QED
      BY SMTT(60), <1>1, <1>2, <2>4, <3>1, SoftirqStep
  <2>5. CASE BlkDoneSoftirq
    <3>1. CASE local_list = <<>>
      BY <1>3, <1>4, <2>5, <3>1 DEF Still, BlkDoneSoftirq, ring, queue, IrqPCs
    <3> QED
      BY <1>1, <1>2, <2>5, <3>1, BioEndStep
  <2> QED
    BY <1>7, <2>1, <2>2, <2>3, <2>4, <2>5 DEF Irq
<1>8. CASE Disk
  <2>1. CASE DiskSleep
    BY <1>3, <1>4, <2>1 DEF Still, DiskSleep, DevSleep, intc
  <2>2. CASE DiskSignal
    <3>1. DevStill
      BY <1>1, <1>4, <2>2 DEF DevStill, DiskSignal, DevSignal, BlockType, DevStates, Rings
    <3> QED
      BY <1>3, <1>4, <2>2, <3>1 DEF Still, DiskSignal, DevSignal
  <2>3. CASE DiskTake
    BY <1>1, <1>2, <2>3, DiskTakeStep
  <2>4. CASE \E g \in Heads, status \in Statuses : DiskFinish(g, status)
    BY SMTT(60), <1>1, <1>2, <2>4, DiskFinishStep
  <2> QED
    BY ZenonT(60), <1>8, <2>1, <2>2, <2>3, <2>4 DEF Disk
<1>9. CASE UNCHANGED bvars
  BY <1>3, <1>4, <1>9 DEF Still, bvars, ring, proc, queue, intc, flags, hist
<1> QED
  BY <1>5, <1>6, <1>7, <1>8, <1>9, Zenon DEF BlockNext, Quiet

\* The invariant holds in every reachable state.
THEOREM BlockInvariant ==
  ASSUME OneExtent
  PROVE  BlockSpec => []BlockInv
<1>1. BlockInit => BlockInv
  BY InitInv
<1>2. BlockInv /\ [BlockNext]_bvars => BlockInv'
  BY NextInv
<1> QED
  BY <1>1, <1>2, PTL DEF BlockSpec

\* Memory is up to date only when the device put its own sector's data there,
\* and a buffer is locked exactly while its read is on its way.
THEOREM FlagsSafe ==
  ASSUME OneExtent
  PROVE  BlockSpec => []FlagsFollowIO
<1>1. BlockInv => FlagsFollowIO
  BY DEF BlockInv, At, QueueAt, ProcessAt, DataAt, FlagsFollowIO, Stages
<1> QED
  BY <1>1, BlockInvariant, PTL

\* When no file is first touched by a fault, none of the panics of the path is
\* reached but the one after a failed buffer read.
THEOREM PanicsSafe ==
  ASSUME OneExtent, Mapped = {}
  PROVE  BlockSpec => []OnlyErrorPanics
<1>1. BlockInv => OnlyErrorPanics
  BY DEF BlockInv, BlockType, IrqPCs, At, NoFaultsAt, OnlyErrorPanics
<1> QED
  BY <1>1, BlockInvariant, PTL

\* With one extent a file two buffers in the ring never share their token.
THEOREM TokensSafe ==
  ASSUME OneExtent
  PROVE  BlockSpec => []TokenIdentifies
<1>1. BlockInv => TokenIdentifies
  BY ZenonT(60) DEF BlockInv, At, RingAt, TokenIdentifies
<1> QED
  BY <1>1, BlockInvariant, PTL

-----------------------------------------------------------------------------
(* Refinement: the block stack transfers bios.                             *)

\* A bio is handed down once, answered by the device and only then ended.
LEMMA TransferStep ==
  ASSUME OneExtent, BlockInv, [BlockNext]_bvars
  PROVE  [B!Next]_<<live \ answered, live \cap answered>>
<1>1. BlockType
  BY DEF BlockInv
<1>2. PICK st \in Stages, h \in Heads : At(st, h)
  BY DEF BlockInv
<1>3. CASE SubmitBio
  <2>1. /\ todo = <<waiton>> /\ waiton \in Bios \ answered /\ live = {}
        /\ Head(todo) = waiton
    BY <1>1, <1>2, <1>3 DEF At, BlockType, BioOrNone, QueueAt, ProcessAt, DataAt, SubmitBio, Running
  <2>2. live' = {waiton} /\ answered' = answered
    BY <1>3, <2>1 DEF SubmitBio
  <2>3. B!Submit
    BY <2>1, <2>2 DEF B!Submit
  <2> QED
    BY <2>3 DEF B!Next
<1>4. CASE \E g \in Heads, status \in Statuses : DiskFinish(g, status)
  <2>1. PICK g \in Heads, status \in Statuses : DiskFinish(g, status)
    BY <1>4
  <2>2. st = "taken" /\ g = h /\ table[h].bio = waiton
    BY <1>2, <2>1 DEF At, RingAt, DiskFinish, DevUse
  <2>3. /\ live = {waiton} /\ waiton \notin answered /\ live' = live
        /\ answered' = answered \cup {waiton}
    BY <1>2, <2>1, <2>2 DEF At, QueueAt, DataAt, DiskFinish
  <2>4. B!Finish
    BY <2>3 DEF B!Finish
  <2> QED
    BY <2>4 DEF B!Next
<1>5. CASE BlkDoneSoftirq /\ local_list # <<>>
  <2>1. st = "local" /\ local_list = <<BlkTag>>
    BY <1>2, <1>5 DEF At, QueueAt, One
  <2>2. Head(local_list) = BlkTag
    BY SMTT(60), <2>1
  <2>3. rq[BlkTag].bio = waiton /\ live = {waiton}
    BY <1>2, <2>1 DEF At, QueueAt
  <2>4. waiton # NoBio
    BY SMTT(60), <1>2, <2>1 DEF At, ProcessAt
  <2>5. waiton \in answered
    BY <1>2, <2>1 DEF At, DataAt
  <2>6. live' = {} /\ answered' = answered
    BY <1>5, <2>2, <2>3, <2>4 DEF BlkDoneSoftirq, BioEndio
  <2>7. B!Report
    BY <2>3, <2>5, <2>6 DEF B!Report
  <2> QED
    BY SMTT(60), <2>7 DEF B!Next
<1>6. CASE UNCHANGED <<live, answered>>
  BY <1>6
<1>7. CASE (\E b \in Buffers : Bread(b)) \/ (\E f \in Files \cup Mapped : ReadFile(f))
             \/ (\E p \in PagesOf(Files) : ReadCached(p) \/ FaultCached(p))
  BY <1>6, <1>7, Zenon DEF Bread, ReadFile, ReadCached, FaultCached, hist
<1>8. CASE Process
  BY Zenon, <1>3, <1>6, <1>8 DEF Process, WaitBuffer, WaitPage, FaultCheck, Dispatch, QueueRq,
     QueueExpose, QueueNotify, hist
<1>9. CASE Irq
  BY ZenonT(60), <1>5, <1>6, <1>9 DEF Irq, TakeIrq, Claim, VmInterrupt, VringIrq, VirtblkDone,
     VirtblkEnable, Eoi, IrqExit, BlkDoneSoftirq, hist
<1>10. CASE Disk
  BY Zenon, <1>4, <1>6, <1>10 DEF Disk, DiskTake, DiskSleep, DiskSignal, hist
<1>11. CASE UNCHANGED bvars
  BY <1>6, <1>11 DEF bvars, hist
<1> QED
  BY <1>7, <1>8, <1>9, <1>10, <1>11, Zenon DEF BlockNext, Quiet

\* Every bio is ended exactly once, after the device answered that very bio.
THEOREM BlockStackTransfers ==
  ASSUME OneExtent
  PROVE  BlockSpec => BlockTransfers
<1>1. BlockInit => B!Init
  BY DEF BlockInit, B!Init
<1>2. BlockInv /\ [BlockNext]_bvars => [B!Next]_<<live \ answered, live \cap answered>>
  BY TransferStep
<1> QED
  BY <1>1, <1>2, BlockInvariant, PTL DEF BlockSpec, BlockTransfers, B!Spec
=============================================================================
