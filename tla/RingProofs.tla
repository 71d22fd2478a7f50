----------------------------- MODULE RingProofs -----------------------------
(***************************************************************************)
(* Theorems about the virtqueue and its driver, for every ring size, index *)
(* width and set of buffers not larger than the ring.                      *)
(***************************************************************************)
EXTENDS RingPlaces, FiniteSetTheorems

-----------------------------------------------------------------------------
(* Counting.                                                               *)

\* There are Num descriptors.
LEMMA HeadsCount == IsFiniteSet(Heads) /\ Cardinality(Heads) = Num
<1>1. Num \in Nat \ {0}
  BY Sizes
<1> QED
  BY <1>1, FS_Interval DEF Heads

\* Different entries of an array name at most Num descriptors.
LEMMA PigeonholeHolds == Pigeonhole
<1> SUFFICES ASSUME NEW n \in Nat, NEW f \in [0 .. n - 1 -> Heads],
                    \A i, j \in 0 .. n - 1 : f[i] = f[j] => i = j
             PROVE  n <= Num
  BY DEF Pigeonhole
<1>1. IsFiniteSet(0 .. n - 1) /\ Cardinality(0 .. n - 1) = n
  BY FS_Interval
<1>2. Num \in Nat
  BY Sizes
<1>3. ~(Cardinality(Heads) < Cardinality(0 .. n - 1))
  BY <1>1, HeadsCount, FS_PigeonHole
<1> QED
  BY <1>1, <1>2, <1>3, HeadsCount

\* The queue depth leaves a descriptor for a buffer that is not in the ring.
LEMMA TokensFitHolds == TokensFit
<1> SUFFICES ASSUME NEW b \in Bufs, NEW f \in [Heads -> Bufs \ {b}]
             PROVE  \E g, h \in Heads : g # h /\ f[g] = f[h]
  BY DEF TokensFit
<1>1. IsFiniteSet(Bufs) /\ Cardinality(Bufs) <= Num
  BY QueueDepth
<1>2. IsFiniteSet(Bufs \ {b}) /\ Cardinality(Bufs \ {b}) = Cardinality(Bufs) - 1
  BY <1>1, FS_RemoveElement
<1>3. Cardinality(Bufs) \in Nat /\ Num \in Nat
  BY <1>1, FS_CardinalityType, Sizes
<1>4. Cardinality(Bufs \ {b}) < Cardinality(Heads)
  BY <1>1, <1>2, <1>3, HeadsCount
<1> QED
  BY <1>2, <1>4, HeadsCount, FS_PigeonHole

\* A window holds as many different entries as its indices are apart.
LEMMA EntriesCount ==
  ASSUME NEW r, NEW a \in Indexes, NEW b \in Indexes, Distinct(r, a, b)
  PROVE  Cardinality(Entries(r, a, b)) = Gap(a, b)
<1> DEFINE n == Gap(a, b)
           S == 0 .. n - 1
           f == [i \in S |-> Entry(r, a, i)]
<1>1. n \in Nat
  BY GapSteps, Sizes
<1>2. f \in [S -> Entries(r, a, b)] /\ \A i, j \in S : f[i] = f[j] => i = j
  BY DEF Entries, Distinct
<1>3. \A e \in Entries(r, a, b) : \E i \in S : f[i] = e
  BY DEF Entries
<1>4. IsFiniteSet(S) /\ Cardinality(S) = n
  <2> HIDE DEF n
  <2> QED
    BY <1>1, FS_Interval
<1> HIDE DEF f, S
<1>5. f \in Bijection(S, Entries(r, a, b))
  BY <1>2, <1>3 DEF Bijection, Injection, Surjection, IsInjective
<1>6. ExistsBijection(S, Entries(r, a, b))
  BY <1>5 DEF ExistsBijection
<1> QED
  BY <1>4, <1>6, FS_Bijection

-----------------------------------------------------------------------------
(* The theorems.                                                           *)

\* The inductive invariant: the ring's state has its types, every busy
\* descriptor is in one place, the idle ones are linked in the free list, no
\* buffer is in the ring twice, and the event index is where a wakeup needs it.
THEOREM RingInvariance == DriverSpec => []RingInv
<1>1. DriverInit => RingInv
  BY InitRing
<1>2. RingInv /\ [DriverNext]_dvars => RingInv'
  BY RingNext, PigeonholeHolds, TokensFitHolds
<1> QED
  BY <1>1, <1>2, PTL DEF DriverSpec

\* The free list of virtqueue_add_split and detach_buf_split links exactly the
\* idle descriptors, whatever the order of completion and the size of the ring.
THEOREM FreeListAlwaysExact == DriverSpec => []FreeListExact
<1>1. RingInv => FreeListExact
  BY DEF RingInv
<1> QED
  BY <1>1, RingInvariance, PTL

\* Every descriptor with a buffer is in exactly one place, no entry of an open
\* window is overwritten, its indirect table is allocated just as long, and
\* neither assertion of the driver fails, however often the indices wrap.
THEOREM OnePlaceAlways == DriverSpec => []OnePlacePerHead
<1>1. RingInv => OnePlacePerHead
  <2> SUFFICES ASSUME RingInv PROVE OnePlacePerHead
    OBVIOUS
  <2>1. /\ dev.last_avail \in Indexes /\ avail.idx \in Indexes
        /\ vq.last_used_idx \in Indexes /\ used.idx \in Indexes
        /\ Distinct(avail.ring, dev.last_avail, avail.idx)
        /\ Distinct(used.ring, vq.last_used_idx, used.idx)
    BY DEF RingInv, RingType, Places
  <2>2. AvailEntries = Exposed /\ UsedEntries = Done
    BY <2>1, WindowEntries DEF AvailEntries, UsedEntries, Exposed, Done
  <2>3. /\ Cardinality(AvailEntries) = U16(avail.idx - dev.last_avail)
        /\ Cardinality(UsedEntries) = U16(used.idx - vq.last_used_idx)
    BY <2>1, <2>2, EntriesCount DEF Exposed, Done, Gap
  <2> DEFINE places == <<Adding, AvailEntries, dev.inflight, UsedEntries>>
  <2>4. /\ places[1] = Adding /\ places[2] = Exposed
        /\ places[3] = dev.inflight /\ places[4] = Done
    BY <2>2
  <2>5. 1 .. 4 = {1, 2, 3, 4}
    OBVIOUS
  <2> HIDE DEF places
  <2>6. UNION {places[k] : k \in 1 .. 4} = Busy
    <3>1. UNION {places[k] : k \in 1 .. 4} = places[1] \cup places[2] \cup places[3] \cup places[4]
      BY <2>5
    <3> QED
      BY <2>4, <3>1 DEF RingInv, Places
  <2>7. \A j, k \in 1 .. 4 : j # k => places[j] \cap places[k] = {}
    BY <2>4, <2>5 DEF RingInv, Places
  <2>8. vq.indir = Busy /\ at # "bug"
    BY DEF RingInv, RingType, Places
  <2> QED
    BY <2>3, <2>6, <2>7, <2>8 DEF OnePlacePerHead, places, Adding, Busy
<1> QED
  BY <1>1, RingInvariance, PTL

\* Outside virtblk_done an unread used entry has interrupted or will, for every
\* interleaving of the device with virtqueue_enable_cb.
THEOREM NeverLostInterrupt == DriverSpec => []NoLostInterrupt
<1>1. RingInv => NoLostInterrupt
  <2> SUFFICES ASSUME RingInv, at \in {"idle", "expose", "notify"}, MoreUsed, ~intr
               PROVE  dev.signalled # used.idx /\ NeedEvent
    BY DEF NoLostInterrupt
  <2>1. /\ vq.last_used_idx # used.idx /\ used_event = vq.last_used_idx
        /\ Gap(vq.last_used_idx, used.idx) <= Gap(dev.signalled, used.idx)
    BY DEF RingInv, Events, MoreUsed
  <2>2. NeedEvent
    BY <2>1, NeedEventValue DEF RingInv
  <2>3. vq.last_used_idx \in Indexes /\ used.idx \in Indexes /\ dev.signalled \in Indexes
    BY DEF RingInv, RingType
  <2>4. /\ Gap(vq.last_used_idx, used.idx) \in Nat \ {0} /\ Gap(dev.signalled, used.idx) \in Nat
        /\ (Gap(dev.signalled, used.idx) = 0 <=> dev.signalled = used.idx)
    BY <2>1, <2>3, GapSteps
  <2> QED
    BY <2>1, <2>2, <2>4
<1> QED
  BY <1>1, RingInvariance, PTL

-----------------------------------------------------------------------------
(* The ring implements Transfer.                                           *)

\* What the driver has handed over and the device has not finished, and what
\* it has finished, in terms of descriptors.
Pending  == {vq.data[h] : h \in Busy \ Done}
Finished == {vq.data[h] : h \in Done}

\* The refinement mapping of VirtioDriver, in these terms.
MappingExact ==
  /\ {b \in Outstanding : \E h \in Heads \ UsedEntries : vq.data[h] = b} = Pending
  /\ {vq.data[h] : h \in UsedEntries} = Finished
  /\ Outstanding = Pending \cup Finished

\* The invariant makes the two the same.
LEMMA MappingIs == RingInv => MappingExact
<1> SUFFICES ASSUME RingInv PROVE MappingExact
  OBVIOUS
<1>1. vq.last_used_idx \in Indexes /\ used.idx \in Indexes /\ Done \subseteq Busy
  BY BusyPlaces DEF RingInv, RingType
<1>2. UsedEntries = Done
  BY <1>1, WindowEntries, Zenon DEF UsedEntries, Done
<1>3. Outstanding = {vq.data[h] : h \in Busy}
  BY DEF Outstanding, Busy
<1>4. {b \in Outstanding : \E h \in Heads \ Done : vq.data[h] = b} = Pending
  BY <1>3 DEF Pending, Busy, Outstanding
<1>5. Outstanding = Pending \cup Finished
  BY <1>1, <1>3 DEF Pending, Finished
<1> QED
  BY <1>2, <1>4, <1>5 DEF MappingExact, Finished

\* Adding a buffer makes it pending.
LEMMA AddSubmits ==
  ASSUME RingInv, NEW b \in Bufs, Add(b)
  PROVE  Pending' = Pending \cup {b} /\ Finished' = Finished /\ b \notin Outstanding
<1> DEFINE head == vq.free_head
<1>1. head \in Heads /\ head \notin Busy /\ AddBuf(b) /\ b \notin Outstanding
  BY AddFindsHead, TokensFitHolds, Zenon DEF Add, Idle, Busy
<1>2. /\ vq'.data = [vq.data EXCEPT ![head] = b]
      /\ Done' = Done
  BY <1>1 DEF AddBuf, RingInv, RingType, Done
<1>3. /\ \A h \in Heads : vq'.data[h] = IF h = head THEN b ELSE vq.data[h]
      /\ b # NoBuf
  BY <1>1, <1>2, RingAssumption DEF RingInv, RingType
<1>4. Busy' = Busy \cup {head} /\ Done \subseteq Busy /\ Busy \subseteq Heads
  BY <1>1, <1>3, BusyPlaces DEF Busy, RingInv
<1>5. Pending' = Pending \cup {b}
  BY <1>1, <1>2, <1>3, <1>4 DEF Pending
<1>6. Finished' = Finished
  BY <1>1, <1>2, <1>3, <1>4 DEF Finished
<1> QED
  BY <1>1, <1>5, <1>6

\* The device finishes a pending buffer.
LEMMA UseFinishes ==
  ASSUME RingInv, RingInv', NEW h \in Heads, DevUse(h)
  PROVE  /\ vq.data[h] \in Pending
         /\ Pending' = Pending \ {vq.data[h]} /\ Finished' = Finished \cup {vq.data[h]}
<1>1. h \in dev.inflight /\ h \in Busy \ Done /\ vq' = vq /\ Done \subseteq Busy
  BY BusyPlaces DEF DevUse, RingInv, Places
<1>2. Done' = Done \cup {h}
  <2>1. /\ used.ring \in [Heads -> Heads] /\ vq.last_used_idx \in Indexes /\ used.idx \in Indexes
        /\ Distinct(used.ring, vq.last_used_idx, used.idx)
    BY DEF RingInv, RingType, Places
  <2> DEFINE r == [used.ring EXCEPT ![Slot(used.idx)] = h]
  <2>2. Gap(vq.last_used_idx, used.idx) < Num
    BY SMTT(60), <1>1, <2>1, Room, PigeonholeHolds DEF Done
  <2>3. /\ r \in [Heads -> Heads] /\ r[Slot(used.idx)] = h
        /\ Entries(r, vq.last_used_idx, used.idx) = Done
        /\ Distinct(r, vq.last_used_idx, used.idx)
    BY <2>1, <2>2, Store DEF Done
  <2>4. used'.ring = r /\ used'.idx = U16(used.idx + 1)
    BY DEF DevUse
  <2> HIDE DEF r
  <2>5. Entries(r, vq.last_used_idx, U16(used.idx + 1)) = Done \cup {h}
    BY Zenon, <1>1, <2>1, <2>2, <2>3, Push
  <2> QED
    BY SMTT(60), <1>1, <2>4, <2>5 DEF Done
<1>3. Busy' = Busy /\ \A g \in Busy : vq.data[g] = vq.data[h] => g = h
  BY <1>1 DEF Busy, RingInv, Tokens
<1>4. Pending' = Pending \ {vq.data[h]}
  BY <1>1, <1>2, <1>3 DEF Pending
<1>5. Finished' = Finished \cup {vq.data[h]}
  BY <1>1, <1>2 DEF Finished
<1> QED
  BY <1>1, <1>4, <1>5 DEF Pending

\* virtqueue_get_buf reports a finished buffer.
LEMMA GetReports ==
  ASSUME RingInv, DoneGet, MoreUsed
  PROVE  /\ vq.data[UsedHead] \in Finished
         /\ Finished' = Finished \ {vq.data[UsedHead]} /\ Pending' = Pending
<1> DEFINE head == UsedHead
<1>1. head \in Done /\ head \in Busy /\ head \in Heads /\ Done \subseteq Busy /\ GetBuf
  BY GetFindsHead, BusyPlaces DEF DoneGet, Busy, RingInv
<1>2. Done' = Done \ {head} /\ vq'.data = [vq.data EXCEPT ![head] = NoBuf]
  <2>1. /\ vq'.last_used_idx = U16(vq.last_used_idx + 1) /\ used' = used
        /\ vq'.data = [vq.data EXCEPT ![head] = NoBuf]
    BY <1>1 DEF GetBuf, RingInv, RingType
  <2> QED
    BY <2>1, GetFindsHead DEF Done
<1>3. \A h \in Heads : vq'.data[h] = IF h = head THEN NoBuf ELSE vq.data[h]
  BY <1>1, <1>2 DEF RingInv, RingType
<1> HIDE DEF head
<1>4. Busy' = Busy \ {head} /\ Busy \subseteq Heads
  BY <1>1, <1>3 DEF Busy
<1>5. \A g \in Busy : vq.data[g] = vq.data[head] => g = head
  BY <1>1 DEF RingInv, Tokens
<1>6. Finished' = Finished \ {vq.data[head]}
  BY SMTT(60), <1>1, <1>2, <1>3, <1>4, <1>5 DEF Finished
<1>7. Pending' = Pending
  BY <1>1, <1>2, <1>3, <1>4 DEF Pending
<1> QED
  BY Zenon, <1>1, <1>6, <1>7 DEF Finished, head

\* The other steps change neither.
LEMMA OthersStutter ==
  ASSUME RingInv,
         \/ AddExpose \/ AddNotify \/ Interrupt \/ VringInterrupt \/ DoneEnable \/ DonePoll
         \/ (DoneGet /\ ~MoreUsed) \/ DevPop \/ DevSleep \/ DevSignal \/ UNCHANGED dvars
  PROVE  Pending' = Pending /\ Finished' = Finished
<1>1. vq'.data = vq.data /\ vq'.last_used_idx = vq.last_used_idx /\ used' = used
  <2>1. CASE AddExpose
    BY <2>1 DEF AddExpose, Expose, RingInv, RingType
  <2>2. CASE ~AddExpose
    BY <2>2 DEF AddNotify, Notify, Interrupt, AckIntr, VringInterrupt, DoneEnable, EnableCb,
       DonePoll, DoneGet, DevPop, DevSleep, DevSignal, dvars, ring
  <2> QED
    BY <2>1, <2>2
<1>2. Busy' = Busy /\ Done' = Done
  BY <1>1 DEF Busy, Done
<1> QED
  BY <1>1, <1>2 DEF Pending, Finished

\* The ring implements the transfer of buffers: each buffer added is returned
\* by virtqueue_get_buf at most once, and only after the device finished it.
THEOREM RingRefinement == DriverSpec => RingTransfers
<1>1. DriverInit => T!Init
  <2> SUFFICES ASSUME DriverInit PROVE T!Init
    OBVIOUS
  <2>1. MappingExact /\ Busy = {} /\ Done \subseteq Busy
    BY InitRing, MappingIs, BusyPlaces, Zenon DEF RingInv, Busy, DriverInit, VringInit
  <2> QED
    BY <2>1 DEF T!Init, MappingExact, Pending, Finished
<1>2. RingInv /\ RingInv' /\ [DriverNext]_dvars =>
        [T!Next]_<<{b \in Outstanding : \E h \in Heads \ UsedEntries : vq.data[h] = b},
                   {vq.data[h] : h \in UsedEntries}>>
  <2> SUFFICES ASSUME RingInv, RingInv', [DriverNext]_dvars
               PROVE  [T!Next]_<<{b \in Outstanding : \E h \in Heads \ UsedEntries : vq.data[h] = b},
                                 {vq.data[h] : h \in UsedEntries}>>
    BY Zenon
  <2>1. MappingExact /\ MappingExact'
    BY MappingIs, PTL
  <2>2. CASE \E b \in Bufs : Add(b)
    <3>1. PICK b \in Bufs : Add(b)
      BY <2>2
    <3>2. Pending' = Pending \cup {b} /\ Finished' = Finished /\ b \notin Pending \cup Finished
      BY <2>1, <3>1, AddSubmits DEF MappingExact
    <3> QED
      BY <2>1, <3>2 DEF T!Next, T!Submit, MappingExact
  <2>3. CASE \E h \in Heads : DevUse(h)
    <3>1. PICK h \in Heads : DevUse(h)
      BY <2>3
    <3>2. /\ vq.data[h] \in Pending /\ Pending' = Pending \ {vq.data[h]}
          /\ Finished' = Finished \cup {vq.data[h]}
      BY SMTT(60), <3>1, UseFinishes
    <3> QED
      BY <2>1, <3>2, Zenon DEF T!Next, T!Finish, MappingExact
  <2>4. CASE DoneGet /\ MoreUsed
    <3>1. /\ vq.data[UsedHead] \in Finished /\ Pending' = Pending
          /\ Finished' = Finished \ {vq.data[UsedHead]}
      BY <2>4, GetReports
    <3> QED
      BY Zenon, <2>1, <3>1 DEF T!Next, T!Report, MappingExact
  <2>5. CASE \/ AddExpose \/ AddNotify \/ Interrupt \/ VringInterrupt \/ DoneEnable \/ DonePoll
             \/ (DoneGet /\ ~MoreUsed) \/ DevPop \/ DevSleep \/ DevSignal \/ UNCHANGED dvars
    <3>1. Pending' = Pending /\ Finished' = Finished
      BY <2>5, OthersStutter
    <3> QED
      BY Zenon, <2>1, <3>1 DEF MappingExact
  <2> QED
    BY <2>2, <2>3, <2>4, <2>5, Zenon DEF DriverNext, Driver, Device
<1> QED
  BY <1>1, <1>2, RingInvariance, PTL DEF DriverSpec, RingTransfers, T!Spec
=============================================================================
