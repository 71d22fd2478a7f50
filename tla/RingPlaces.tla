----------------------------- MODULE RingPlaces -----------------------------
(***************************************************************************)
(* The inductive invariant of the virtqueue under its driver, for every    *)
(* ring size, index width and set of buffers: one lemma per action.  The   *)
(* counting argument (no more descriptors than heads, no more tokens than  *)
(* the queue depth) enters as the two hypotheses Pigeonhole and TokensFit, *)
(* which RingProofs discharges.  The facts about indices modulo 2^16 and   *)
(* the windows between them come first.                                    *)
(***************************************************************************)
EXTENDS VirtioDriver, TLAPS

Indexes == 0 .. IdxMod - 1

\* Number of entries from one index up to another.
Gap(from, to) == U16(to - from)

\* The entries of an array in an open window, as virtqueue_get_buf_ctx_split
\* and the device read them.
Entry(r, from, i) == r[Slot(from + i)]
Entries(r, from, to) == {Entry(r, from, i) : i \in 0 .. Gap(from, to) - 1}
Distinct(r, from, to) ==
  \A i, j \in 0 .. Gap(from, to) - 1 : Entry(r, from, i) = Entry(r, from, j) => i = j

\* No more than Num different descriptors can be listed.
Pigeonhole ==
  \A n \in Nat : \A f \in [0 .. n - 1 -> Heads] :
    (\A i, j \in 0 .. n - 1 : f[i] = f[j] => i = j) => n <= Num

-----------------------------------------------------------------------------
(* Division and remainder.                                                 *)

\* Quotient and remainder make up the number.
LEMMA DivMod ==
  ASSUME NEW m \in Nat \ {0}, NEW x \in Int
  PROVE  x \div m \in Int /\ x % m \in 0 .. m - 1 /\ x = m * (x \div m) + (x % m)
OBVIOUS

\* The remainder is the only number below the divisor that does so.
LEMMA ModUnique ==
  ASSUME NEW m \in Nat \ {0}, NEW q \in Int, NEW r \in 0 .. m - 1
  PROVE  (m * q + r) % m = r
OBVIOUS

\* Multiples of the divisor do not change the remainder.
LEMMA ModShift ==
  ASSUME NEW m \in Nat \ {0}, NEW x \in Int, NEW k \in Int
  PROVE  (x + m * k) % m = x % m
<1> DEFINE q == x \div m
           r == x % m
<1>1. q \in Int /\ r \in 0 .. m - 1 /\ x = m * q + r
  BY DivMod
<1> HIDE DEF q, r
<1>2. x + m * k = m * (q + k) + r /\ q + k \in Int
  BY <1>1
<1>3. (m * (q + k) + r) % m = r
  BY <1>1, <1>2, ModUnique
<1> QED
  BY <1>2, <1>3 DEF r

\* The sizes of ring and index fit: the index wraps at a multiple of Num.
LEMMA Sizes ==
  /\ Num \in Nat \ {0} /\ IdxMod \in Nat \ {0} /\ Num < IdxMod
  /\ \E k \in Int : IdxMod = Num * k
<1>1. Num \in Nat \ {0} /\ IdxMod \in Nat \ {0} /\ Num < IdxMod /\ IdxMod % Num = 0
  BY RingAssumption
<1>2. IdxMod \div Num \in Int /\ IdxMod = Num * (IdxMod \div Num) + 0
  BY <1>1, DivMod
<1>3. Num * (IdxMod \div Num) \in Int
  BY <1>1, <1>2
<1> QED
  BY <1>1, <1>2, <1>3

-----------------------------------------------------------------------------
(* Indices.                                                                *)

\* A 16-bit number is an index, and an index is its own 16-bit value.
LEMMA U16Type ==
  /\ \A x \in Int : U16(x) \in Indexes
  /\ \A x \in Indexes : U16(x) = x
  /\ \A x \in Indexes : U16(x + 1) = IF x + 1 = IdxMod THEN 0 ELSE x + 1
BY Sizes DEF U16, Indexes

\* The distance of two indices.
LEMMA GapValue ==
  ASSUME NEW a \in Indexes, NEW b \in Indexes
  PROVE  Gap(a, b) = IF a <= b THEN b - a ELSE b - a + IdxMod
BY Sizes DEF U16, Indexes, Gap

\* What one more or one less at either end does to the distance.
LEMMA GapSteps ==
  ASSUME NEW a \in Indexes, NEW b \in Indexes
  PROVE  /\ Gap(a, b) \in 0 .. IdxMod - 1
         /\ Gap(a, b) = 0 <=> a = b
         /\ Gap(a, b) < IdxMod - 1 => Gap(a, U16(b + 1)) = Gap(a, b) + 1
         /\ a # b => Gap(U16(a + 1), b) = Gap(a, b) - 1
<1>1. IdxMod \in Nat \ {0} /\ Num \in Nat /\ Num < IdxMod
  BY Sizes
<1>2. Gap(a, b) = IF a <= b THEN b - a ELSE b - a + IdxMod
  BY GapValue
<1>3. DEFINE c == U16(b + 1)
             d == U16(a + 1)
<1>4. /\ c \in Indexes /\ c = IF b + 1 = IdxMod THEN 0 ELSE b + 1
      /\ d \in Indexes /\ d = IF a + 1 = IdxMod THEN 0 ELSE a + 1
  BY U16Type, <1>1 DEF Indexes
<1>5. Gap(a, c) = IF a <= c THEN c - a ELSE c - a + IdxMod
  BY <1>4, GapValue
<1>6. Gap(d, b) = IF d <= b THEN b - d ELSE b - d + IdxMod
  BY <1>4, GapValue
<1> HIDE DEF c, d
<1>7. Gap(a, b) \in 0 .. IdxMod - 1 /\ (Gap(a, b) = 0 <=> a = b)
  BY <1>1, <1>2 DEF Indexes
<1>8. Gap(a, b) < IdxMod - 1 => Gap(a, c) = Gap(a, b) + 1
  BY <1>1, <1>2, <1>4, <1>5 DEF Indexes
<1>9. a # b => Gap(d, b) = Gap(a, b) - 1
  BY <1>1, <1>2, <1>4, <1>6 DEF Indexes
<1> QED
  BY <1>7, <1>8, <1>9 DEF c, d

-----------------------------------------------------------------------------
(* Slots.                                                                  *)

\* A slot is a place of the ring, and a wrap of the index does not move it.
LEMMA SlotFacts ==
  /\ \A x \in Int : Slot(x) \in Heads
  /\ \A x, i \in Int : Slot(U16(x) + i) = Slot(x + i)
<1>1. Num \in Nat \ {0} /\ IdxMod \in Nat \ {0}
  BY Sizes
<1>2. PICK k \in Int : IdxMod = Num * k
  BY Sizes
<1>3. ASSUME NEW x \in Int, NEW i \in Int PROVE Slot(U16(x) + i) = Slot(x + i)
  <2> DEFINE q == x \div IdxMod
             r == x % IdxMod
  <2>1. q \in Int /\ r \in Int /\ x = IdxMod * q + r
    BY <1>1, DivMod
  <2> HIDE DEF q, r
  <2>2. x = (Num * k) * q + r
    BY <2>1, <1>2
  <2>3. k * q \in Int /\ (Num * k) * q = Num * (k * q) /\ Num * (k * q) \in Int
    BY <2>1, <1>1
  <2> DEFINE z == Num * (k * q)
  <2>4. z \in Int /\ x = z + r
    BY <2>2, <2>3
  <2> HIDE DEF z
  <2>6. x + i = (r + i) + z /\ r + i \in Int
    BY <2>1, <2>4
  <2>5. ((r + i) + Num * (k * q)) % Num = (r + i) % Num
    BY <2>3, <2>6, <1>1, ModShift, Zenon
  <2> QED
    BY <2>6, <2>5 DEF U16, Slot, r, z
<1>4. \A x \in Int : Slot(x) \in Heads
  BY <1>1, DivMod DEF Slot, Heads
<1> QED
  BY <1>3, <1>4

\* Indices less than Num apart have different slots.
LEMMA SlotApart ==
  ASSUME NEW x \in Int, NEW d \in 1 .. Num - 1
  PROVE  Slot(x + d) # Slot(x)
<1> DEFINE q == x \div Num
           r == x % Num
<1>0. Num \in Nat \ {0}
  BY Sizes
<1>1. q \in Int /\ r \in 0 .. Num - 1 /\ x = Num * q + r
  BY <1>0, DivMod
<1> HIDE DEF q, r
<1>2. CASE r + d < Num
  <2>1. x + d = Num * q + (r + d) /\ r + d \in 0 .. Num - 1
    BY <1>0, <1>1, <1>2
  <2>2. (x + d) % Num = r + d
    BY <2>1, <1>0, <1>1, ModUnique
  <2> QED
    BY <2>2, <1>0, <1>1 DEF Slot, r
<1>3. CASE r + d >= Num
  <2>1. Num * (q + 1) = Num * q + Num
    BY <1>0, <1>1
  <2>2. Num * q \in Int
    BY <1>0, <1>1
  <2>3. x + d = Num * (q + 1) + (r + d - Num)
    BY <1>0, <1>1, <2>1, <2>2
  <2>4. r + d - Num \in 0 .. Num - 1 /\ q + 1 \in Int
    BY <1>0, <1>1, <1>3
  <2>5. (x + d) % Num = r + d - Num
    BY <2>3, <2>4, <1>0, ModUnique, Zenon
  <2> QED
    BY <2>5, <1>0, <1>1 DEF Slot, r
<1> QED
  BY <1>0, <1>1, <1>2, <1>3

\* The entries of a window of at most Num indices lie in different slots, and
\* the slot of the window's end is the one after its last entry.
LEMMA SlotWindow ==
  ASSUME NEW a \in Indexes, NEW b \in Indexes
  PROVE  /\ Slot(a + Gap(a, b)) = Slot(b)
         /\ \A i, j \in 0 .. Num - 1 : Slot(a + i) = Slot(a + j) => i = j
<1>0. Num \in Nat \ {0} /\ IdxMod \in Nat \ {0} /\ a \in Int /\ b \in Int
  BY Sizes DEF Indexes
<1>1. Slot(U16(b - a) + a) = Slot((b - a) + a)
  BY <1>0, SlotFacts
<1>2. U16(b - a) + a = a + Gap(a, b) /\ (b - a) + a = b
  BY <1>0, U16Type DEF Gap, Indexes
<1>3. ASSUME NEW i \in 0 .. Num - 1, NEW j \in 0 .. Num - 1, i < j
      PROVE  Slot(a + i) # Slot(a + j)
  <2>1. a + i \in Int /\ j - i \in 1 .. Num - 1 /\ a + j = (a + i) + (j - i)
    BY <1>0, <1>3
  <2> QED
    BY <2>1, SlotApart
<1>4. \A i, j \in 0 .. Num - 1 : i < j => Slot(a + i) # Slot(a + j)
  BY <1>3
<1>5. \A i, j \in 0 .. Num - 1 : i < j \/ j < i \/ i = j
  BY <1>0
<1> QED
  BY <1>1, <1>2, <1>4, <1>5

-----------------------------------------------------------------------------
(* The entries of a window.                                                *)

\* The entries are those Window names.
LEMMA WindowEntries ==
  ASSUME NEW r, NEW a \in Indexes, NEW b \in Indexes
  PROVE  {r[Slot(k)] : k \in Window(a, b)} = Entries(r, a, b)
<1>0. a \in Int /\ b \in Int /\ Gap(a, b) \in Int
  BY GapSteps, Sizes DEF Indexes
<1>1. ASSUME NEW i \in 0 .. Gap(a, b) - 1 PROVE Slot(U16(a + i)) = Slot(a + i)
  <2>1. Slot(U16(a + i) + 0) = Slot((a + i) + 0)
    BY <1>0, SlotFacts
  <2>2. U16(a + i) \in Int /\ a + i \in Int
    BY <1>0, U16Type, Sizes DEF Indexes
  <2> QED
    BY <2>1, <2>2
<1> QED
  BY <1>1 DEF Window, Entries, Entry, Gap

\* The entries are descriptors when the array holds descriptors.
LEMMA EntriesType ==
  ASSUME NEW r \in [Heads -> Heads], NEW a \in Indexes, NEW b \in Indexes
  PROVE  Entries(r, a, b) \subseteq Heads
<1>0. a \in Int /\ Gap(a, b) \in Int
  BY GapSteps, Sizes DEF Indexes
<1> QED
  BY <1>0, SlotFacts DEF Entries, Entry

\* A descriptor that is not in the window leaves room for one more entry.
LEMMA Room ==
  ASSUME Pigeonhole, NEW r \in [Heads -> Heads], NEW a \in Indexes, NEW b \in Indexes,
         Distinct(r, a, b), NEW h \in Heads \ Entries(r, a, b)
  PROVE  Gap(a, b) < Num
<1> DEFINE n == Gap(a, b)
           f == [i \in 0 .. (n + 1) - 1 |-> IF i < n THEN Entry(r, a, i) ELSE h]
<1>0. a \in Int /\ n \in Nat /\ Num \in Nat
  BY GapSteps, Sizes DEF Indexes
<1>1. \A i \in 0 .. n - 1 : Entry(r, a, i) \in Heads /\ Entry(r, a, i) # h
  BY <1>0, SlotFacts DEF Entries, Entry
<1>2. \A i, j \in 0 .. n - 1 : Entry(r, a, i) = Entry(r, a, j) => i = j
  BY DEF Distinct
<1> HIDE DEF n
<1>3. f \in [0 .. (n + 1) - 1 -> Heads]
  BY <1>0, <1>1
<1>4. \A i, j \in 0 .. (n + 1) - 1 : f[i] = f[j] => i = j
  BY <1>0, <1>1, <1>2
<1>5. n + 1 <= Num
  <2> HIDE DEF f
  <2> QED
    BY <1>0, <1>3, <1>4 DEF Pigeonhole
<1> QED
  BY <1>0, <1>5 DEF n

\* Storing a head in the slot after the window (virtqueue_add_split before the
\* index is exposed, the device before it publishes) leaves the window alone.
LEMMA Store ==
  ASSUME NEW r \in [Heads -> Heads], NEW a \in Indexes, NEW b \in Indexes,
         Gap(a, b) < Num, NEW h \in Heads
  PROVE  LET s == [r EXCEPT ![Slot(b)] = h]
         IN  /\ s \in [Heads -> Heads] /\ s[Slot(b)] = h
             /\ Entries(s, a, b) = Entries(r, a, b)
             /\ Distinct(s, a, b) <=> Distinct(r, a, b)
<1> DEFINE n == Gap(a, b)
           s == [r EXCEPT ![Slot(b)] = h]
<1>0. a \in Int /\ b \in Int /\ n \in 0 .. Num - 1 /\ Num \in Nat
  BY GapSteps, Sizes DEF Indexes
<1>1. Slot(b) \in Heads /\ Slot(b) = Slot(a + n)
  BY <1>0, SlotFacts, SlotWindow
<1>2. \A i \in 0 .. Num - 1 : Slot(a + i) = Slot(a + n) => i = n
  BY <1>0, SlotWindow
<1>3. ASSUME NEW i \in 0 .. n - 1 PROVE Entry(s, a, i) = Entry(r, a, i)
  <2>0. i \in 0 .. Num - 1 /\ i # n /\ a + i \in Int
    BY <1>0
  <2>1. Slot(a + i) # Slot(b) /\ Slot(a + i) \in Heads
    BY <2>0, <1>1, <1>2, SlotFacts
  <2> QED
    BY <2>1 DEF Entry
<1>4. s \in [Heads -> Heads] /\ s[Slot(b)] = h
  BY <1>1
<1>5. Entries(s, a, b) = Entries(r, a, b)
  BY <1>3, Zenon DEF Entries
<1>6. Distinct(s, a, b) <=> Distinct(r, a, b)
  BY <1>3, Zenon DEF Distinct
<1> QED
  BY <1>4, <1>5, <1>6

\* Moving the end of the window over a head that is not in it yet.
LEMMA Push ==
  ASSUME NEW r \in [Heads -> Heads], NEW a \in Indexes, NEW b \in Indexes,
         Gap(a, b) < Num, Distinct(r, a, b), r[Slot(b)] \notin Entries(r, a, b)
  PROVE  /\ U16(b + 1) \in Indexes
         /\ Gap(a, U16(b + 1)) = Gap(a, b) + 1
         /\ Entries(r, a, U16(b + 1)) = Entries(r, a, b) \cup {r[Slot(b)]}
         /\ Distinct(r, a, U16(b + 1))
<1> DEFINE n == Gap(a, b)
           c == U16(b + 1)
<1>0. a \in Int /\ b \in Int /\ n \in 0 .. Num - 1 /\ Num \in Nat /\ n < IdxMod - 1
  <2>1. n \in 0 .. IdxMod - 1 /\ n < Num
    BY GapSteps
  <2> HIDE DEF n
  <2> QED
    BY <2>1, Sizes DEF Indexes
<1>1. c \in Indexes /\ Gap(a, c) = n + 1
  BY <1>0, U16Type, GapSteps
<1>2. Entry(r, a, n) = r[Slot(b)]
  BY SlotWindow DEF Entry
<1>3. 0 .. Gap(a, c) - 1 = (0 .. n - 1) \cup {n}
  BY <1>0, <1>1
<1>4. Entries(r, a, c) = {Entry(r, a, i) : i \in (0 .. n - 1) \cup {n}}
  BY <1>3 DEF Entries
<1>5. Entries(r, a, c) = Entries(r, a, b) \cup {r[Slot(b)]}
  BY <1>2, <1>4, Zenon DEF Entries
<1>6. \A i \in 0 .. n - 1 : Entry(r, a, i) # Entry(r, a, n)
  BY <1>2 DEF Entries
<1>7. Distinct(r, a, c)
  BY <1>3, <1>6 DEF Distinct
<1> QED
  BY <1>1, <1>5, <1>7

\* Moving the start of the window over its first entry.
LEMMA Pop ==
  ASSUME NEW r \in [Heads -> Heads], NEW a \in Indexes, NEW b \in Indexes,
         a # b, Distinct(r, a, b)
  PROVE  /\ U16(a + 1) \in Indexes
         /\ Gap(U16(a + 1), b) = Gap(a, b) - 1
         /\ r[Slot(a)] \in Entries(r, a, b)
         /\ Entries(r, U16(a + 1), b) = Entries(r, a, b) \ {r[Slot(a)]}
         /\ Distinct(r, U16(a + 1), b)
<1> DEFINE n == Gap(a, b)
           c == U16(a + 1)
<1>0. a \in Int /\ b \in Int /\ n \in Nat \ {0} /\ Num \in Nat
  BY GapSteps, Sizes DEF Indexes
<1>1. c \in Indexes /\ Gap(c, b) = n - 1
  BY <1>0, U16Type, GapSteps
<1>2. \A i \in Int : Entry(r, c, i) = Entry(r, a, i + 1)
  <2>1. \A i \in Int : Slot(U16(a + 1) + i) = Slot((a + 1) + i) /\ (a + 1) + i = a + (i + 1)
    BY <1>0, SlotFacts
  <2> QED
    BY <2>1 DEF Entry
<1>3. Entry(r, a, 0) = r[Slot(a)]
  BY <1>0 DEF Entry
<1>4. \A i, j \in 0 .. n - 1 : Entry(r, a, i) = Entry(r, a, j) => i = j
  BY DEF Distinct
<1>5. Entries(r, a, b) = {Entry(r, a, i) : i \in 0 .. n - 1}
  BY DEF Entries
<1>6. Entries(r, c, b) = {Entry(r, c, i) : i \in 0 .. n - 2}
  <2>1. Gap(c, b) - 1 = n - 2
    BY <1>0, <1>1
  <2> QED
    BY <2>1 DEF Entries
<1>7. Distinct(r, c, b)
  <2>1. \A i \in 0 .. Gap(c, b) - 1 : i + 1 \in 0 .. n - 1 /\ i \in Int
    BY <1>0, <1>1
  <2> QED
    BY <1>2, <1>4, <2>1 DEF Distinct
<1> HIDE DEF c, n
<1>8. r[Slot(a)] \in Entries(r, a, b)
  BY <1>0, <1>3, <1>5
<1>9. ASSUME NEW x \in Entries(r, c, b) PROVE x \in Entries(r, a, b) \ {r[Slot(a)]}
  <2>1. PICK i \in 0 .. n - 2 : x = Entry(r, c, i)
    BY <1>6
  <2>2. i + 1 \in 0 .. n - 1 /\ i + 1 # 0 /\ x = Entry(r, a, i + 1) /\ 0 \in 0 .. n - 1
    BY <1>0, <1>2, <2>1
  <2> QED
    BY <1>3, <1>4, <1>5, <2>2
<1>10. ASSUME NEW x \in Entries(r, a, b) \ {r[Slot(a)]} PROVE x \in Entries(r, c, b)
  <2>1. PICK i \in 0 .. n - 1 : x = Entry(r, a, i)
    BY <1>5
  <2>2. i # 0
    BY <2>1, <1>3
  <2>3. i - 1 \in 0 .. n - 2 /\ (i - 1) + 1 = i /\ i - 1 \in Int
    BY <1>0, <2>2
  <2>4. x = Entry(r, c, i - 1)
    BY <1>2, <2>1, <2>3
  <2> QED
    BY <1>6, <2>3, <2>4
<1>11. Entries(r, c, b) = Entries(r, a, b) \ {r[Slot(a)]}
  BY <1>9, <1>10
<1> QED
  BY <1>1, <1>7, <1>8, <1>11 DEF c, n
-----------------------------------------------------------------------------

\* With a buffer b left over, the other buffers are too few for all heads.
TokensFit ==
  \A b \in Bufs : \A f \in [Heads -> Bufs \ {b}] : \E g, h \in Heads : g # h /\ f[g] = f[h]

\* The types of the ring's state, the panics excluded.
RingType ==
  /\ vq \in [free_head : Heads, num_free : Nat, next : [Heads -> Heads],
             data : [Heads -> Bufs \cup {NoBuf}], indir : SUBSET Heads,
             avail_idx_shadow : Indexes, last_used_idx : Indexes,
             num_added : 0 .. IdxMod]
  /\ avail \in [ring : [Heads -> Heads], idx : Indexes]
  /\ used \in [ring : [Heads -> Heads], idx : Indexes]
  /\ used_event \in Indexes
  /\ dev \in [last_avail : Indexes, inflight : SUBSET Heads, signalled : Indexes]
  /\ kicked \in BOOLEAN /\ intr \in BOOLEAN
  /\ at \in {"idle", "expose", "notify", "vring", "get", "enable", "poll"}

Idle == {h \in Heads : vq.data[h] = NoBuf}
Busy == {h \in Heads : vq.data[h] # NoBuf}
Adding  == IF at = "expose" THEN {avail.ring[Slot(vq.avail_idx_shadow)]} ELSE {}
Exposed == Entries(avail.ring, dev.last_avail, avail.idx)
Done    == Entries(used.ring, vq.last_used_idx, used.idx)

\* Every busy descriptor is in one place, and in it once.
Places ==
  /\ Distinct(avail.ring, dev.last_avail, avail.idx)
  /\ Distinct(used.ring, vq.last_used_idx, used.idx)
  /\ Busy = Adding \cup Exposed \cup dev.inflight \cup Done
  /\ Adding \cap (Exposed \cup dev.inflight \cup Done) = {}
  /\ Exposed \cap (dev.inflight \cup Done) = {}
  /\ dev.inflight \cap Done = {}
  /\ vq.indir = Busy
  /\ vq.avail_idx_shadow = avail.idx

\* No two descriptors hold the same buffer.
Tokens == \A g, h \in Busy : vq.data[g] = vq.data[h] => g = h

\* Outside the loop of virtblk_done the event index is the next entry to read;
\* an entry waiting there has interrupted or lies in what will be signalled.
Events ==
  /\ at \notin {"get", "enable"} => used_event = vq.last_used_idx
  /\ at \in {"idle", "expose", "notify"} /\ vq.last_used_idx # used.idx =>
       intr \/ Gap(vq.last_used_idx, used.idx) <= Gap(dev.signalled, used.idx)

RingInv == RingType /\ Places /\ FreeListExact /\ Tokens /\ Events

-----------------------------------------------------------------------------
(* The free list.                                                          *)

\* An empty free list means that no descriptor is idle.
LEMMA ThreadEmpty ==
  ASSUME NEW free, NEW head, NEW next, Threaded(free, 0, head, next)
  PROVE  free = {}
BY DEF Threaded

\* virtqueue_add_split takes the first descriptor.
LEMMA ThreadPop ==
  ASSUME NEW free, NEW n \in Nat \ {0}, NEW head, NEW next, Threaded(free, n, head, next)
  PROVE  head \in free /\ Threaded(free \ {head}, n - 1, next[head], next)
<1>1. PICK f \in [0 .. n - 1 -> free] :
        /\ \A i, j \in 0 .. n - 1 : f[i] = f[j] => i = j
        /\ \A h \in free : \E i \in 0 .. n - 1 : f[i] = h
        /\ \A i \in 0 .. n - 1 : f[i] = IF i = 0 THEN head ELSE next[f[i - 1]]
  BY DEF Threaded
<1>2. 0 \in 0 .. n - 1 /\ f[0] = head /\ head \in free
  BY <1>1
<1> DEFINE g == [i \in 0 .. (n - 1) - 1 |-> f[i + 1]]
<1>3. \A i \in 0 .. (n - 1) - 1 : i + 1 \in 0 .. n - 1 /\ i + 1 # 0
  OBVIOUS
<1>4. g \in [0 .. (n - 1) - 1 -> free \ {head}]
  BY <1>1, <1>2, <1>3, Zenon
<1>5. \A i, j \in 0 .. (n - 1) - 1 : g[i] = g[j] => i = j
  <2> TAKE i, j \in 0 .. (n - 1) - 1
  <2>1. f[i + 1] = f[j + 1] => i + 1 = j + 1
    BY <1>1, <1>3
  <2> QED
    BY <2>1
<1>6. ASSUME NEW h \in free \ {head} PROVE \E i \in 0 .. (n - 1) - 1 : g[i] = h
  <2>1. PICK i \in 0 .. n - 1 : f[i] = h
    BY <1>1
  <2>2. i # 0
    BY <2>1, <1>2
  <2>3. i - 1 \in 0 .. (n - 1) - 1 /\ (i - 1) + 1 = i
    BY <2>2
  <2> QED
    BY <2>1, <2>3
<1>7. ASSUME NEW i \in 0 .. (n - 1) - 1
      PROVE  g[i] = IF i = 0 THEN next[head] ELSE next[g[i - 1]]
  <2>1. g[i] = next[f[i]]
    <3>1. f[i + 1] = next[f[(i + 1) - 1]] /\ (i + 1) - 1 = i
      BY <1>1, <1>3
    <3> QED
      BY <3>1
  <2>2. CASE i = 0
    BY <2>1, <2>2, <1>2
  <2>3. CASE i # 0
    <3>1. i - 1 \in 0 .. (n - 1) - 1 /\ (i - 1) + 1 = i
      BY <2>3
    <3>2. g[i - 1] = f[i]
      BY <3>1
    <3> QED
      BY <2>1, <2>3, <3>2
  <2> QED
    BY <2>2, <2>3
<1> HIDE DEF g
<1> QED
  BY <1>2, <1>4, <1>5, <1>6, <1>7, Zenon DEF Threaded

\* detach_buf_split puts a descriptor in front.
LEMMA ThreadPush ==
  ASSUME NEW free \in SUBSET Heads, NEW n \in Nat, NEW head,
         NEW next \in [Heads -> Heads], Threaded(free, n, head, next),
         NEW d \in Heads \ free
  PROVE  Threaded(free \cup {d}, n + 1, d, [next EXCEPT ![d] = head])
<1>1. PICK f \in [0 .. n - 1 -> free] :
        /\ \A i, j \in 0 .. n - 1 : f[i] = f[j] => i = j
        /\ \A h \in free : \E i \in 0 .. n - 1 : f[i] = h
        /\ \A i \in 0 .. n - 1 : f[i] = IF i = 0 THEN head ELSE next[f[i - 1]]
  BY DEF Threaded
<1> DEFINE g == [i \in 0 .. (n + 1) - 1 |-> IF i = 0 THEN d ELSE f[i - 1]]
           nx == [next EXCEPT ![d] = head]
<1>2. \A i \in 0 .. (n + 1) - 1 : i # 0 => i - 1 \in 0 .. n - 1 /\ f[i - 1] \in free
  BY <1>1
<1>3. g \in [0 .. (n + 1) - 1 -> free \cup {d}]
  BY <1>2
<1>4. \A i, j \in 0 .. (n + 1) - 1 : g[i] = g[j] => i = j
  <2> TAKE i, j \in 0 .. (n + 1) - 1
  <2>1. CASE i = 0 \/ j = 0
    BY <2>1, <1>2
  <2>2. CASE i # 0 /\ j # 0
    <3>1. f[i - 1] = f[j - 1] => i - 1 = j - 1
      BY <1>1, <1>2, <2>2
    <3> QED
      BY <3>1, <2>2
  <2> QED
    BY <2>1, <2>2
<1>5. ASSUME NEW h \in free \cup {d} PROVE \E i \in 0 .. (n + 1) - 1 : g[i] = h
  <2>1. CASE h = d
    <3>1. 0 \in 0 .. (n + 1) - 1 /\ g[0] = d
      OBVIOUS
    <3> QED
      BY <2>1, <3>1
  <2>2. CASE h \in free
    <3>1. PICK i \in 0 .. n - 1 : f[i] = h
      BY <1>1, <2>2
    <3>2. i + 1 \in 0 .. (n + 1) - 1 /\ i + 1 # 0 /\ (i + 1) - 1 = i
      OBVIOUS
    <3> QED
      BY <3>1, <3>2
  <2> QED
    BY <2>1, <2>2
<1>6. ASSUME NEW i \in 0 .. (n + 1) - 1
      PROVE  g[i] = IF i = 0 THEN d ELSE nx[g[i - 1]]
  <2>1. CASE i = 0
    BY <2>1
  <2>2. CASE i = 1
    <3>1. 0 \in 0 .. n - 1 /\ f[0] = head /\ i - 1 = 0 /\ 0 \in 0 .. (n + 1) - 1
      BY <1>1, <2>2
    <3>2. g[i] = head /\ g[i - 1] = d
      BY <3>1, <2>2
    <3> QED
      BY <3>2, <2>2
  <2>3. CASE i # 0 /\ i # 1
    <3>1. i - 1 \in 0 .. n - 1 /\ i - 1 # 0 /\ i - 1 \in 0 .. (n + 1) - 1 /\ (i - 1) - 1 \in 0 .. n - 1
      BY <2>3
    <3>2. g[i] = f[i - 1] /\ g[i - 1] = f[(i - 1) - 1]
      BY <3>1, <2>3
    <3>3. f[i - 1] = next[f[(i - 1) - 1]] /\ f[(i - 1) - 1] \in free
      BY <1>1, <3>1
    <3>4. nx[f[(i - 1) - 1]] = next[f[(i - 1) - 1]]
      BY <3>3
    <3> QED
      BY <2>3, <3>2, <3>3, <3>4
  <2> QED
    BY <2>1, <2>2, <2>3
<1> HIDE DEF g
<1> QED
  BY <1>3, <1>4, <1>5, <1>6, Zenon DEF Threaded

-----------------------------------------------------------------------------
(* The actions.                                                            *)

\* The entries of both arrays are descriptors that hold a buffer.
LEMMA BusyPlaces ==
  ASSUME RingType, Places
  PROVE  /\ Adding \subseteq Busy /\ Exposed \subseteq Busy
         /\ dev.inflight \subseteq Busy /\ Done \subseteq Busy /\ Busy \subseteq Heads
         /\ Idle = Heads \ Busy
BY DEF Places, Busy, Idle

\* The ring as it is created: all descriptors are idle and linked in order.
LEMMA InitRing ==
  ASSUME DriverInit
  PROVE  RingInv
<1>1. Num \in Nat \ {0} /\ IdxMod \in Nat \ {0} /\ 0 \in Indexes /\ 0 \in Heads
  BY Sizes DEF Indexes, Heads
<1>2. vq.next \in [Heads -> Heads]
  BY <1>1 DEF DriverInit, VringInit, Heads
<1>3. RingType
  <2>1. vq.num_free \in Nat /\ 0 \in 0 .. IdxMod
    BY <1>1 DEF DriverInit, VringInit
  <2>2. vq \in [free_head : Heads, num_free : Nat, next : [Heads -> Heads],
                data : [Heads -> Bufs \cup {NoBuf}], indir : SUBSET Heads,
                avail_idx_shadow : Indexes, last_used_idx : Indexes, num_added : 0 .. IdxMod]
    BY <1>1, <1>2, <2>1 DEF DriverInit, VringInit
  <2> QED
    BY <1>1, <2>2, Zenon DEF DriverInit, VringInit, RingType
<1>4. Busy = {} /\ Idle = Heads
  BY DEF DriverInit, VringInit, Busy, Idle
<1>5. Gap(0, 0) = 0
  BY <1>1, GapSteps
<1>6. Exposed = {} /\ Done = {} /\ Adding = {}
  BY <1>5 DEF DriverInit, VringInit, Exposed, Done, Adding, Entries
<1>7. Places
  BY <1>4, <1>5, <1>6 DEF DriverInit, VringInit, Places, Distinct
<1>8. FreeListExact
  <2> DEFINE f == [i \in 0 .. Num - 1 |-> i]
  <2>1. f \in [0 .. Num - 1 -> Heads]
    BY DEF Heads
  <2>2. \A i \in 0 .. Num - 1 : f[i] = IF i = 0 THEN 0 ELSE vq.next[f[i - 1]]
    BY <1>1 DEF DriverInit, VringInit, Heads
  <2>3. \A h \in Heads : \E i \in 0 .. Num - 1 : f[i] = h
    BY DEF Heads
  <2>4. Threaded(Heads, Num, 0, vq.next)
    BY <2>1, <2>2, <2>3, Zenon DEF Threaded
  <2>5. vq.num_free = Num /\ vq.free_head = 0
    BY DEF DriverInit, VringInit
  <2> QED
    BY <2>4, <2>5, <1>4 DEF FreeListExact, Idle
<1>9. Tokens /\ Events
  BY <1>4 DEF Tokens, Events, DriverInit, VringInit
<1> QED
  BY <1>3, <1>7, <1>8, <1>9 DEF RingInv

\* A descriptor is idle when a buffer outside the ring is added.
LEMMA AddFindsHead ==
  ASSUME RingInv, TokensFit, NEW b \in Bufs, b \notin Outstanding
  PROVE  /\ UseIndirect /\ vq.num_free \in Nat \ {0}
         /\ vq.free_head \in Idle
         /\ Threaded(Idle \ {vq.free_head}, vq.num_free - 1, vq.next[vq.free_head], vq.next)
<1>1. vq.num_free # 0
  <2> SUFFICES ASSUME vq.num_free = 0 PROVE FALSE
    OBVIOUS
  <2>1. Idle = {}
    BY ThreadEmpty DEF RingInv, FreeListExact, Idle
  <2>2. Busy = Heads
    BY <2>1 DEF Idle, Busy
  <2>3. vq.data \in [Heads -> Bufs \ {b}]
    BY <2>2 DEF RingInv, RingType, Busy, Outstanding
  <2>4. PICK g \in Heads, h \in Heads : g # h /\ vq.data[g] = vq.data[h]
    BY <2>3 DEF TokensFit
  <2> QED
    BY <2>2, <2>4 DEF RingInv, Tokens
<1>2. vq.num_free \in Nat \ {0}
  BY <1>1 DEF RingInv, RingType
<1>3. Threaded(Idle, vq.num_free, vq.free_head, vq.next)
  BY DEF RingInv, FreeListExact, Idle
<1>4. UseIndirect
  BY <1>2 DEF UseIndirect
<1> QED
  BY <1>2, <1>3, <1>4, ThreadPop, Zenon

\* virtqueue_add_split up to the store in the available array.
LEMMA AddStep ==
  ASSUME RingInv, Pigeonhole, TokensFit, NEW b \in Bufs, Add(b)
  PROVE  RingInv'
<1> DEFINE head == vq.free_head
<1>1. /\ UseIndirect /\ vq.num_free \in Nat \ {0} /\ head \in Idle
      /\ Threaded(Idle \ {head}, vq.num_free - 1, vq.next[head], vq.next)
  BY AddFindsHead DEF Add
<1>2. at = "idle" /\ at' = "expose" /\ AddBuf(b) /\ b \notin Outstanding
  BY <1>1 DEF Add
<1>3. head \in Heads /\ head \notin Busy
  BY <1>1 DEF Idle, Busy
<1>4. /\ vq'.free_head = vq.next[head] /\ vq'.num_free = vq.num_free - 1
      /\ vq'.next = vq.next /\ vq'.data = [vq.data EXCEPT ![head] = b]
      /\ vq'.indir = vq.indir \cup {head}
      /\ vq'.avail_idx_shadow = vq.avail_idx_shadow /\ vq'.last_used_idx = vq.last_used_idx
      /\ vq'.num_added = vq.num_added
      /\ avail'.idx = avail.idx
      /\ avail'.ring = [avail.ring EXCEPT ![Slot(avail.idx)] = head]
      /\ UNCHANGED <<used_event, used, dev, kicked, intr>>
  BY <1>2 DEF AddBuf, RingInv, RingType, Places
<1>5. b # NoBuf
  BY RingAssumption
<1>6. Busy' = Busy \cup {head} /\ Idle' = Idle \ {head}
  BY <1>3, <1>4, <1>5 DEF Busy, Idle, RingInv, RingType
<1>7. head \in Heads \ Exposed
  BY <1>3, BusyPlaces DEF RingInv
<1>8. Gap(dev.last_avail, avail.idx) < Num
  BY Zenon, <1>7, Room DEF RingInv, RingType, Places, Exposed
<1>9. /\ avail'.ring \in [Heads -> Heads] /\ avail'.ring[Slot(avail.idx)] = head
      /\ Exposed' = Exposed /\ Distinct(avail.ring, dev.last_avail, avail.idx)'
  BY SMTT(60), <1>3, <1>4, <1>8, Store DEF RingInv, RingType, Places, Exposed
<1>10. Adding = {} /\ Adding' = {head} /\ Done' = Done
  BY <1>2, <1>4, <1>9 DEF Adding, Done, RingInv, Places
<1>11. RingType'
  <2>1. vq' \in [free_head : Heads, num_free : Nat, next : [Heads -> Heads],
                data : [Heads -> Bufs \cup {NoBuf}], indir : SUBSET Heads,
                avail_idx_shadow : Indexes, last_used_idx : Indexes, num_added : 0 .. IdxMod]
    <3>1. vq.num_free - 1 \in Nat
      BY <1>1
    <3>2. vq.next[head] \in Heads /\ vq.indir \cup {head} \in SUBSET Heads
      BY <1>3 DEF RingInv, RingType
    <3>3. [vq.data EXCEPT ![head] = b] \in [Heads -> Bufs \cup {NoBuf}]
      BY <1>3 DEF RingInv, RingType
    <3> QED
      BY <1>2, <3>1, <3>2, <3>3, Zenon DEF AddBuf, RingInv, RingType
  <2>2. avail' \in [ring : [Heads -> Heads], idx : Indexes]
    BY SMTT(60), <1>2, <1>3, SlotFacts DEF AddBuf, RingInv, RingType
  <2> QED
    BY <1>2, <1>4, <2>1, <2>2 DEF RingInv, RingType
<1>12. Places'
  <2>1. head \notin Exposed \cup dev.inflight \cup Done
    BY <1>3, BusyPlaces DEF RingInv
  <2>2. Distinct(used.ring, vq.last_used_idx, used.idx)'
    BY <1>4 DEF RingInv, Places
  <2>3. Busy' = Adding' \cup Exposed' \cup dev'.inflight \cup Done'
    BY <1>4, <1>6, <1>9, <1>10 DEF RingInv, Places
  <2>4. Adding' \cap (Exposed' \cup dev'.inflight \cup Done') = {}
    BY <1>4, <1>9, <1>10, <2>1
  <2> QED
    BY <1>4, <1>6, <1>9, <1>10, <2>2, <2>3, <2>4 DEF RingInv, Places
<1>13. FreeListExact'
  BY <1>1, <1>4, <1>6, Zenon DEF FreeListExact, Idle
<1>14. Tokens'
  <2>1. \A h \in Busy : vq'.data[h] = vq.data[h] /\ vq.data[h] # b
    BY <1>2, <1>3, <1>4, <1>5 DEF Busy, Outstanding, RingInv, RingType
  <2>2. vq'.data[head] = b
    BY <1>3, <1>4 DEF RingInv, RingType
  <2> QED
    BY <1>6, <2>1, <2>2 DEF RingInv, Tokens
<1>15. Events'
  BY <1>2, <1>4 DEF RingInv, Events
<1> QED
  BY <1>11, <1>12, <1>13, <1>14, <1>15 DEF RingInv

\* The rest of virtqueue_add_split: the entry is exposed.
LEMMA ExposeStep ==
  ASSUME RingInv, Pigeonhole, AddExpose
  PROVE  RingInv'
<1> DEFINE idx == U16(avail.idx + 1)
           head == avail.ring[Slot(avail.idx)]
<1>1. /\ at = "expose" /\ at' = "notify"
      /\ vq'.free_head = vq.free_head /\ vq'.num_free = vq.num_free
      /\ vq'.next = vq.next /\ vq'.data = vq.data /\ vq'.indir = vq.indir
      /\ vq'.avail_idx_shadow = idx /\ vq'.last_used_idx = vq.last_used_idx
      /\ avail'.idx = idx /\ avail'.ring = avail.ring
      /\ UNCHANGED <<used_event, used, dev, intr>>
  BY DEF AddExpose, Goto, Expose, RingInv, RingType, Places
<1>2. Adding = {head}
  BY <1>1 DEF Adding, RingInv, Places
<1>3. head \in Heads \ Exposed
  BY <1>2, BusyPlaces DEF RingInv, Places
<1>4. Gap(dev.last_avail, avail.idx) < Num
  BY <1>3, Room DEF RingInv, RingType, Places, Exposed
<1>5. /\ idx \in Indexes /\ Exposed' = Exposed \cup {head}
      /\ Distinct(avail.ring, dev.last_avail, avail.idx)'
  <2>1. /\ avail.ring \in [Heads -> Heads] /\ dev.last_avail \in Indexes /\ avail.idx \in Indexes
        /\ Distinct(avail.ring, dev.last_avail, avail.idx)
        /\ head \notin Entries(avail.ring, dev.last_avail, avail.idx)
    BY <1>3 DEF RingInv, RingType, Places, Exposed
  <2>2. /\ idx \in Indexes
        /\ Entries(avail.ring, dev.last_avail, idx) =
             Entries(avail.ring, dev.last_avail, avail.idx) \cup {head}
        /\ Distinct(avail.ring, dev.last_avail, idx)
    BY <1>4, <2>1, Push
  <2> QED
    BY <1>1, <2>2 DEF Exposed
<1>6. Busy' = Busy /\ Idle' = Idle /\ Adding' = {} /\ Done' = Done
  BY <1>1 DEF Busy, Idle, Adding, Done
<1>7. RingType'
  <2>1. \A n \in 0 .. IdxMod : (IF n < IdxMod THEN n + 1 ELSE IdxMod) \in 0 .. IdxMod
    BY Sizes
  <2>2. vq.avail_idx_shadow = avail.idx
    BY DEF RingInv, Places
  <2>3. vq' \in [free_head : Heads, num_free : Nat, next : [Heads -> Heads],
                data : [Heads -> Bufs \cup {NoBuf}], indir : SUBSET Heads,
                avail_idx_shadow : Indexes, last_used_idx : Indexes, num_added : 0 .. IdxMod]
    BY <1>5, <2>1, <2>2, Zenon DEF AddExpose, Expose, RingInv, RingType
  <2>4. avail' \in [ring : [Heads -> Heads], idx : Indexes]
    BY <1>5, <2>2 DEF AddExpose, Expose, RingInv, RingType
  <2>5. kicked' \in BOOLEAN
    BY SMTT(60) DEF AddExpose, Expose, RingInv, RingType
  <2> QED
    BY <1>1, <2>3, <2>4, <2>5 DEF RingInv, RingType
<1>8. Places'
  <2>1. Distinct(used.ring, vq.last_used_idx, used.idx)'
    BY Zenon, <1>1 DEF RingInv, Places
  <2>2. Busy' = Adding' \cup Exposed' \cup dev'.inflight \cup Done'
    BY Zenon, <1>1, <1>2, <1>5, <1>6 DEF RingInv, Places
  <2>3. Exposed' \cap (dev'.inflight \cup Done') = {}
    BY <1>1, <1>2, <1>5, <1>6 DEF RingInv, Places
  <2> QED
    BY Zenon, <1>1, <1>5, <1>6, <2>1, <2>2, <2>3 DEF RingInv, Places
<1>9. FreeListExact' /\ Tokens'
  BY <1>1, <1>6 DEF RingInv, FreeListExact, Tokens
<1>10. Events'
  BY <1>1 DEF RingInv, Events
<1> QED
  BY <1>7, <1>8, <1>9, <1>10 DEF RingInv

\* What the steps that move no descriptor preserve.
LEMMA QuietStep ==
  ASSUME RingInv, UNCHANGED <<vq, avail, used, dev>>, at = "expose" <=> at' = "expose"
  PROVE  Places' /\ FreeListExact' /\ Tokens'
<1>1. Busy' = Busy /\ Exposed' = Exposed /\ Done' = Done /\ Adding' = Adding
  BY DEF Busy, Exposed, Done, Adding
<1>2. Places'
  BY <1>1 DEF RingInv, Places
<1>3. FreeListExact' /\ Tokens'
  BY <1>1 DEF RingInv, FreeListExact, Tokens
<1> QED
  BY <1>2, <1>3

\* Notification, and the parts of the interrupt handler that only look.
LEMMA LookStep ==
  ASSUME RingInv, AddNotify \/ Interrupt \/ VringInterrupt \/ DoneEnable \/ DonePoll
                    \/ (DoneGet /\ ~MoreUsed)
  PROVE  RingInv'
<1>1. CASE AddNotify
  <2>1. RingType' /\ Events'
    BY <1>1 DEF AddNotify, Goto, Notify, RingInv, RingType, Events
  <2>2. Places' /\ FreeListExact' /\ Tokens'
    BY <1>1, QuietStep DEF AddNotify, Goto, Notify
  <2> QED
    BY <2>1, <2>2 DEF RingInv
<1>2. CASE Interrupt
  <2>1. RingType' /\ Events'
    BY <1>2, Zenon DEF Interrupt, Goto, AckIntr, RingInv, RingType, Events
  <2>2. Places' /\ FreeListExact' /\ Tokens'
    BY <1>2, QuietStep DEF Interrupt, Goto, AckIntr
  <2> QED
    BY <2>1, <2>2 DEF RingInv
<1>3. CASE VringInterrupt
  <2>1. RingType' /\ Events'
    BY <1>3 DEF VringInterrupt, MoreUsed, ring, RingInv, RingType, Events
  <2>2. Places' /\ FreeListExact' /\ Tokens'
    BY <1>3, QuietStep DEF VringInterrupt, ring
  <2> QED
    BY <2>1, <2>2 DEF RingInv
<1>4. CASE DoneEnable
  <2>1. RingType' /\ Events'
    BY <1>4 DEF DoneEnable, Goto, EnableCb, RingInv, RingType, Events
  <2>2. Places' /\ FreeListExact' /\ Tokens'
    BY <1>4, QuietStep DEF DoneEnable, Goto, EnableCb
  <2> QED
    BY <2>1, <2>2 DEF RingInv
<1>5. CASE DonePoll
  <2>1. RingType' /\ Events'
    BY <1>5 DEF DonePoll, MoreUsed, ring, RingInv, RingType, Events
  <2>2. Places' /\ FreeListExact' /\ Tokens'
    BY <1>5, QuietStep DEF DonePoll, ring
  <2> QED
    BY <2>1, <2>2 DEF RingInv
<1>6. CASE DoneGet /\ ~MoreUsed
  <2>1. RingType' /\ Events'
    BY <1>6 DEF DoneGet, MoreUsed, ring, RingInv, RingType, Events
  <2>2. Places' /\ FreeListExact' /\ Tokens'
    BY <1>6, QuietStep DEF DoneGet, ring
  <2> QED
    BY <2>1, <2>2 DEF RingInv
<1> QED
  BY <1>1, <1>2, <1>3, <1>4, <1>5, <1>6

\* The entry virtqueue_get_buf reads names a descriptor with a buffer.
LEMMA GetFindsHead ==
  ASSUME RingInv, MoreUsed
  PROVE  /\ ~BadHead /\ UsedHead \in Done /\ UsedHead \in Busy
         /\ U16(vq.last_used_idx + 1) \in Indexes
         /\ Entries(used.ring, U16(vq.last_used_idx + 1), used.idx) = Done \ {UsedHead}
         /\ Distinct(used.ring, U16(vq.last_used_idx + 1), used.idx)
<1>1. /\ used.ring \in [Heads -> Heads] /\ vq.last_used_idx \in Indexes /\ used.idx \in Indexes
      /\ Distinct(used.ring, vq.last_used_idx, used.idx) /\ vq.last_used_idx # used.idx
  BY DEF RingInv, RingType, Places, MoreUsed
<1>2. /\ U16(vq.last_used_idx + 1) \in Indexes /\ UsedHead \in Done
      /\ Entries(used.ring, U16(vq.last_used_idx + 1), used.idx) = Done \ {UsedHead}
      /\ Distinct(used.ring, U16(vq.last_used_idx + 1), used.idx)
  BY <1>1, Pop DEF UsedHead, Done
<1>3. UsedHead \in Busy
  BY <1>2, BusyPlaces DEF RingInv
<1> QED
  BY <1>2, <1>3 DEF BadHead, Busy

\* virtqueue_get_buf_ctx_split and detach_buf_split.
LEMMA GetStep ==
  ASSUME RingInv, DoneGet, MoreUsed
  PROVE  RingInv'
<1> DEFINE head == UsedHead
           last == U16(vq.last_used_idx + 1)
<1>1. /\ head \in Done /\ head \in Busy /\ head \in Heads /\ last \in Indexes
      /\ Entries(used.ring, last, used.idx) = Done \ {head}
      /\ Distinct(used.ring, last, used.idx)
  BY GetFindsHead DEF Busy
<1>2. at = "get" /\ at' = "get" /\ GetBuf
  BY GetFindsHead DEF DoneGet
<1>3. /\ vq'.free_head = head /\ vq'.num_free = vq.num_free + 1
      /\ vq'.next = [vq.next EXCEPT ![head] = vq.free_head]
      /\ vq'.data = [vq.data EXCEPT ![head] = NoBuf]
      /\ vq'.indir = vq.indir \ {head}
      /\ vq'.avail_idx_shadow = vq.avail_idx_shadow /\ vq'.last_used_idx = last
      /\ UNCHANGED <<avail, used_event, used, dev, kicked, intr>>
  BY SMTT(60), <1>2 DEF GetBuf, RingInv, RingType
<1>4. Busy' = Busy \ {head} /\ Idle' = Idle \cup {head} /\ head \notin Idle
  BY SMTT(60), <1>1, <1>3 DEF Busy, Idle, RingInv, RingType
<1>5. Done' = Done \ {head} /\ Exposed' = Exposed /\ Adding = {} /\ Adding' = {}
  BY <1>1, <1>2, <1>3 DEF Done, Exposed, Adding
<1>6. RingType'
  <2>1. vq.num_free + 1 \in Nat
    BY DEF RingInv, RingType
  <2>2. [vq.next EXCEPT ![head] = vq.free_head] \in [Heads -> Heads]
    BY Zenon DEF RingInv, RingType
  <2>3. [vq.data EXCEPT ![head] = NoBuf] \in [Heads -> Bufs \cup {NoBuf}]
    BY Zenon DEF RingInv, RingType
  <2>4. vq' \in [free_head : Heads, num_free : Nat, next : [Heads -> Heads],
                data : [Heads -> Bufs \cup {NoBuf}], indir : SUBSET Heads,
                avail_idx_shadow : Indexes, last_used_idx : Indexes, num_added : 0 .. IdxMod]
    <3>1. vq.indir \ {head} \in SUBSET Heads /\ vq.avail_idx_shadow \in Indexes
            /\ vq.num_added \in 0 .. IdxMod
      BY DEF RingInv, RingType
    <3>2. vq' = [vq EXCEPT !.data = [vq.data EXCEPT ![head] = NoBuf],
                           !.next = [vq.next EXCEPT ![head] = vq.free_head],
                           !.free_head = head, !.num_free = vq.num_free + 1,
                           !.indir = vq.indir \ {head}, !.last_used_idx = last]
      BY <1>2 DEF GetBuf, RingInv, RingType
    <3>3. vq \in [free_head : Heads, num_free : Nat, next : [Heads -> Heads],
                  data : [Heads -> Bufs \cup {NoBuf}], indir : SUBSET Heads,
                  avail_idx_shadow : Indexes, last_used_idx : Indexes, num_added : 0 .. IdxMod]
      BY DEF RingInv, RingType
    <3> HIDE DEF head, last
    <3> QED
      BY ZenonT(60), <1>1, <2>1, <2>2, <2>3, <3>1, <3>2, <3>3
  <2> QED
    BY <1>2, <1>3, <2>4 DEF RingInv, RingType
<1>7. Places'
  <2>1. Distinct(avail.ring, dev.last_avail, avail.idx)'
    BY SMTT(60), <1>3 DEF RingInv, Places
  <2>2. Distinct(used.ring, vq.last_used_idx, used.idx)'
    BY <1>1, <1>3
  <2>3. head \notin Exposed \cup dev.inflight
    BY <1>1 DEF RingInv, Places
  <2>4. Busy' = Adding' \cup Exposed' \cup dev'.inflight \cup Done'
    BY <1>3, <1>4, <1>5, <2>3 DEF RingInv, Places
  <2>5. vq'.indir = Busy' /\ vq'.avail_idx_shadow = avail'.idx
    BY <1>3, <1>4 DEF RingInv, Places
  <2>6. /\ Exposed' \cap (dev'.inflight \cup Done') = {} /\ dev'.inflight \cap Done' = {}
        /\ Adding' \cap (Exposed' \cup dev'.inflight \cup Done') = {}
    BY <1>3, <1>5 DEF RingInv, Places
  <2> QED
    BY <2>1, <2>2, <2>4, <2>5, <2>6 DEF Places
<1>8. FreeListExact'
  <2>1. Threaded(Idle, vq.num_free, vq.free_head, vq.next) /\ Idle \in SUBSET Heads
    BY DEF RingInv, FreeListExact, Idle
  <2>2. Threaded(Idle \cup {head}, vq.num_free + 1, head, [vq.next EXCEPT ![head] = vq.free_head])
    BY <1>1, <1>4, <2>1, ThreadPush DEF RingInv, RingType
  <2> QED
    BY <1>3, <1>4, <2>2 DEF FreeListExact, Idle
<1>9. Tokens'
  <2>1. \A h \in Busy' : h \in Busy /\ vq'.data[h] = vq.data[h]
    BY <1>3, <1>4 DEF Busy, RingInv, RingType
  <2> QED
    BY <2>1 DEF RingInv, Tokens
<1>10. Events'
  BY <1>2 DEF Events
<1> QED
  BY <1>6, <1>7, <1>8, <1>9, <1>10 DEF RingInv

-----------------------------------------------------------------------------
(* The device.                                                             *)

\* The device takes an exposed entry.
LEMMA DevPopStep ==
  ASSUME RingInv, DevPop, UNCHANGED at
  PROVE  RingInv'
<1> DEFINE head == avail.ring[Slot(dev.last_avail)]
           next == U16(dev.last_avail + 1)
<1>1. /\ dev'.last_avail = next /\ dev'.inflight = dev.inflight \cup {head}
      /\ dev'.signalled = dev.signalled /\ dev.last_avail # avail.idx
      /\ UNCHANGED <<vq, avail, used_event, used, kicked, intr, at>>
  BY DEF DevPop, RingInv, RingType
<1>2. /\ avail.ring \in [Heads -> Heads] /\ dev.last_avail \in Indexes /\ avail.idx \in Indexes
      /\ Distinct(avail.ring, dev.last_avail, avail.idx)
  BY Zenon DEF RingInv, RingType, Places
<1>3. /\ next \in Indexes /\ head \in Exposed
      /\ Entries(avail.ring, next, avail.idx) = Exposed \ {head}
      /\ Distinct(avail.ring, next, avail.idx)
  BY Zenon, <1>1, <1>2, Pop DEF Exposed
<1>4. head \in Heads
  BY Zenon, <1>3, BusyPlaces DEF RingInv
<1>5. /\ Exposed' = Exposed \ {head} /\ Done' = Done /\ Adding' = Adding
      /\ Busy' = Busy /\ Idle' = Idle
  BY <1>1, <1>3 DEF Exposed, Done, Adding, Busy, Idle
<1>6. RingType'
  <2>1. dev' \in [last_avail : Indexes, inflight : SUBSET Heads, signalled : Indexes]
    BY <1>3, <1>4, Zenon DEF DevPop, RingInv, RingType
  <2> QED
    BY <1>1, <2>1 DEF RingInv, RingType
<1>7. Places'
  <2>1. Distinct(avail.ring, dev.last_avail, avail.idx)' /\ Distinct(used.ring, vq.last_used_idx, used.idx)'
    BY Zenon, <1>1, <1>3 DEF RingInv, Places
  <2>2. Busy' = Adding' \cup Exposed' \cup dev'.inflight \cup Done'
    BY SMTT(60), <1>1, <1>3, <1>5 DEF RingInv, Places
  <2>3. Adding' \cap (Exposed' \cup dev'.inflight \cup Done') = {}
    BY ZenonT(60), <1>1, <1>3, <1>5 DEF RingInv, Places
  <2>4. Exposed' \cap (dev'.inflight \cup Done') = {} /\ dev'.inflight \cap Done' = {}
    <3>1. Places /\ dev'.inflight = dev.inflight \cup {head}
      BY Zenon, <1>1 DEF RingInv
    <3> QED
      <4>1. Exposed \cap (dev.inflight \cup Done) = {} /\ dev.inflight \cap Done = {}
        BY Zenon, <3>1 DEF Places
      <4>2. head \in Exposed /\ Exposed' = Exposed \ {head} /\ Done' = Done
        BY Zenon, <1>3, <1>5
      <4> QED
        BY ONLY <3>1, <4>1, <4>2
  <2> QED
    BY Zenon, <1>1, <1>5, <2>1, <2>2, <2>3, <2>4 DEF RingInv, Places
<1>8. FreeListExact' /\ Tokens' /\ Events'
  BY <1>1, <1>5 DEF RingInv, FreeListExact, Tokens, Events
<1> QED
  BY <1>6, <1>7, <1>8 DEF RingInv

\* The device publishes a finished head in the used array.
LEMMA DevUseStep ==
  ASSUME RingInv, Pigeonhole, NEW h \in Heads, DevUse(h), UNCHANGED at
  PROVE  RingInv'
<1> DEFINE idx == U16(used.idx + 1)
           r == [used.ring EXCEPT ![Slot(used.idx)] = h]
<1>1. /\ h \in dev.inflight /\ used'.ring = r /\ used'.idx = idx
      /\ dev'.last_avail = dev.last_avail /\ dev'.inflight = dev.inflight \ {h}
      /\ dev'.signalled = dev.signalled
      /\ Gap(dev.signalled, used.idx) < Num
      /\ UNCHANGED <<vq, avail, used_event, kicked, intr, at>>
  BY DEF DevUse, RingInv, RingType, Gap
<1>2. /\ used.ring \in [Heads -> Heads] /\ vq.last_used_idx \in Indexes /\ used.idx \in Indexes
      /\ Distinct(used.ring, vq.last_used_idx, used.idx) /\ dev.signalled \in Indexes
  BY SMTT(60) DEF RingInv, RingType, Places
<1>3. h \in Heads \ Done
  BY <1>1 DEF RingInv, Places
<1>4. Gap(vq.last_used_idx, used.idx) < Num
  BY Zenon, <1>2, <1>3, Room DEF Done
<1>5. /\ r \in [Heads -> Heads] /\ r[Slot(used.idx)] = h
      /\ Entries(r, vq.last_used_idx, used.idx) = Done
      /\ Distinct(r, vq.last_used_idx, used.idx)
  BY SMTT(60), <1>2, <1>4, Store DEF Done
<1> HIDE DEF r
<1>6. /\ idx \in Indexes
      /\ Gap(vq.last_used_idx, idx) = Gap(vq.last_used_idx, used.idx) + 1
      /\ Entries(r, vq.last_used_idx, idx) = Done \cup {h}
      /\ Distinct(r, vq.last_used_idx, idx)
  BY ZenonT(60), <1>2, <1>3, <1>4, <1>5, Push
<1>7. /\ Done' = Done \cup {h} /\ Exposed' = Exposed /\ Adding' = Adding
      /\ Busy' = Busy /\ Idle' = Idle
  BY Zenon, <1>1, <1>6 DEF Exposed, Done, Adding, Busy, Idle
<1>8. RingType'
  <2>1. used' \in [ring : [Heads -> Heads], idx : Indexes]
    BY <1>5, <1>6 DEF DevUse, r
  <2>2. dev' \in [last_avail : Indexes, inflight : SUBSET Heads, signalled : Indexes]
    BY Zenon DEF DevUse, RingInv, RingType
  <2> QED
    BY <1>1, <2>1, <2>2 DEF RingInv, RingType
<1>9. Places'
  <2>1. Distinct(avail.ring, dev.last_avail, avail.idx)' /\ Distinct(used.ring, vq.last_used_idx, used.idx)'
    BY Zenon, <1>1, <1>6 DEF RingInv, Places
  <2>2. Busy' = Adding' \cup Exposed' \cup dev'.inflight \cup Done'
    BY Zenon, <1>1, <1>7 DEF RingInv, Places
  <2>3. Adding' \cap (Exposed' \cup dev'.inflight \cup Done') = {}
    BY Zenon, <1>1, <1>7 DEF RingInv, Places
  <2>4. Exposed' \cap (dev'.inflight \cup Done') = {} /\ dev'.inflight \cap Done' = {}
    BY ZenonT(60), <1>1, <1>7 DEF RingInv, Places
  <2> QED
    BY Zenon, <1>1, <1>7, <2>1, <2>2, <2>3, <2>4 DEF RingInv, Places
<1>10. FreeListExact' /\ Tokens'
  BY Zenon, <1>1, <1>7 DEF RingInv, FreeListExact, Tokens
<1>11. Events'
  <2>1. Gap(dev.signalled, used.idx) \in Nat /\ Gap(vq.last_used_idx, used.idx) \in Nat
    BY <1>2, GapSteps
  <2>2. Gap(dev.signalled, used.idx) < IdxMod - 1
    BY SMTT(60), <1>1, <2>1, Sizes
  <2>3. Gap(dev.signalled, idx) = Gap(dev.signalled, used.idx) + 1
    BY <1>2, <2>2, GapSteps
  <2>4. vq.last_used_idx = used.idx => Gap(vq.last_used_idx, used.idx) = 0
    BY <1>2, GapSteps
  <2>5. /\ vq'.last_used_idx = vq.last_used_idx /\ used'.idx = idx /\ dev'.signalled = dev.signalled
        /\ UNCHANGED <<at, intr, used_event>>
    BY <1>1
  <2>6. at \in {"idle", "expose", "notify"} =>
          intr \/ Gap(vq.last_used_idx, used.idx) <= Gap(dev.signalled, used.idx)
    BY SMTT(60), <2>1, <2>4 DEF RingInv, Events
  <2>7. at \in {"idle", "expose", "notify"} =>
          intr \/ Gap(vq.last_used_idx, idx) <= Gap(dev.signalled, idx)
    BY <1>6, <2>1, <2>3, <2>6
  <2> QED
    BY Zenon, <2>5, <2>7 DEF RingInv, Events
<1> QED
  BY <1>8, <1>9, <1>10, <1>11 DEF RingInv

\* The condition of vring_need_event when the event index is the next entry
\* the driver reads: what is unread is among what was published since then.
LEMMA NeedEventValue ==
  ASSUME RingType, used_event = vq.last_used_idx, vq.last_used_idx # used.idx
  PROVE  NeedEvent <=> Gap(vq.last_used_idx, used.idx) <= Gap(dev.signalled, used.idx)
<1>1. vq.last_used_idx \in Indexes /\ used.idx \in Indexes /\ dev.signalled \in Indexes
  BY DEF RingType
<1> DEFINE l == vq.last_used_idx
           u == used.idx
           n == Gap(l, u)
           p == Gap(dev.signalled, u)
<1>2. n \in 1 .. IdxMod - 1 /\ p \in 0 .. IdxMod - 1
  BY <1>1, GapSteps, Sizes
<1>3. n = IF l <= u THEN u - l ELSE u - l + IdxMod
  BY <1>1, GapValue
<1>4. IdxMod \in Nat \ {0} /\ l \in 0 .. IdxMod - 1 /\ u \in 0 .. IdxMod - 1
  BY <1>1, Sizes DEF Indexes
<1> HIDE DEF n, p, l, u
<1>5. U16(u - l - 1) = n - 1
  <2>1. CASE l <= u
    <3>1. u - l - 1 \in 0 .. IdxMod - 1 /\ u - l - 1 = n - 1
      BY <1>2, <1>3, <1>4, <2>1
    <3> QED
      BY <3>1, U16Type DEF Indexes
  <2>2. CASE ~(l <= u)
    <3>1. u - l - 1 = IdxMod * (-1) + (n - 1) /\ n - 1 \in 0 .. IdxMod - 1
      BY <1>2, <1>3, <1>4, <2>2
    <3> QED
      BY <3>1, <1>4, ModUnique DEF U16
  <2> QED
    BY <2>1, <2>2
<1>6. NeedEvent <=> n - 1 < p
  BY <1>5 DEF NeedEvent, p, u, l, Gap
<1> QED
  BY <1>2, <1>6 DEF n, p, u, l

\* The device interrupts, or not, for what it has published, or goes to sleep.
LEMMA DevSignalStep ==
  ASSUME RingInv, DevSignal \/ DevSleep, UNCHANGED at
  PROVE  RingInv'
<1>1. CASE DevSignal
  <2>1. /\ dev'.last_avail = dev.last_avail /\ dev'.inflight = dev.inflight
        /\ dev'.signalled = used.idx /\ intr' = (intr \/ NeedEvent)
        /\ UNCHANGED <<vq, avail, used_event, used, kicked, at>>
    BY <1>1 DEF DevSignal, RingInv, RingType
  <2>2. RingType'
    <3>1. dev' \in [last_avail : Indexes, inflight : SUBSET Heads, signalled : Indexes]
      BY <1>1 DEF DevSignal, RingInv, RingType
    <3>2. intr' \in BOOLEAN
      BY Zenon, <2>1
    <3> QED
      BY <2>1, <3>1, <3>2 DEF RingInv, RingType
  <2>3. Exposed' = Exposed /\ Done' = Done /\ Adding' = Adding /\ Busy' = Busy
    BY SMTT(60), <2>1 DEF Exposed, Done, Adding, Busy
  <2>4. Places'
    BY Zenon, <2>1, <2>3 DEF RingInv, Places
  <2>5. FreeListExact' /\ Tokens'
    BY SMTT(60), <2>1, <2>3 DEF RingInv, FreeListExact, Tokens
  <2>6. Events'
    <3>1. at \in {"idle", "expose", "notify"} /\ vq.last_used_idx # used.idx => intr'
      BY <2>1, NeedEventValue, Zenon DEF RingInv, Events
    <3> QED
      BY <2>1, <3>1 DEF RingInv, Events
  <2> QED
    BY <2>2, <2>4, <2>5, <2>6 DEF RingInv
<1>2. CASE DevSleep
  <2>1. RingType' /\ Events'
    BY <1>2, Zenon DEF DevSleep, RingInv, RingType, Events
  <2>2. Places' /\ FreeListExact' /\ Tokens'
    BY <1>2, QuietStep DEF DevSleep
  <2> QED
    BY <2>1, <2>2 DEF RingInv
<1> QED
  BY <1>1, <1>2

\* Every step of driver and device, and every stuttering step.
LEMMA RingNext ==
  ASSUME RingInv, Pigeonhole, TokensFit, [DriverNext]_dvars
  PROVE  RingInv'
<1>1. CASE \E b \in Bufs : Add(b)
  BY <1>1, AddStep
<1>2. CASE Driver
  BY <1>2, ExposeStep, LookStep, GetStep DEF Driver
<1>3. CASE Device
  BY <1>3, DevPopStep, DevUseStep, DevSignalStep DEF Device
<1>4. CASE UNCHANGED dvars
  <2>1. RingType' /\ Events'
    BY <1>4 DEF dvars, ring, RingInv, RingType, Events
  <2>2. Places' /\ FreeListExact' /\ Tokens'
    BY <1>4, QuietStep DEF dvars, ring
  <2> QED
    BY Zenon, <2>1, <2>2 DEF RingInv
<1> QED
  BY <1>1, <1>2, <1>3, <1>4 DEF DriverNext
=============================================================================
