---------------------------- MODULE FilesProofs ----------------------------
(***************************************************************************)
(* The search for a free descriptor through the two bitmaps of a table,    *)
(* for every word size, table size and set of open descriptors.            *)
(***************************************************************************)
EXTENDS Files, WellFoundedInduction, TLAPS

\* A descriptor table whose files are drawn from a set S.
IsTable(f, S) ==
  f \in [fd : [Fds -> Nat], open : SUBSET Fds, full : SUBSET Words, next : Nat,
         cloexec : SUBSET Fds, files : S]

\* full_fds_bits tells the words of open_fds with every bit set.
FullExact(f) == \A w \in Words : (w \in f.full) <=> (WordOf(w) \subseteq f.open)

\* What holds of a table between calls, descriptors closed in the meantime
\* allowed for: nothing below next_fd is free and a set bit means a file.
FdInv(f) ==
  /\ FullExact(f)
  /\ \A fd \in Fds : fd < f.next => fd \in f.open
  /\ \A fd \in Fds : (fd \in f.open) <=> (f.fd[fd] # 0)

-----------------------------------------------------------------------------
(* Least elements and division.                                            *)

\* A set of numbers that is not empty has a least element.
LEMMA MinFacts ==
  ASSUME NEW S \in SUBSET Nat, S # {}
  PROVE  Min(S) \in S /\ \A y \in S : Min(S) <= y
<1> DEFINE R == {ss \in Nat \X Nat : ss[1] < ss[2]}
<1>1. IsWellFoundedOn(R, Nat)
  BY Zenon, NatLessThanWellFounded DEF OpToRel
<1>2. \E x \in S : \A y \in S : ~(<<y, x>> \in R)
  <2> HIDE DEF R
  <2> QED
    BY <1>1, WFMin, Zenon
<1>3. \A x, y \in Nat : (<<y, x>> \in R) <=> y < x
  OBVIOUS
<1>4. \E x \in S : \A y \in S : x <= y
  <2> HIDE DEF R
  <2>1. PICK x \in S : \A y \in S : ~(<<y, x>> \in R)
    BY <1>2
  <2>2. \A y \in S : ~(y < x)
    BY <1>3, <2>1, Zenon
  <2> QED
    BY <2>2
<1> QED
  BY <1>4, Zenon DEF Min

\* Quotient and remainder.
LEMMA DivRem ==
  ASSUME NEW m \in Nat \ {0}, NEW x \in Nat
  PROVE  x \div m \in Nat /\ x % m \in 0 .. m - 1 /\ x = m * (x \div m) + (x % m)
OBVIOUS

\* The word of a number is where it lies among the multiples of the word size.
LEMMA WordBounds ==
  ASSUME NEW m \in Nat \ {0}, NEW x \in Nat, NEW a \in Nat, NEW b \in Nat
  PROVE  /\ x < b * m => x \div m < b
         /\ a <= x \div m <=> a * m <= x
<1> DEFINE q == x \div m
           r == x % m
<1>1. q \in Nat /\ r \in 0 .. m - 1 /\ x = m * q + r
  BY DivRem, Zenon
<1> HIDE DEF q, r
<1>2. \A c \in Nat : c > q => c * m >= m * q + m
  <2> TAKE c \in Nat
  <2>1. c > q => (c - q - 1) * m >= 0 /\ c * m = (c - q - 1) * m + (m * q + m)
    BY <1>1
  <2> QED
    BY <2>1, <1>1
<1>3. \A c \in Nat : c <= q => c * m <= m * q
  <2> TAKE c \in Nat
  <2>1. c <= q => (q - c) * m >= 0 /\ m * q = (q - c) * m + c * m
    BY <1>1
  <2> QED
    BY <2>1, <1>1
<1> QED
  BY <1>1, <1>2, <1>3 DEF q

\* The table is a whole number of words.
LEMMA TableSizes ==
  /\ BITS_PER_LONG \in Nat \ {0} /\ max_fds \in Nat \ {0}
  /\ max_fds \div BITS_PER_LONG \in Nat
  /\ (max_fds \div BITS_PER_LONG) * BITS_PER_LONG = max_fds
<1>1. BITS_PER_LONG \in Nat \ {0} /\ max_fds \in Nat \ {0} /\ max_fds % BITS_PER_LONG = 0
  BY FilesAssumption
<1>2. /\ max_fds \div BITS_PER_LONG \in Nat
      /\ max_fds = BITS_PER_LONG * (max_fds \div BITS_PER_LONG) + 0
  BY <1>1, DivRem
<1> QED
  BY <1>1, <1>2

-----------------------------------------------------------------------------
(* The search.                                                             *)

\* find_next_zero_bit: everything it passes is set, what it finds is not.
LEMMA ZeroBit ==
  ASSUME NEW bits, NEW size \in Nat, NEW start \in 0 .. size
  PROVE  LET r == find_next_zero_bit(bits, size, start)
         IN  /\ r \in start .. size
             /\ r < size => r \notin bits
             /\ \A k \in start .. r - 1 : k \in bits
<1> DEFINE S == {size} \cup ((start .. size - 1) \ bits)
           r == Min(S)
<1>1. S \in SUBSET Nat /\ S # {} /\ size \in S
  OBVIOUS
<1>2. r \in S /\ \A y \in S : r <= y
  <2> HIDE DEF S
  <2> QED
    BY <1>1, MinFacts
<1> HIDE DEF r
<1>3. r \in start .. size /\ (r < size => r \notin bits)
  BY <1>2
<1>4. \A k \in start .. r - 1 : k \in bits
  BY <1>2, <1>3
<1> QED
  BY <1>3, <1>4 DEF find_next_zero_bit, r

\* There is only one such place.
LEMMA ZeroBitUnique ==
  ASSUME NEW bits, NEW size \in Nat, NEW start \in 0 .. size, NEW r \in start .. size,
         r < size => r \notin bits, \A k \in start .. r - 1 : k \in bits
  PROVE  find_next_zero_bit(bits, size, start) = r
<1> DEFINE q == find_next_zero_bit(bits, size, start)
<1>1. q \in start .. size /\ (q < size => q \notin bits) /\ \A k \in start .. q - 1 : k \in bits
  BY ZeroBit
<1> HIDE DEF q
<1>2. ~(q < r) /\ ~(r < q)
  BY <1>1
<1> QED
  BY <1>1, <1>2 DEF q

\* find_next_fd: skipping the full words hides no free descriptor and finds no
\* open one, whatever the word size: the search through both bitmaps ends where
\* a search of open_fds alone would.
THEOREM TwoLevelSearch ==
  ASSUME NEW S, NEW f, IsTable(f, S), FullExact(f), NEW start \in Fds
  PROVE  find_next_fd(f, start) = find_next_zero_bit(f.open, max_fds, start)
<1> DEFINE B == BITS_PER_LONG
           W == max_fds \div BITS_PER_LONG
           s == start \div BITS_PER_LONG
           w == find_next_zero_bit(f.full, W, s)
           word == w * B
           m == IF word > start THEN word ELSE start
           r == find_next_zero_bit(f.open, max_fds, m)
<1>1. B \in Nat \ {0} /\ max_fds \in Nat \ {0} /\ W \in Nat /\ W * B = max_fds
  BY TableSizes
<1>2. start \in Nat /\ start < max_fds
  BY <1>1 DEF Fds
<1>3. s \in Nat /\ s < W
  <2>1. start < W * B
    BY <1>1, <1>2
  <2> HIDE DEF W
  <2> QED
    BY <1>1, <1>2, <2>1, DivRem, WordBounds, Zenon
<1>4. w \in s .. W /\ \A k \in s .. w - 1 : k \in f.full
  <2> HIDE DEF s, W
  <2> QED
    BY <1>1, <1>3, ZeroBit
<1>5. word \in Nat /\ word <= max_fds
  <2> HIDE DEF w, W, B
  <2>1. w \in Nat /\ (W - w) * B >= 0 /\ W * B = (W - w) * B + w * B
    BY <1>1, <1>3, <1>4
  <2> QED
    BY <1>1, <2>1
<1>6. ASSUME NEW k \in start .. m - 1 PROVE k \in f.open
  <2>1. k \in Nat /\ k < word /\ start <= k /\ k \in Fds
    <3> HIDE DEF word
    <3> QED
      BY <1>1, <1>2, <1>5 DEF Fds
  <2>2. k \div B < w
    <3> HIDE DEF w
    <3> QED
      BY <1>1, <1>3, <1>4, <2>1, WordBounds
  <2>3. s <= k \div B
    <3>1. s * B <= start
      BY <1>1, <1>2, <1>3, WordBounds
    <3> HIDE DEF s
    <3>2. s * B \in Nat /\ s * B <= k
      BY <1>1, <1>2, <1>3, <2>1, <3>1
    <3> QED
      BY <1>1, <1>3, <2>1, <3>2, WordBounds
  <2>4. k \div B \in s .. w - 1 /\ k \div B \in Words
    <3>1. k \div B \in Nat
      BY <1>1, <2>1, DivRem
    <3> HIDE DEF s, w
    <3> QED
      BY <1>1, <1>3, <1>4, <2>2, <2>3, <3>1 DEF Words
  <2>5. WordOf(k \div B) \subseteq f.open
    BY <1>4, <2>4 DEF FullExact
  <2> QED
    BY <2>1, <2>5 DEF WordOf
<1>7. m \in start .. max_fds /\ m \in Nat
  <2> HIDE DEF word
  <2> QED
    BY <1>1, <1>2, <1>5
<1>8. r \in m .. max_fds /\ (r < max_fds => r \notin f.open) /\ \A k \in m .. r - 1 : k \in f.open
  <2> HIDE DEF m
  <2> QED
    BY <1>1, <1>7, ZeroBit
<1> HIDE DEF r, m
<1>9. find_next_zero_bit(f.open, max_fds, start) = r
  <2>1. r \in start .. max_fds /\ start \in 0 .. max_fds
    BY <1>1, <1>2, <1>7, <1>8
  <2>2. \A k \in start .. r - 1 : k \in f.open
    <3>1. \A k \in start .. r - 1 : k \in start .. m - 1 \/ k \in m .. r - 1
      BY <1>2, <1>7, <1>8
    <3> QED
      BY <3>1, <1>6, <1>8
  <2> QED
    BY <1>1, <1>8, <2>1, <2>2, ZeroBitUnique
<1>10. Max({start, word}) = m
  <2> HIDE DEF word
  <2>1. \E x \in {start, word} : \A y \in {start, word} : x >= y
    BY <1>2, <1>5
  <2>2. /\ Max({start, word}) \in {start, word}
        /\ \A y \in {start, word} : Max({start, word}) >= y
    BY <2>1 DEF Max
  <2> QED
    BY <1>2, <1>5, <2>2 DEF m
<1>11. find_next_fd(f, start) = r
  <2>1. find_next_fd(f, start) =
          IF word > max_fds THEN max_fds
          ELSE find_next_zero_bit(f.open, max_fds, Max({start, word}))
    BY DEF find_next_fd
  <2> HIDE DEF word
  <2> QED
    BY <1>1, <1>5, <1>10, <2>1 DEF r
<1> QED
  BY <1>9, <1>11

-----------------------------------------------------------------------------
(* Allocation.                                                             *)

\* __set_open_fd keeps the bitmap of full words right.
LEMMA SetOpenFd ==
  ASSUME NEW S, NEW f, IsTable(f, S), FullExact(f), NEW fd \in Fds
  PROVE  LET g == set_open_fd(f, fd)
         IN  IsTable(g, S) /\ FullExact(g)
<1> DEFINE v == fd \div BITS_PER_LONG
           g == set_open_fd(f, fd)
<1>1. v \in Words
  <2>1. /\ BITS_PER_LONG \in Nat \ {0} /\ fd \in Nat /\ max_fds \div BITS_PER_LONG \in Nat
        /\ fd < (max_fds \div BITS_PER_LONG) * BITS_PER_LONG
    BY TableSizes DEF Fds
  <2>2. v \in Nat /\ v < max_fds \div BITS_PER_LONG
    BY <2>1, DivRem, WordBounds, Zenon
  <2> QED
    BY <2>1, <2>2 DEF Words
<1>2. /\ g.open = f.open \cup {fd}
      /\ g.full = IF WordOf(v) \subseteq f.open \cup {fd} THEN f.full \cup {v} ELSE f.full
  BY DEF set_open_fd, IsTable
<1>3. g \in [fd : [Fds -> Nat], open : SUBSET Fds, full : SUBSET Words, next : Nat,
             cloexec : SUBSET Fds, files : S]
  BY <1>1, Zenon DEF set_open_fd, IsTable
<1>4. ASSUME NEW w \in Words PROVE (w \in g.full) <=> (WordOf(w) \subseteq g.open)
  <2>1. (w \in f.full) <=> (WordOf(w) \subseteq f.open)
    BY DEF FullExact
  <2>2. CASE w = v
    BY <1>2, <2>1, <2>2
  <2>3. CASE w # v
    <3>1. fd \notin WordOf(w)
      BY <2>3 DEF WordOf
    <3> QED
      BY <1>2, <2>1, <2>3, <3>1
  <2> QED
    BY <2>2, <2>3
<1> QED
  BY <1>3, <1>4 DEF IsTable, FullExact

\* The table of init_files is consistent: no word is full, for none is empty.
LEMMA FreshTable ==
  ASSUME NEW S, <<>> \in S
  PROVE  IsTable(init_files, S) /\ FdInv(init_files)
<1>1. BITS_PER_LONG \in Nat \ {0} /\ max_fds \in Nat \ {0}
  BY TableSizes
<1>2. IsTable(init_files, S)
  BY DEF IsTable, init_files
<1>3. ASSUME NEW w \in Words PROVE \E fd \in Fds : fd \in WordOf(w)
  <2> DEFINE W == max_fds \div BITS_PER_LONG
  <2>1. w \in Nat /\ W \in Nat /\ w + 1 <= W /\ W * BITS_PER_LONG = max_fds
    BY TableSizes DEF Words
  <2> HIDE DEF W
  <2> DEFINE x == w * BITS_PER_LONG
  <2>2. x \in Nat /\ (w + 1) * BITS_PER_LONG = x + BITS_PER_LONG /\ w + 1 \in Nat
    BY <1>1, <2>1
  <2>3. (W - (w + 1)) * BITS_PER_LONG >= 0
          /\ W * BITS_PER_LONG = (W - (w + 1)) * BITS_PER_LONG + (w + 1) * BITS_PER_LONG
    BY <1>1, <2>1
  <2>4. x \in Fds /\ x < (w + 1) * BITS_PER_LONG
    BY <1>1, <2>1, <2>2, <2>3 DEF Fds
  <2>5. w <= x \div BITS_PER_LONG /\ x \div BITS_PER_LONG < w + 1 /\ x \div BITS_PER_LONG \in Nat
    BY <1>1, <2>1, <2>2, <2>4, WordBounds, DivRem
  <2>6. x \div BITS_PER_LONG = w
    BY <2>1, <2>5
  <2> QED
    BY <2>4, <2>6 DEF WordOf
<1>4. FullExact(init_files)
  BY <1>3 DEF FullExact, init_files
<1>5. \A fd \in Fds : ~(fd < 0)
  BY <1>1 DEF Fds
<1> QED
  BY <1>2, <1>4, <1>5 DEF FdInv, init_files

\* __alloc_fd finds the lowest free descriptor; it reports none, at the end of
\* the table, only when every descriptor is open.
THEOREM LowestDescriptor ==
  ASSUME NEW S, NEW f, IsTable(f, S), FdInv(f)
  PROVE  /\ FoundFd(f) \in Nat
         /\ \A fd \in Fds : fd < FoundFd(f) => fd \in f.open
         /\ FoundFd(f) < max_fds => FoundFd(f) \in Fds /\ FoundFd(f) \notin f.open
<1>1. f.next \in Nat /\ max_fds \in Nat \ {0}
  BY TableSizes DEF IsTable
<1>2. CASE f.next < max_fds
  <2>1. f.next \in Fds /\ f.next \in 0 .. max_fds
    BY <1>1, <1>2 DEF Fds
  <2>2. FoundFd(f) = find_next_zero_bit(f.open, max_fds, f.next)
    BY <1>2, <2>1, TwoLevelSearch DEF FoundFd, FdInv
  <2> DEFINE r == find_next_zero_bit(f.open, max_fds, f.next)
  <2>3. /\ r \in f.next .. max_fds /\ (r < max_fds => r \notin f.open)
        /\ \A k \in f.next .. r - 1 : k \in f.open
    BY <1>1, <2>1, ZeroBit
  <2> HIDE DEF r
  <2>4. \A fd \in Fds : fd < r => fd < f.next \/ fd \in f.next .. r - 1
    BY <1>1, <2>3 DEF Fds
  <2>5. \A fd \in Fds : fd < r => fd \in f.open
    BY <2>3, <2>4 DEF FdInv
  <2>6. r \in Nat /\ (r < max_fds => r \in Fds)
    BY <1>1, <2>3 DEF Fds
  <2> QED
    BY <2>2, <2>3, <2>5, <2>6 DEF r
<1>3. CASE ~(f.next < max_fds)
  <2>1. FoundFd(f) = f.next
    BY <1>3 DEF FoundFd
  <2> QED
    BY <1>1, <1>3, <2>1 DEF FdInv
<1> QED
  BY <1>2, <1>3

\* Allocating a descriptor and installing a file keeps the table consistent, and
\* the slot __fd_install writes is empty: its BUG_ON is not reached.
THEOREM InstallKeepsTable ==
  ASSUME NEW S, NEW f, IsTable(f, S), FdInv(f), FoundFd(f) < max_fds, NEW file \in Nat \ {0}
  PROVE  /\ f.fd[FoundFd(f)] = 0
         /\ IsTable(init_dup(f, file), S) /\ FdInv(init_dup(f, file))
<1> DEFINE fd == FoundFd(f)
           g == set_open_fd(f, fd)
           h == init_dup(f, file)
<1>1. fd \in Fds /\ fd \notin f.open /\ fd \in Nat /\ \A k \in Fds : k < fd => k \in f.open
  BY LowestDescriptor
<1> HIDE DEF fd
<1>2. IsTable(g, S) /\ FullExact(g)
  BY <1>1, SetOpenFd DEF FdInv
<1>3. g.fd = f.fd /\ g.open = f.open \cup {fd}
  BY DEF set_open_fd, IsTable
<1>4. h = [[g EXCEPT !.next = fd + 1, !.cloexec = g.cloexec \ {fd}] EXCEPT !.fd[fd] = file]
  BY DEF init_dup, alloc_fd, fd_install, fd
<1> HIDE DEF g, h
<1>5. /\ h.open = g.open /\ h.full = g.full /\ h.next = fd + 1
      /\ h.fd = [g.fd EXCEPT ![fd] = file]
      /\ h \in [fd : [Fds -> Nat], open : SUBSET Fds, full : SUBSET Words, next : Nat,
                cloexec : SUBSET Fds, files : S]
  <2>1. g \in [fd : [Fds -> Nat], open : SUBSET Fds, full : SUBSET Words, next : Nat,
               cloexec : SUBSET Fds, files : S]
    BY <1>2 DEF IsTable
  <2>2. /\ [g.fd EXCEPT ![fd] = file] \in [Fds -> Nat] /\ g.cloexec \ {fd} \in SUBSET Fds
        /\ fd + 1 \in Nat
    BY <1>1, <2>1
  <2>3. h = [g EXCEPT !.next = fd + 1, !.cloexec = g.cloexec \ {fd},
                      !.fd = [g.fd EXCEPT ![fd] = file]]
    BY <1>4, <2>1
  <2> QED
    BY <2>1, <2>2, <2>3, Zenon
<1>6. FullExact(h)
  BY <1>2, <1>5 DEF FullExact
<1>7. \A k \in Fds : k < h.next => k \in h.open
  <2>1. \A k \in Fds : k < fd + 1 => k < fd \/ k = fd
    BY <1>1 DEF Fds
  <2> QED
    BY <1>1, <1>3, <1>5, <2>1
<1>8. \A k \in Fds : h.fd[k] = IF k = fd THEN file ELSE f.fd[k]
  BY <1>1, <1>3, <1>5 DEF IsTable
<1>9. \A k \in Fds : (k \in h.open) <=> (h.fd[k] # 0)
  BY <1>1, <1>3, <1>5, <1>8 DEF FdInv
<1>10. f.fd[fd] = 0
  BY <1>1 DEF FdInv
<1> QED
  BY <1>5, <1>6, <1>7, <1>9, <1>10 DEF IsTable, FdInv, fd, h
=============================================================================
