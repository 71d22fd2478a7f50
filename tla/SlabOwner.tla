----------------------------- MODULE SlabOwner ------------------------------
(***************************************************************************)
(* The proof that every step of Slab keeps one owner per object.           *)
(***************************************************************************)
EXTENDS SlabTypes

-----------------------------------------------------------------------------
(* Ownership.  Owned(h, e, lo, n, pg) says that the callers' set h, the     *)
(* slots lo .. n-1 of the array e and the freelists of the pages pg own     *)
(* every object of the slabs exactly once.  OneOwner is an instance of it   *)
(* in each phase of the calls, and each step moves an object within it.     *)
FreeOf(g) == {g.fl[k] : k \in g.active .. Num - 1}

OwnedFl(pg) ==
  \A p \in Pages : pg[p].slab =>
    \A j, k \in pg[p].active .. Num - 1 : pg[p].fl[j] = pg[p].fl[k] => j = k
OwnedSlots(h, e, lo, n) ==
  /\ \A j, k \in lo .. n - 1 : e[j] = e[k] => j = k
  /\ \A k \in lo .. n - 1 : e[k] \notin h
OwnedAll(h, e, lo, n, pg) ==
  \A p \in Pages, x \in Idx :
    <<p, x>> \in h \/ (\E k \in lo .. n - 1 : e[k] = <<p, x>>)
      <=> pg[p].slab /\ x \notin FreeOf(pg[p])
Owned(h, e, lo, n, pg) ==
  OwnedFl(pg) /\ OwnedSlots(h, e, lo, n) /\ OwnedAll(h, e, lo, n, pg)

\* return ac->entry[--ac->avail]: the last slot moves to the callers.
LEMMA PopOwned ==
  ASSUME NEW h, NEW e, NEW n \in Nat \ {0}, NEW pg, Owned(h, e, 0, n, pg),
         NEW f, \A k \in 0 .. n - 2 : f[k] = e[k]
  PROVE  Owned(h \cup {e[n - 1]}, f, 0, n - 1, pg)
<1>0. /\ 0 .. n - 1 - 1 = 0 .. n - 2 /\ n - 1 \in 0 .. n - 1
      /\ \A k \in 0 .. n - 2 : k \in 0 .. n - 1 /\ k # n - 1
      /\ \A k \in 0 .. n - 1 : k \in 0 .. n - 2 \/ k = n - 1
  OBVIOUS
<1>1. OwnedSlots(h \cup {e[n - 1]}, f, 0, n - 1)
  BY <1>0 DEF Owned, OwnedSlots
<1>2. OwnedAll(h \cup {e[n - 1]}, f, 0, n - 1, pg)
  <2> SUFFICES ASSUME NEW p \in Pages, NEW x \in Idx
               PROVE  <<p, x>> \in h \cup {e[n - 1]}
                        \/ (\E k \in 0 .. n - 1 - 1 : f[k] = <<p, x>>)
                        <=> pg[p].slab /\ x \notin FreeOf(pg[p])
    BY Zenon DEF OwnedAll
  <2>1. <<p, x>> \in h \/ (\E k \in 0 .. n - 1 : e[k] = <<p, x>>)
          <=> pg[p].slab /\ x \notin FreeOf(pg[p])
    BY DEF Owned, OwnedAll
  <2>2. (\E k \in 0 .. n - 1 : e[k] = <<p, x>>)
          <=> (\E k \in 0 .. n - 2 : f[k] = <<p, x>>) \/ e[n - 1] = <<p, x>>
    BY <1>0
  <2> QED
    BY <1>0, <2>1, <2>2
<1> QED
  BY <1>1, <1>2 DEF Owned

\* ac->entry[ac->avail++] = objp: an object of the callers gets a new slot.
LEMMA PushOwned ==
  ASSUME NEW h, NEW e, NEW n \in Nat, NEW pg, Owned(h, e, 0, n, pg),
         NEW o \in h, NEW f, \A k \in 0 .. n - 1 : f[k] = e[k], f[n] = o
  PROVE  Owned(h \ {o}, f, 0, n + 1, pg)
<1>0. /\ 0 .. n + 1 - 1 = 0 .. n /\ n \in 0 .. n
      /\ \A k \in 0 .. n - 1 : k \in 0 .. n /\ k # n
      /\ \A k \in 0 .. n : k \in 0 .. n - 1 \/ k = n
  OBVIOUS
<1>1. OwnedSlots(h \ {o}, f, 0, n + 1)
  BY <1>0 DEF Owned, OwnedSlots
<1>2. OwnedAll(h \ {o}, f, 0, n + 1, pg)
  <2> DEFINE rest == h \ {o}
             m == n + 1
  <2> HIDE DEF rest, m
  <2> SUFFICES ASSUME NEW p \in Pages, NEW x \in Idx
               PROVE  <<p, x>> \in rest \/ (\E k \in 0 .. m - 1 : f[k] = <<p, x>>)
                        <=> pg[p].slab /\ x \notin FreeOf(pg[p])
    BY Zenon DEF OwnedAll, rest, m
  <2>1. <<p, x>> \in h \/ (\E k \in 0 .. n - 1 : e[k] = <<p, x>>)
          <=> pg[p].slab /\ x \notin FreeOf(pg[p])
    BY Zenon DEF Owned, OwnedAll
  <2>2. (\E k \in 0 .. n : f[k] = <<p, x>>)
          <=> (\E k \in 0 .. n - 1 : e[k] = <<p, x>>) \/ o = <<p, x>>
    BY Zenon, <1>0
  <2> QED
    BY <1>0, <2>1, <2>2 DEF rest, m
<1> QED
  BY <1>1, <1>2 DEF Owned

\* memmove of the array cache: the slots from lo on move to the front.
LEMMA ShiftOwned ==
  ASSUME NEW h, NEW e, NEW n \in Nat, NEW lo \in 0 .. n, NEW pg,
         Owned(h, e, lo, n, pg),
         NEW f, \A k \in 0 .. n - lo - 1 : f[k] = e[k + lo]
  PROVE  Owned(h, f, 0, n - lo, pg)
<1>1. \A k \in 0 .. n - lo - 1 : k + lo \in lo .. n - 1 /\ f[k] = e[k + lo]
  OBVIOUS
<1>2. ASSUME NEW k \in lo .. n - 1
      PROVE  k - lo \in 0 .. n - lo - 1 /\ f[k - lo] = e[k]
  <2>1. k - lo \in 0 .. n - lo - 1 /\ k - lo + lo = k
    OBVIOUS
  <2> QED
    BY <2>1
<1>3. OwnedSlots(h, f, 0, n - lo)
  <2>1. ASSUME NEW j \in 0 .. n - lo - 1, NEW k \in 0 .. n - lo - 1, f[j] = f[k]
        PROVE  j = k
    <3>1. j + lo = k + lo
      BY <1>1, <2>1 DEF Owned, OwnedSlots
    <3> QED
      BY <3>1
  <2>2. \A k \in 0 .. n - lo - 1 : f[k] \notin h
    BY <1>1 DEF Owned, OwnedSlots
  <2> QED
    BY <2>1, <2>2 DEF OwnedSlots
<1>4. OwnedAll(h, f, 0, n - lo, pg)
  <2> SUFFICES ASSUME NEW p \in Pages, NEW x \in Idx
               PROVE  (\E k \in 0 .. n - lo - 1 : f[k] = <<p, x>>)
                        <=> (\E k \in lo .. n - 1 : e[k] = <<p, x>>)
    BY Zenon DEF Owned, OwnedAll
  <2> QED
    BY <1>1, <1>2
<1> QED
  BY <1>3, <1>4 DEF Owned

\* Moving slot lo to the freelist of its page leaves one owner per object.
LEMMA PutOwnedAt ==
  ASSUME NEW h, NEW e, NEW n \in Nat, NEW lo \in 0 .. n - 1, NEW pg,
         Owned(h, e, lo, n, pg), NEW p \in Pages, NEW x \in Idx, e[lo] = <<p, x>>,
         pg[p].slab, x \notin FreeOf(pg[p]), NEW a \in 0 .. Num - 1, pg[p].active = a + 1,
         NEW new, \A q \in Pages : q # p => new[q] = pg[q],
         new[p].slab, new[p].active = a,
         new[p].fl = [k \in a .. Num - 1 |-> IF k = a THEN x ELSE pg[p].fl[k]]
  PROVE  Owned(h, e, lo + 1, n, new)
<1> DEFINE g == new[p]
<1>0. new[p] = g /\ \A q \in Pages : q # p => new[q] = pg[q]
  OBVIOUS
<1>g. g.active = a /\ g.slab
  OBVIOUS
<1>1. /\ a \in a .. Num - 1 /\ g.fl[a] = x
      /\ \A k \in a + 1 .. Num - 1 : k \in a .. Num - 1 /\ g.fl[k] = pg[p].fl[k]
      /\ \A k \in a .. Num - 1 : k = a \/ k \in a + 1 .. Num - 1
  BY SlabAssumption
<1> HIDE DEF g
<1>2. FreeOf(g) = FreeOf(pg[p]) \cup {x}
  BY <1>1, <1>g DEF FreeOf
<1>3. OwnedFl(new)
  <2>1. \A k \in a + 1 .. Num - 1 : g.fl[k] # x
    BY <1>1 DEF FreeOf
  <2>2. \A j, k \in a + 1 .. Num - 1 : pg[p].fl[j] = pg[p].fl[k] => j = k
    BY DEF Owned, OwnedFl
  <2>3. ASSUME NEW j \in a .. Num - 1, NEW k \in a .. Num - 1, g.fl[j] = g.fl[k]
        PROVE  j = k
    <3>1. CASE j = a /\ k # a
      BY <3>1, <2>3, <1>1, <2>1
    <3>2. CASE j # a /\ k = a
      BY <3>2, <2>3, <1>1, <2>1
    <3>3. CASE j # a /\ k # a
      <4>1. j \in a + 1 .. Num - 1 /\ k \in a + 1 .. Num - 1
        BY <3>3, <1>1
      <4> QED
        BY <4>1, <2>2, <2>3, <1>1
    <3> QED
      BY <3>1, <3>2, <3>3
  <2> SUFFICES ASSUME NEW q \in Pages, new[q].slab
               PROVE  \A j, k \in new[q].active .. Num - 1 :
                        new[q].fl[j] = new[q].fl[k] => j = k
    BY DEF OwnedFl
  <2>4. CASE q = p
    BY <2>3, <2>4, <1>0, <1>g
  <2>5. CASE q # p
    BY <2>5, <1>0 DEF Owned, OwnedFl
  <2> QED
    BY <2>4, <2>5
<1>4. /\ lo \in lo .. n - 1
      /\ \A k \in lo + 1 .. n - 1 : k \in lo .. n - 1 /\ k # lo
      /\ \A k \in lo .. n - 1 : k = lo \/ k \in lo + 1 .. n - 1
  OBVIOUS
<1>5. OwnedSlots(h, e, lo + 1, n)
  BY <1>4 DEF Owned, OwnedSlots
<1>6. OwnedAll(h, e, lo + 1, n, new)
  <2> SUFFICES ASSUME NEW q \in Pages, NEW y \in Idx
               PROVE  <<q, y>> \in h \/ (\E k \in lo + 1 .. n - 1 : e[k] = <<q, y>>)
                        <=> new[q].slab /\ y \notin FreeOf(new[q])
    BY Zenon DEF OwnedAll
  <2>1. <<q, y>> \in h \/ (\E k \in lo .. n - 1 : e[k] = <<q, y>>)
          <=> pg[q].slab /\ y \notin FreeOf(pg[q])
    BY Zenon DEF Owned, OwnedAll
  <2>2. CASE <<q, y>> = <<p, x>>
    <3>1. q = p /\ y = x
      BY <2>2
    <3>2. y \in FreeOf(new[q])
      BY <3>1, <1>0, <1>2
    <3>3. <<q, y>> \notin h
      BY <2>2, <1>4 DEF Owned, OwnedSlots
    <3>4. \A k \in lo + 1 .. n - 1 : e[k] # <<q, y>>
      BY <2>2, <1>4 DEF Owned, OwnedSlots
    <3> QED
      BY <3>2, <3>3, <3>4
  <2>3. CASE <<q, y>> # <<p, x>>
    <3>1. (new[q].slab <=> pg[q].slab) /\ (y \in FreeOf(new[q]) <=> y \in FreeOf(pg[q]))
      BY <2>3, <1>0, <1>2, <1>g
    <3>2. (\E k \in lo + 1 .. n - 1 : e[k] = <<q, y>>)
            <=> (\E k \in lo .. n - 1 : e[k] = <<q, y>>)
      BY <2>3, <1>4
    <3> QED
      BY <2>1, <3>1, <3>2
  <2> QED
    BY <2>2, <2>3
<1> QED
  BY <1>3, <1>5, <1>6 DEF Owned

\* slab_put_obj: slot lo moves to the freelist of its page.
Put(e, lo, n, pg, p, x, a, new) ==
  /\ n \in Nat /\ lo \in 0 .. n - 1 /\ p \in Pages /\ x \in Idx /\ e[lo] = <<p, x>>
  /\ pg[p].slab /\ x \notin FreeOf(pg[p]) /\ a \in 0 .. Num - 1
  /\ pg[p].active = a + 1
  /\ \A q \in Pages : q # p => new[q] = pg[q]
  /\ new[p].slab /\ new[p].active = a
  /\ new[p].fl = [k \in a .. Num - 1 |-> IF k = a THEN x ELSE pg[p].fl[k]]

\* slab_put_obj leaves one owner per object.
LEMMA PutOwned ==
  ASSUME NEW h, NEW e, NEW lo, NEW n, NEW pg, NEW p, NEW x, NEW a, NEW new,
         Owned(h, e, lo, n, pg), Put(e, lo, n, pg, p, x, a, new)
  PROVE  Owned(h, e, lo + 1, n, new)
BY PutOwnedAt DEF Put

\* alloc_block: c freelist entries of page p move to new slots.
Taken(e, n, pg, p, a, c, f, m, new) ==
  /\ n \in Nat /\ p \in Pages /\ pg[p].slab
  /\ a \in 0 .. Num - 1 /\ pg[p].active = a /\ pg[p].fl \in [a .. Num - 1 -> Idx]
  /\ c \in 1 .. Num - a /\ m = n + c
  /\ \A k \in 0 .. n - 1 : f[k] = e[k]
  /\ \A k \in n .. m - 1 : f[k] = <<p, pg[p].fl[a + k - n]>>
  /\ \A q \in Pages : q # p => new[q] = pg[q]
  /\ new[p].slab /\ new[p].active = a + c
  /\ new[p].fl = [k \in a + c .. Num - 1 |-> pg[p].fl[k]]

\* They keep one owner each.
LEMMA TakeOwned ==
  ASSUME NEW h, NEW e, NEW n, NEW pg, NEW p, NEW a, NEW c, NEW f, NEW m, NEW new,
         Owned(h, e, 0, n, pg), Taken(e, n, pg, p, a, c, f, m, new)
  PROVE  Owned(h, f, 0, m, new)
<1>a. /\ n \in Nat /\ p \in Pages /\ pg[p].slab
      /\ a \in 0 .. Num - 1 /\ pg[p].active = a /\ pg[p].fl \in [a .. Num - 1 -> Idx]
      /\ c \in 1 .. Num - a /\ m = n + c
      /\ \A k \in 0 .. n - 1 : f[k] = e[k]
      /\ \A k \in n .. m - 1 : f[k] = <<p, pg[p].fl[a + k - n]>>
      /\ \A q \in Pages : q # p => new[q] = pg[q]
      /\ new[p].slab /\ new[p].active = a + c
      /\ new[p].fl = [k \in a + c .. Num - 1 |-> pg[p].fl[k]]
  BY SMTT(60) DEF Taken
<1> USE <1>a
<1> DEFINE g == new[p]
           fl == pg[p].fl
<1> USE SlabAssumption
<1>0. new[p] = g /\ g.active = a + c /\ g.slab /\ \A q \in Pages : q # p => new[q] = pg[q]
  OBVIOUS
<1>1. /\ \A k \in a + c .. Num - 1 : k \in a .. Num - 1 /\ g.fl[k] = fl[k]
      /\ \A j, k \in a .. Num - 1 : fl[j] = fl[k] => j = k
      /\ \A k \in a .. Num - 1 : fl[k] \in Idx
      /\ FreeOf(pg[p]) = {fl[k] : k \in a .. Num - 1}
      /\ FreeOf(g) = {fl[k] : k \in a + c .. Num - 1}
  <2>1. \A k \in a + c .. Num - 1 : k \in a .. Num - 1 /\ g.fl[k] = fl[k]
    OBVIOUS
  <2>2. \A j, k \in a .. Num - 1 : fl[j] = fl[k] => j = k
    BY Zenon DEF Owned, OwnedFl
  <2> QED
    BY <2>1, <2>2 DEF FreeOf
<1>2. /\ \A k \in 0 .. n - 1 : k \in 0 .. m - 1
      /\ \A k \in n .. m - 1 : k \in 0 .. m - 1
      /\ \A k \in 0 .. m - 1 : k \in 0 .. n - 1 \/ k \in n .. m - 1
      /\ \A k \in n .. m - 1 : a + k - n \in a .. Num - 1 /\ a + k - n < a + c
      /\ \A j \in a .. Num - 1 : j < a + c =>
           n + j - a \in n .. m - 1 /\ a + (n + j - a) - n = j
      /\ \A j \in a .. Num - 1 : j < a + c \/ j \in a + c .. Num - 1
  BY SMTT(60)
<1> HIDE DEF g, fl
<1>3. OwnedFl(new)
  <2> SUFFICES ASSUME NEW q \in Pages, new[q].slab
               PROVE  \A j, k \in new[q].active .. Num - 1 :
                        new[q].fl[j] = new[q].fl[k] => j = k
    BY SMTT(60) DEF OwnedFl
  <2>1. CASE q = p
    <3>1. new[q].active = a + c /\ \A k \in a + c .. Num - 1 : new[q].fl[k] = fl[k]
      BY SMTT(60), <2>1, <1>0, <1>1
    <3>2. \A j, k \in a + c .. Num - 1 : fl[j] = fl[k] => j = k
      BY <1>1
    <3>3. ASSUME NEW j \in a + c .. Num - 1, NEW k \in a + c .. Num - 1,
                 new[q].fl[j] = new[q].fl[k]
          PROVE  j = k
      BY <3>1, <3>2, <3>3
    <3>4. new[q].active = a + c
      BY <3>1
    <3> QED
      BY <3>3, <3>4, Zenon
  <2>2. CASE q # p
    <3>1. new[q] = pg[q]
      BY <2>2, <1>0
    <3>2. \A j, k \in pg[q].active .. Num - 1 : pg[q].fl[j] = pg[q].fl[k] => j = k
      BY Zenon, <3>1 DEF Owned, OwnedFl
    <3> QED
      BY <3>1, <3>2, Zenon
  <2> QED
    BY <2>1, <2>2
<1>4. \A k \in n .. m - 1 : f[k] = <<p, fl[a + k - n]>> /\ fl[a + k - n] \in FreeOf(pg[p])
                            /\ fl[a + k - n] \in Idx
  BY ZenonT(60), <1>1, <1>2 DEF fl
<1>5. \A x \in FreeOf(pg[p]) : <<p, x>> \notin h /\ \A k \in 0 .. n - 1 : e[k] # <<p, x>>
  BY <1>1 DEF Owned, OwnedAll
<1>6. OwnedSlots(h, f, 0, m)
  <2>1. ASSUME NEW k \in 0 .. m - 1 PROVE f[k] \notin h
    <3>1. CASE k \in 0 .. n - 1
      BY Zenon, <3>1 DEF Owned, OwnedSlots
    <3>2. CASE k \in n .. m - 1
      <4>1. f[k] = <<p, fl[a + k - n]>> /\ fl[a + k - n] \in FreeOf(pg[p])
        BY <3>2, <1>4
      <4> QED
        BY Zenon, <4>1, <1>5
    <3> QED
      BY <3>1, <3>2, <1>2
  <2>2. ASSUME NEW j \in 0 .. m - 1, NEW k \in 0 .. m - 1, f[j] = f[k]
        PROVE  j = k
    <3>1. CASE j \in 0 .. n - 1 /\ k \in 0 .. n - 1
      BY SMTT(60), <3>1, <2>2 DEF Owned, OwnedSlots
    <3>2. CASE j \in 0 .. n - 1 /\ k \in n .. m - 1
      <4>1. f[k] = <<p, fl[a + k - n]>> /\ fl[a + k - n] \in FreeOf(pg[p])
        BY Zenon, <3>2, <1>4
      <4> QED
        BY ZenonT(60), <4>1, <3>2, <2>2, <1>5
    <3>3. CASE j \in n .. m - 1 /\ k \in 0 .. n - 1
      <4>1. f[j] = <<p, fl[a + j - n]>> /\ fl[a + j - n] \in FreeOf(pg[p])
        BY Zenon, <3>3, <1>4
      <4> QED
        BY ZenonT(60), <4>1, <3>3, <2>2, <1>5
    <3>4. CASE j \in n .. m - 1 /\ k \in n .. m - 1
      <4>1. fl[a + j - n] = fl[a + k - n]
        BY SMTT(60), <3>4, <2>2, <1>4
      <4>2. a + j - n = a + k - n
        BY <3>4, <4>1, <1>1, <1>2
      <4> QED
        BY SMTT(60), <4>2
    <3> QED
      BY SMTT(60), <3>1, <3>2, <3>3, <3>4, <1>2
  <2> QED
    BY Zenon, <2>1, <2>2 DEF OwnedSlots
<1>7. OwnedAll(h, f, 0, m, new)
  <2> SUFFICES ASSUME NEW q \in Pages, NEW x \in Idx
               PROVE  <<q, x>> \in h \/ (\E k \in 0 .. m - 1 : f[k] = <<q, x>>)
                        <=> new[q].slab /\ x \notin FreeOf(new[q])
    BY Zenon DEF OwnedAll
  <2>1. <<q, x>> \in h \/ (\E k \in 0 .. n - 1 : e[k] = <<q, x>>)
          <=> pg[q].slab /\ x \notin FreeOf(pg[q])
    BY Zenon DEF Owned, OwnedAll
  <2>2. (\E k \in 0 .. m - 1 : f[k] = <<q, x>>)
          <=> \/ \E k \in 0 .. n - 1 : e[k] = <<q, x>>
              \/ q = p /\ \E k \in n .. m - 1 : fl[a + k - n] = x
    <3>1. (\E k \in 0 .. m - 1 : f[k] = <<q, x>>)
            <=> \/ \E k \in 0 .. n - 1 : f[k] = <<q, x>>
                \/ \E k \in n .. m - 1 : f[k] = <<q, x>>
      BY Zenon, <1>2
    <3>2. (\E k \in 0 .. n - 1 : f[k] = <<q, x>>)
            <=> (\E k \in 0 .. n - 1 : e[k] = <<q, x>>)
      <4>1. \A k \in 0 .. n - 1 : f[k] = e[k]
        OBVIOUS
      <4> HIDE <1>a
      <4> QED
        BY Zenon, <4>1
    <3>3. \A k \in n .. m - 1 : f[k] = <<q, x>> <=> q = p /\ fl[a + k - n] = x
      BY <1>4
    <3> QED
      BY ZenonT(60), <3>1, <3>2, <3>3
  <2>3. CASE q # p
    BY Zenon, <2>1, <2>2, <2>3, <1>0
  <2>4. CASE q = p
    <3>1. x \in FreeOf(pg[p]) <=> x \in FreeOf(g) \/ \E k \in n .. m - 1 : fl[a + k - n] = x
      <4>1. ASSUME x \in FreeOf(pg[p]), x \notin FreeOf(g)
            PROVE  \E k \in n .. m - 1 : fl[a + k - n] = x
        <5>1. PICK j \in a .. Num - 1 : fl[j] = x
          BY <4>1, <1>1
        <5>2. j < a + c
          BY ZenonT(60), <5>1, <4>1, <1>1, <1>2
        <5>3. n + j - a \in n .. m - 1 /\ a + (n + j - a) - n = j
          BY <5>2, <1>2
        <5>4. fl[a + (n + j - a) - n] = x
          BY Zenon, <5>1, <5>3
        <5> QED
          BY ZenonT(60), <5>3, <5>4
      <4>2. x \in FreeOf(g) => x \in FreeOf(pg[p])
        BY <1>1
      <4>3. (\E k \in n .. m - 1 : fl[a + k - n] = x) => x \in FreeOf(pg[p])
        BY ZenonT(60), <1>4
      <4> QED
        BY Zenon, <4>1, <4>2, <4>3
    <3>2. ASSUME x \in FreeOf(g), NEW k \in n .. m - 1, fl[a + k - n] = x
          PROVE  FALSE
      <4>1. PICK j \in a + c .. Num - 1 : fl[j] = x
        BY SMTT(60), <3>2, <1>1
      <4>2. j = a + k - n
        BY <4>1, <3>2, <1>1, <1>2
      <4> QED
        BY <4>1, <4>2, <1>2
    <3> QED
      BY Zenon, <2>1, <2>2, <2>4, <3>1, <3>2, <1>0
  <2> QED
    BY Zenon, <2>3, <2>4
<1> QED
  BY <1>3, <1>6, <1>7 DEF Owned

\* cache_grow_begin: all objects of a new slab are on its freelist.
LEMMA NewPageOwned ==
  ASSUME NEW h, NEW e, NEW n, NEW pg, DOMAIN pg = Pages, Owned(h, e, 0, n, pg),
         NEW p \in Pages, ~pg[p].slab
  PROVE  Owned(h, e, 0, n, [pg EXCEPT ![p] = CacheInitObjs])
<1> DEFINE new == [pg EXCEPT ![p] = CacheInitObjs]
<1>0. new[p] = CacheInitObjs /\ \A q \in Pages : q # p => new[q] = pg[q]
  OBVIOUS
<1>1. /\ CacheInitObjs.slab = TRUE /\ CacheInitObjs.active = 0
      /\ \A k \in Idx : CacheInitObjs.fl[k] = k
  BY DEF CacheInitObjs
<1> HIDE DEF new
<1>2. FreeOf(new[p]) = Idx
  BY <1>0, <1>1 DEF FreeOf, Idx
<1>3. OwnedFl(new)
  <2> SUFFICES ASSUME NEW q \in Pages, new[q].slab
               PROVE  \A j, k \in new[q].active .. Num - 1 :
                        new[q].fl[j] = new[q].fl[k] => j = k
    BY DEF OwnedFl
  <2>1. CASE q = p
    BY <2>1, <1>0, <1>1 DEF Idx
  <2>2. CASE q # p
    BY <2>2, <1>0 DEF Owned, OwnedFl
  <2> QED
    BY <2>1, <2>2
<1>4. OwnedAll(h, e, 0, n, new)
  <2> SUFFICES ASSUME NEW q \in Pages, NEW x \in Idx
               PROVE  <<q, x>> \in h \/ (\E k \in 0 .. n - 1 : e[k] = <<q, x>>)
                        <=> new[q].slab /\ x \notin FreeOf(new[q])
    BY Zenon DEF OwnedAll
  <2>1. <<q, x>> \in h \/ (\E k \in 0 .. n - 1 : e[k] = <<q, x>>)
          <=> pg[q].slab /\ x \notin FreeOf(pg[q])
    BY DEF Owned, OwnedAll
  <2>2. CASE q = p
    BY <2>1, <2>2, <1>2
  <2>3. CASE q # p
    BY <2>1, <2>3, <1>0
  <2> QED
    BY <2>2, <2>3
<1> QED
  BY <1>3, <1>4 DEF Owned, new

-----------------------------------------------------------------------------
(* OneOwner in the three phases of the calls *)

Quiet  == pc \notin {"flush", "tune"}
InFlush == pc = "flush" /\ i \in Nat /\ avail \in Nat
InTune  == pc = "tune" /\ avail = 0 /\ i \in Nat /\ nr \in Nat
QuietOwned == Owned(held, entry, 0, avail, page)
FlushOwned == Owned(held \cup {objp}, entry, i, avail, page) /\ objp \notin held
TuneOwned  == Owned(held, prev, i, nr, page)

\* The first conjunct of OneOwner in constant-level form.
LEMMA FlPhase == (\A p \in Grown : \A j, k \in page[p].active .. Num - 1 :
                    page[p].fl[j] = page[p].fl[k] => j = k) <=> OwnedFl(page)
  BY DEF OwnedFl, Grown

\* OneOwner when free_block is not running.
LEMMA QuietPhase == Quiet => (OneOwner <=> QuietOwned)
<1> SUFFICES ASSUME Quiet PROVE OneOwner <=> QuietOwned
  OBVIOUS
<1>1. InPrev = {} /\ InHand = {} /\ PrevLive = {}
  BY DEF Quiet, InPrev, InHand, PrevLive
<1>2. \A k \in 0 .. avail - 1 : Live(k)
  BY DEF Quiet, Live
<1>3. InCache = {entry[k] : k \in 0 .. avail - 1}
  BY <1>2 DEF InCache
<1>4. (\A j, k \in 0 .. avail - 1 : Live(j) /\ Live(k) /\ entry[j] = entry[k] => j = k)
      /\ held \cap InCache = {} <=> OwnedSlots(held, entry, 0, avail)
  BY <1>2, <1>3 DEF OwnedSlots
<1>5. (\A p \in Pages, x \in Idx :
         <<p, x>> \in held \cup InCache \cup InPrev \cup InHand
           <=> p \in Grown /\ x \notin FreeIn(p))
      <=> OwnedAll(held, entry, 0, avail, page)
  BY ZenonT(60), <1>1, <1>3 DEF OwnedAll, Grown, FreeIn, FreeOf
<1> QED
  BY Zenon, <1>1, <1>4, <1>5, FlPhase DEF OneOwner, QuietOwned, Owned

\* OneOwner while cache_flusharray runs free_block on the array cache.
LEMMA FlushPhase == InFlush => (OneOwner <=> FlushOwned)
<1> SUFFICES ASSUME pc = "flush", i \in Nat, avail \in Nat
             PROVE  OneOwner <=> FlushOwned
  BY DEF InFlush
<1>1. InPrev = {} /\ InHand = {objp} /\ PrevLive = {}
  BY Zenon DEF InPrev, InHand, PrevLive
<1>2. {k \in 0 .. avail - 1 : Live(k)} = i .. avail - 1
  BY DEF Live
<1>3. InCache = {entry[k] : k \in i .. avail - 1}
  BY <1>2 DEF InCache
<1>4. (\A j, k \in 0 .. avail - 1 : Live(j) /\ Live(k) /\ entry[j] = entry[k] => j = k)
      <=> (\A j, k \in i .. avail - 1 : entry[j] = entry[k] => j = k)
  BY <1>2
<1>5. held \cap InCache = {} /\ InCache \cap InHand = {}
      <=> \A k \in i .. avail - 1 : entry[k] \notin held \cup {objp}
  BY <1>1, <1>3
<1>6. (\A p \in Pages, x \in Idx :
         <<p, x>> \in held \cup InCache \cup InPrev \cup InHand
           <=> p \in Grown /\ x \notin FreeIn(p))
      <=> OwnedAll(held \cup {objp}, entry, i, avail, page)
  BY Zenon, <1>1, <1>3 DEF OwnedAll, Grown, FreeIn, FreeOf
<1>7. held \cap InHand = {} <=> objp \notin held
  BY <1>1
<1> QED
  BY Zenon, <1>1, <1>4, <1>5, <1>6, <1>7, FlPhase DEF OneOwner, FlushOwned, Owned, OwnedSlots

\* OneOwner while do_tune_cpucache runs free_block on the replaced array.
LEMMA TunePhase == InTune => (OneOwner <=> TuneOwned)
<1> SUFFICES ASSUME pc = "tune", avail = 0, i \in Nat, nr \in Nat
             PROVE  OneOwner <=> TuneOwned
  BY DEF InTune
<1>1. InHand = {} /\ PrevLive = i .. nr - 1
  BY DEF InHand, PrevLive
<1>2. InCache = {}
  BY DEF InCache
<1>3. InPrev = {prev[k] : k \in i .. nr - 1}
  BY <1>1 DEF InPrev
<1>4. held \cap InPrev = {} <=> \A k \in i .. nr - 1 : prev[k] \notin held
  BY <1>3
<1>5. (\A p \in Pages, x \in Idx :
         <<p, x>> \in held \cup InCache \cup InPrev \cup InHand
           <=> p \in Grown /\ x \notin FreeIn(p))
      <=> OwnedAll(held, prev, i, nr, page)
  BY ZenonT(60), <1>1, <1>2, <1>3 DEF OwnedAll, Grown, FreeIn, FreeOf
<1>6. \A j, k \in 0 .. avail - 1 : FALSE
  OBVIOUS
<1> QED
  BY Zenon, <1>1, <1>2, <1>4, <1>5, <1>6, FlPhase DEF OneOwner, TuneOwned, Owned, OwnedSlots

\* The same in the next state.
LEMMA PhasesNext ==
  /\ Quiet' => (OneOwner' <=> QuietOwned')
  /\ InFlush' => (OneOwner' <=> FlushOwned')
  /\ InTune' => (OneOwner' <=> TuneOwned')
  BY QuietPhase, FlushPhase, TunePhase, PTL

-----------------------------------------------------------------------------
(* The steps *)

\* Every step keeps one owner per object.
LEMMA OwnerStep ==
  ASSUME SlabInv, Counted, [Next]_vars
  PROVE  OneOwner'
<1> USE SlabAssumption DEF ac, lists, cnt, alloc, free
<1>0. /\ TypeOK /\ Locals /\ OneOwner /\ batchcount \in 1 .. limit
      /\ limit \in Nat \ {0} /\ DOMAIN page = Pages /\ avail \in Nat
      /\ i \in Nat /\ nr \in Nat /\ i <= nr
  BY BatchFits DEF SlabInv, TypeOK
<1>1. ASSUME Quiet PROVE QuietOwned
  BY <1>0, <1>1, QuietPhase
<1>2. ASSUME Quiet', held' = held, entry' = entry, avail' = avail, page' = page, Quiet
      PROVE  OneOwner'
  BY <1>1, <1>2, PhasesNext DEF QuietOwned
<1>3. ASSUME Quiet, Quiet', page' = page, Pop, avail > 0
      PROVE  OneOwner'
  <2>1. QuietOwned'
    <3>1. Owned(held \cup {entry[avail - 1]}, entry', 0, avail - 1, page)
      BY <1>0, <1>1, <1>3, PopOwned DEF QuietOwned, Pop
    <3> QED
      BY <3>1, <1>3 DEF QuietOwned, Pop
  <2> QED
    BY <2>1, <1>3, PhasesNext
<1>4. ASSUME NEW p \in Grown, Quiet, Quiet', held' = held, page[p].active < Num,
             batch \in 1 .. batchcount, avail + batch <= batchcount, AllocBlock(p),
             page' = [page EXCEPT ![p] = FixupPage(p, page[p].active + AllocCount(p))]
      PROVE  OneOwner'
  <2> DEFINE a == page[p].active
             c == AllocCount(p)
             g == FixupPage(p, a + c)
  <2>1. p \in Pages /\ page[p].slab /\ page[p].slab = TRUE
    BY Zenon, <1>0 DEF Grown, TypeOK, PageOK
  <2>2. a \in 0 .. Num - 1 /\ page[p].fl \in [a .. Num - 1 -> Idx]
    BY SMTT(60), <1>0, <1>4, <2>1 DEF TypeOK, PageOK
  <2>3. /\ c \in 1 .. batch /\ a + c \in a + 1 .. Num /\ avail' = avail + c
        /\ \A k \in 0 .. avail - 1 : entry'[k] = entry[k]
        /\ \A k \in avail .. avail' - 1 : entry'[k] = <<p, page[p].fl[a + k - avail]>>
    BY Zenon, <1>0, <1>4, <2>1, AllocBlockFacts
  <2>4. /\ g.slab = TRUE /\ g.active = a + c
        /\ g.fl = [k \in a + c .. Num - 1 |-> page[p].fl[k]]
    BY <2>1 DEF FixupPage
  <2>5. c \in 1 .. Num - a
    BY <2>2, <2>3
  <2> HIDE DEF a, c, g
  <2>6. page[p].active = a
    BY DEF a
  <2>7. Owned(held, entry, 0, avail, page)
    BY <1>1, <1>4 DEF QuietOwned
  <2>9. /\ \A q \in Pages : q # p => page'[q] = page[q]
        /\ page'[p].slab /\ page'[p].active = a + c
        /\ page'[p].fl = [k \in a + c .. Num - 1 |-> page[p].fl[k]]
    <3>1. page'[p] = g /\ \A q \in Pages : q # p => page'[q] = page[q]
      BY <1>0, <1>4, <2>1 DEF g, a, c
    <3> QED
      BY <3>1, <2>4
  <2>8. Owned(held, entry', 0, avail', page')
    <3>1. avail \in Nat /\ DOMAIN page = Pages /\ avail' = avail + c
      BY <1>0, <2>3
    <3>2. /\ \A k \in 0 .. avail - 1 : entry'[k] = entry[k]
          /\ \A k \in avail .. avail' - 1 : entry'[k] = <<p, page[p].fl[a + k - avail]>>
      BY <2>3
    <3> QED
      <4>1. Taken(entry, avail, page, p, a, c, entry', avail', page')
        BY Zenon, <2>1, <2>2, <2>5, <2>6, <2>9, <3>1, <3>2 DEF Taken
      <4> QED
        BY <4>1, <2>7, TakeOwned
  <2> QED
    BY <2>8, <1>4, PhasesNext DEF QuietOwned
<1>5. CASE CacheAlloc
  BY SMTT(60), <1>3, <1>5 DEF CacheAlloc, Quiet
<1>6. CASE CacheAllocEmpty \/ RefillStart \/ RefillDone
  BY <1>2, <1>6 DEF CacheAllocEmpty, RefillStart, RefillDone, Quiet
<1>7. CASE RefillReturn
  BY <1>3, <1>7 DEF RefillReturn, Quiet
<1>8. CASE RefillSlab
  <2> DEFINE p == FirstSlab
  <2>1. p \in Grown /\ page[p].active \in 0 .. Num - 1 /\ page[p].freelist # NULL
    BY SMTT(60), <1>8, FirstSlabFacts DEF RefillSlab
  <2>2. /\ AllocBlock(p) /\ pc = "refill" /\ pc' = pc /\ held' = held
        /\ page' = [page EXCEPT ![p] = FixupPage(p, page[p].active + AllocCount(p))]
    BY SMTT(60), <1>8, <2>1 DEF RefillSlab
  <2>3. batch \in 1 .. batchcount /\ avail + batch <= batchcount
    BY <1>0, <1>8 DEF RefillSlab, Locals, TypeOK
  <2>4. Quiet /\ Quiet' /\ page[p].active < Num
    BY <2>1, <2>2 DEF Quiet
  <2> HIDE DEF p
  <2> QED
    BY Zenon, <1>4, <2>1, <2>2, <2>3, <2>4
<1>9. CASE GrowBegin
  <2>1. CASE pc' = "panic"
    BY <1>2, <1>9, <2>1 DEF GrowBegin, Quiet
  <2>2. CASE pc' # "panic"
    <3>1. PICK p \in Pages \ Grown :
             page' = [page EXCEPT ![p] = CacheInitObjs] /\ pc' = "grow_end"
      BY <1>9, <2>2 DEF GrowBegin
    <3>2. QuietOwned /\ Quiet'
      BY <1>1, <1>9, <3>1 DEF GrowBegin, Quiet
    <3>3. Owned(held, entry, 0, avail, [page EXCEPT ![p] = CacheInitObjs])
      BY Zenon, <1>0, <3>1, <3>2, NewPageOwned DEF QuietOwned, Grown
    <3>4. QuietOwned'
      BY <1>9, <3>1, <3>3 DEF GrowBegin, QuietOwned
    <3> QED
      BY <3>2, <3>4, PhasesNext
  <2> QED
    BY <2>1, <2>2
<1>10. CASE GrowEnd
  <2>1. /\ pc = "grow_end" /\ avail = 0 /\ batch = batchcount /\ cur \in Pages
        /\ page[cur] = CacheInitObjs
    <3>1. pc = "grow_end"
      BY Zenon, <1>10 DEF GrowEnd
    <3> QED
      BY Zenon, <1>0, <3>1 DEF Locals
  <2>2. page[cur].active = 0 /\ page[cur].active < Num /\ cur \in Grown
    BY <2>1 DEF CacheInitObjs, Grown
  <2>3. AllocBlock(cur)
    BY Zenon, <1>10, <2>1 DEF GrowEnd
  <2>4. AllocCount(cur) \in 1 .. batch /\ 0 + AllocCount(cur) = AllocCount(cur)
    BY SMTT(60), <1>0, <2>1, <2>2, <2>3, AllocBlockFacts
  <2>5. /\ page' = [page EXCEPT ![cur] = FixupPage(cur, AllocCount(cur))]
        /\ held' = held /\ pc' = "grow_return"
    BY <1>10, <2>1, <2>4 DEF GrowEnd
  <2>6. page' = [page EXCEPT ![cur] = FixupPage(cur, page[cur].active + AllocCount(cur))]
    BY Zenon, <2>2, <2>4, <2>5
  <2>7. batch \in 1 .. batchcount /\ avail + batch <= batchcount
    BY <1>0, <2>1
  <2> QED
    BY Zenon, <1>4, <2>1, <2>2, <2>3, <2>5, <2>6, <2>7 DEF Quiet
<1>11. CASE GrowReturn
  <2>1. CASE avail > 0
    BY <1>3, <1>11, <2>1 DEF GrowReturn, Quiet
  <2>2. CASE ~(avail > 0)
    BY <1>2, <1>11, <2>2 DEF GrowReturn, Quiet
  <2> QED
    BY <2>1, <2>2
<1>12. CASE CacheFree
  <2>1. PICK o \in held : Push(o) /\ held' = held \ {o}
    BY <1>12 DEF CacheFree
  <2>2. Quiet /\ Quiet' /\ page' = page
    BY <1>12 DEF CacheFree, Quiet
  <2>3. \A k \in 0 .. avail - 1 : entry'[k] = entry[k]
    BY <1>0, <2>1 DEF Push
  <2>4. entry'[avail] = o /\ avail' = avail + 1
    BY SMTT(60), <1>0, <2>1 DEF Push
  <2>5. Owned(held \ {o}, entry', 0, avail + 1, page)
    BY <1>0, <1>1, <2>2, <2>3, <2>4, PushOwned DEF QuietOwned
  <2> QED
    BY <2>1, <2>2, <2>4, <2>5, PhasesNext DEF QuietOwned
<1>13. CASE CacheFreeFull
  <2>1. PICK o \in held : objp' = o /\ held' = held \ {o}
    BY <1>13 DEF CacheFreeFull
  <2>2. Quiet /\ InFlush' /\ page' = page /\ entry' = entry /\ avail' = avail /\ i' = 0
    BY <1>0, <1>13 DEF CacheFreeFull, Quiet, InFlush
  <2>3. held' \cup {objp'} = held /\ objp' \notin held'
    BY <2>1
  <2>4. FlushOwned'
    BY <1>1, <2>2, <2>3 DEF QuietOwned, FlushOwned
  <2> QED
    BY <2>2, <2>4, PhasesNext
<1>14. CASE FreeBlock
  <2> DEFINE o == Objpp[i]
             p == o[1]
             x == o[2]
             g == SlabPutObj(p, x)
  <2>1. /\ o = <<p, x>> /\ p \in Grown /\ p \in Pages
        /\ page[p].slab /\ page[p].slab = TRUE
        /\ x \in Idx /\ x \notin FreeIn(p) /\ page[p].active \in 1 .. Num
    BY Zenon, <1>0, <1>14, FreeBlockFacts DEF FreeBlock, Grown, TypeOK, PageOK
  <2>2. /\ page' = [page EXCEPT ![p] = g] /\ i' = i + 1 /\ i < nr
        /\ UNCHANGED <<entry, avail, objp, prev, nr, held, pc>>
        /\ pc \in {"flush", "tune"}
    BY Zenon, <1>14 DEF FreeBlock
  <2> DEFINE a == page[p].active - 1
  <2>3. a \in 0 .. Num - 1 /\ page[p].active = a + 1
    BY <2>1
  <2>4. /\ g.slab = TRUE /\ g.active = a
        /\ g.fl = [k \in a .. Num - 1 |-> IF k = a THEN x ELSE page[p].fl[k]]
    BY Zenon, <2>1 DEF SlabPutObj
  <2>5. x \notin FreeOf(page[p])
    BY ZenonT(60), <2>1 DEF FreeIn, FreeOf
  <2>8. /\ \A q \in Pages : q # p => page'[q] = page[q]
        /\ page'[p].slab /\ page'[p].active = a
        /\ page'[p].fl = [k \in a .. Num - 1 |-> IF k = a THEN x ELSE page[p].fl[k]]
    <3>1. page'[p] = g /\ \A q \in Pages : q # p => page'[q] = page[q]
      BY <1>0, <2>1, <2>2
    <3> HIDE DEF g
    <3> QED
      BY Zenon, <3>1, <2>4
  <2> HIDE DEF g, x, a
  <2>6. CASE pc = "flush"
    <3>1. InFlush /\ InFlush' /\ i \in 0 .. avail - 1 /\ o = entry[i]
      BY <1>0, <2>2, <2>6 DEF InFlush, Locals, Objpp
    <3>2. FlushOwned
      BY SMTT(30), <1>0, <3>1, FlushPhase
    <3> HIDE DEF o, p
    <3>3. Owned(held \cup {objp}, entry, i + 1, avail, page')
      <4>1. /\ avail \in Nat /\ DOMAIN page = Pages /\ entry[i] = <<p, x>>
            /\ Owned(held \cup {objp}, entry, i, avail, page)
        BY Zenon, <1>0, <3>1, <3>2, <2>1 DEF FlushOwned
      <4> QED
        <5>1. Put(entry, i, avail, page, p, x, a, page')
          BY Zenon, <4>1, <3>1, <2>1, <2>3, <2>4, <2>5, <2>8 DEF Put
        <5> QED
          BY Zenon, <4>1, <5>1, PutOwned
    <3>4. FlushOwned'
      BY <3>2, <3>3, <2>2 DEF FlushOwned
    <3> QED
      BY SMTT(60), <3>1, <3>4, PhasesNext
  <2>7. CASE pc = "tune"
    <3>1. InTune /\ InTune' /\ i \in 0 .. nr - 1 /\ o = prev[i]
      BY <1>0, <2>2, <2>7 DEF InTune, Locals, Objpp
    <3>2. TuneOwned
      BY SMTT(30), <1>0, <3>1, TunePhase
    <3> HIDE DEF o, p
    <3>3. Owned(held, prev, i + 1, nr, page')
      <4>1. /\ nr \in Nat /\ DOMAIN page = Pages /\ prev[i] = <<p, x>>
            /\ Owned(held, prev, i, nr, page)
        BY Zenon, <1>0, <3>1, <3>2, <2>1 DEF TuneOwned
      <4> QED
        <5>1. Put(prev, i, nr, page, p, x, a, page')
          BY Zenon, <4>1, <3>1, <2>1, <2>3, <2>4, <2>5, <2>8 DEF Put
        <5> QED
          BY Zenon, <4>1, <5>1, PutOwned
    <3>4. TuneOwned'
      BY <3>3, <2>2 DEF TuneOwned
    <3> QED
      BY <3>1, <3>4, PhasesNext
  <2> QED
    BY <2>2, <2>6, <2>7
<1>15. CASE FlushDone
  <2>1. /\ pc = "flush" /\ i = nr /\ nr \in 1 .. avail /\ InFlush /\ Quiet'
        /\ page' = page /\ held' = held /\ avail' = avail - nr + 1
    BY <1>0, <1>15 DEF FlushDone, InFlush, Locals, Quiet
  <2>2. Owned(held \cup {objp}, entry, nr, avail, page) /\ objp \notin held
    BY <1>0, <2>1, FlushPhase DEF FlushOwned
  <2> DEFINE e == [k \in 0 .. avail - nr - 1 |-> entry[k + nr]]
             n == avail - nr
  <2>3. Owned(held \cup {objp}, e, 0, n, page)
    <3>1. \A k \in 0 .. avail - nr - 1 : e[k] = entry[k + nr]
      BY SMTT(60)
    <3> HIDE DEF e
    <3> QED
      <4>1. nr \in 0 .. avail
        BY <2>1
      <4> QED
        BY Zenon, <1>0, <2>2, <3>1, <4>1, ShiftOwned
  <2>4. n \in Nat /\ avail' = n + 1
    BY SMTT(60), <1>0, <2>1
  <2>5. entry'[n] = objp
    BY SMTT(60), <1>15, <2>4 DEF FlushDone
  <2>6. \A k \in 0 .. n - 1 : entry'[k] = e[k]
    BY SMTT(60), <1>15, <2>4 DEF FlushDone
  <2> HIDE DEF e, n
  <2>7. Owned((held \cup {objp}) \ {objp}, entry', 0, n + 1, page)
    BY SMTT(60), <2>3, <2>4, <2>5, <2>6, PushOwned
  <2>8. (held \cup {objp}) \ {objp} = held
    BY <2>2
  <2> QED
    BY <2>1, <2>4, <2>7, <2>8, PhasesNext DEF QuietOwned
<1>16. CASE TuneCpucache
  <2>1. /\ Quiet /\ InTune' /\ prev' = entry /\ nr' = avail /\ i' = 0
        /\ page' = page /\ held' = held
    BY <1>0, <1>16 DEF TuneCpucache, InTune, Quiet
  <2>2. TuneOwned'
    BY SMTT(60), <1>1, <2>1 DEF QuietOwned, TuneOwned
  <2> QED
    BY SMTT(60), <2>1, <2>2, PhasesNext
<1>17. CASE TuneDone
  <2>1. /\ pc = "tune" /\ i = nr /\ avail = 0 /\ InTune /\ Quiet'
        /\ page' = page /\ held' = held /\ avail' = avail
    <3>1. /\ pc = "tune" /\ i = nr /\ pc' = "idle"
          /\ page' = page /\ held' = held /\ avail' = avail
      BY Zenon, <1>17 DEF TuneDone, ac
    <3>2. avail = 0
      BY Zenon, <1>0, <3>1 DEF Locals
    <3> QED
      BY <1>0, <3>1, <3>2 DEF InTune, Quiet
  <2>2. Owned(held, prev, nr, nr, page)
    BY SMTT(60), <1>0, <2>1, TunePhase DEF TuneOwned
  <2>3. Owned(held, entry', 0, nr - nr, page)
    <3>1. \A k \in 0 .. nr - nr - 1 : entry'[k] = prev[k + nr]
      BY <1>0
    <3> QED
      BY SMTT(60), <1>0, <2>2, <3>1, ShiftOwned
  <2>4. nr - nr = 0
    BY SMTT(60), <1>0
  <2> QED
    BY SMTT(60), <2>1, <2>3, <2>4, PhasesNext DEF QuietOwned
<1>18. CASE UNCHANGED vars
  <2>1. UNCHANGED <<entry, avail, page, pc, objp, prev, nr, i, held>>
    BY <1>18 DEF vars
  <2>2. CASE Quiet
    BY Zenon, <1>2, <2>1, <2>2 DEF Quiet
  <2>3. CASE InFlush
    <3>1. FlushOwned /\ InFlush'
      BY Zenon, <1>0, <2>1, <2>3, FlushPhase DEF InFlush
    <3> QED
      BY Zenon, <2>1, <3>1, PhasesNext DEF FlushOwned
  <2>4. CASE InTune
    <3>1. TuneOwned /\ InTune'
      BY Zenon, <1>0, <2>1, <2>4, TunePhase DEF InTune
    <3> QED
      BY Zenon, <2>1, <3>1, PhasesNext DEF TuneOwned
  <2>5. Quiet \/ InFlush \/ InTune
    BY Zenon, <1>0 DEF Quiet, InFlush, InTune, Locals
  <2> QED
    BY Zenon, <2>2, <2>3, <2>4, <2>5
<1> QED
  BY <1>5, <1>6, <1>7, <1>8, <1>9, <1>10, <1>11, <1>12, <1>13, <1>14, <1>15,
     <1>16, <1>17, <1>18 DEF Next, RefillStep, FreeStep, Halted
=============================================================================
