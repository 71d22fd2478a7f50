------------------------------- MODULE Dcache -------------------------------
(***************************************************************************)
(* Dentries, inodes and superblocks (dcache/dcache.c, fs/inode.c,          *)
(* fs/super.c, ramfs, procfs, ext2) as functions on one record t of kernel *)
(* tables:                                                                 *)
(*   t.D   dentries      t.I   inodes      t.S   superblocks               *)
(*   t.M   mounts        t.H   mount_hashtable    t.P   mountpoints        *)
(* Objects are numbered in the order of their allocation and never freed;  *)
(* 0 is the NULL pointer.  Hash chains are searched through, so a chain is *)
(* the set of its members.                                                 *)
(***************************************************************************)
EXTENDS Integers, Sequences, FiniteSets, FiniteSetsExt

CONSTANTS
  PerSlab,     \* dentries in a slab; the last one is handed out with the slab's
               \* freelist in its first bytes, so d_flags is not zero
  Disk,        \* the ext2 volume: inode number -> [kind, pages], a page being a
               \* sequence of entries [name, ino, off] and end, its last byte
  RecLen(_)    \* EXT2_DIR_REC_LEN of a name

ASSUME DcacheAssumption ==
  /\ PerSlab \in Nat \ {0}
  /\ 2 \in DOMAIN Disk /\ Disk[2].kind = "dir"

Slash == "/"
LongName == "long"      \* a name longer than EXT2_NAME_LEN
EXT2_ROOT_INO == 2

(* struct dentry.  managed: a bit of DCACHE_MANAGED_DENTRY other than       *)
(* DCACHE_MOUNTED is set.  No code sets one; the freelist 00 01 02 03 leaves *)
(* one, DCACHE_NEED_AUTOMOUNT, in the uninitialised d_flags.                *)
Dentry(sb, name, self) ==
  [sb |-> sb, name |-> name, parent |-> self, inode |-> 0, type |-> "miss",
   hashed |-> FALSE, par_lookup |-> FALSE, alias |-> FALSE, mounted |-> FALSE,
   managed |-> self % PerSlab = 0]

(* __d_alloc, d_alloc_anon *)
d_alloc_(t, sb, name) ==
  [t EXCEPT !.D = Append(@, Dentry(sb, name, Len(@) + 1))]

NewDentry(t) == Len(t.D)      \* the dentry d_alloc_ just made
IS_ROOT(t, d) == t.D[d].parent = d
d_unlinked(t, d) == ~t.D[d].hashed /\ ~IS_ROOT(t, d)
d_can_lookup(t, d) == t.D[d].type = "dir"

d_flags_for_inode(t, i) ==
  IF i = 0 THEN "miss"
  ELSE IF t.I[i].kind = "dir" THEN "dir"
  ELSE IF t.I[i].kind = "reg" THEN "reg" ELSE "special"

d_instantiate(t, d, i) ==
  IF i = 0 THEN t
  ELSE [t EXCEPT !.D[d].inode = i, !.D[d].type = d_flags_for_inode(t, i)]

(* d_make_root: an anonymous dentry, its own parent, never hashed *)
d_make_root(t, i) ==
  LET u == d_alloc_(t, t.I[i].sb, Slash) IN d_instantiate(u, NewDentry(u), i)

(* __d_lookup, d_lookup, __d_lookup_rcu *)
d_lookup(t, parent, name) ==
  LET hits == {d \in DOMAIN t.D : /\ t.D[d].parent = parent /\ t.D[d].hashed
                                  /\ t.D[d].name = name}
  IN IF hits = {} THEN 0 ELSE Max(hits)

d_alloc(t, parent, name) ==
  LET u == d_alloc_(t, t.D[parent].sb, name)
  IN [u EXCEPT !.D[NewDentry(u)].parent = parent]

(* __d_lookup_done: off the in-lookup table *)
d_lookup_done(t, d) == [t EXCEPT !.D[d].par_lookup = FALSE]

(* __d_add: attach to the inode's aliases and hash; a negative dentry is    *)
(* hashed too                                                              *)
d_add(t, d, i) ==
  LET u == d_lookup_done(t, d)
  IN [d_instantiate(u, d, i) EXCEPT !.D[d].alias = (i # 0), !.D[d].hashed = TRUE]

(* d_alloc_parallel: a new dentry is allocated before the table of lookups in *)
(* progress is searched; what is found there is returned instead            *)
InLookup(t, parent, name) ==
  {d \in DOMAIN t.D : /\ t.D[d].par_lookup /\ t.D[d].parent = parent
                      /\ t.D[d].name = name}

d_alloc_parallel(t, parent, name) ==
  LET u == d_alloc(t, parent, name) old == InLookup(t, parent, name)
  IN IF old # {} THEN [t |-> u, d |-> Max(old)]
     ELSE [t |-> [u EXCEPT !.D[NewDentry(u)].par_lookup = TRUE], d |-> NewDentry(u)]

(* d_set_mounted: an unhashed ancestor or an unlinked dentry is refused *)
Ancestors(t, d) ==
  LET up[n \in 0..Len(t.D)] == IF n = 0 THEN t.D[d].parent ELSE t.D[up[n - 1]].parent
  IN {up[n] : n \in 0..Len(t.D)}

d_set_mounted(t, d) ==
  IF \/ \E p \in Ancestors(t, d) : ~IS_ROOT(t, p) /\ ~t.D[p].hashed
     \/ d_unlinked(t, d)
  THEN t ELSE [t EXCEPT !.D[d].mounted = TRUE]

(* d_splice_alias panics when a directory already has a dentry *)
HasAlias(t, i) ==
  /\ i # 0 /\ t.I[i].kind = "dir"
  /\ \E d \in DOMAIN t.D : t.D[d].alias /\ t.D[d].inode = i
-----------------------------------------------------------------------------
(* Inodes.  start is ext2's i_dir_start_lookup, which nothing initialises;  *)
(* bdev the block device's inode once bd_acquire has found it.              *)
Inode(sb, ino, kind, rdev, hashed, start) ==
  [sb |-> sb, ino |-> ino, kind |-> kind, rdev |-> rdev, hashed |-> hashed,
   start |-> start, bdev |-> 0]

(* new_inode, which hashes nothing *)
new_inode(t, sb, kind, rdev) ==
  [t EXCEPT !.I = Append(@, Inode(sb, 0, kind, rdev, FALSE, 0))]

NewInode(t) == Len(t.I)

find_inode_fast(t, sb, ino) ==
  {i \in DOMAIN t.I : t.I[i].hashed /\ t.I[i].sb = sb /\ t.I[i].ino = ino}

\* Mutant of ext2_iget: the inode hash is not searched.
ext2_igetNew(t, sb, ino, junk) ==
  [t EXCEPT !.I = Append(@, Inode(sb, ino, Disk[ino].kind, 0, TRUE, junk))]

(* iget_locked, then what ext2_iget reads from the disk: I_NEW is never     *)
(* cleared, so a second ext2_iget fills the inode again with the same data  *)
ext2_iget(t, sb, ino, junk) ==
  IF find_inode_fast(t, sb, ino) # {} THEN t
  ELSE [t EXCEPT !.I = Append(@, Inode(sb, ino, Disk[ino].kind, 0, TRUE, junk))]

InodeAt(t, sb, ino) == Max(find_inode_fast(t, sb, ino))

(* ilookup5 and iget5_locked on the block device superblock: one inode per   *)
(* device number (bdev_test, bdev_set, bdget)                               *)
find_inode(t, sb, dev) ==
  {i \in DOMAIN t.I : t.I[i].hashed /\ t.I[i].sb = sb /\ t.I[i].rdev = dev}

bdget(t, dev) ==
  IF find_inode(t, 1, dev) # {} THEN t
  ELSE [t EXCEPT !.I = Append(@, Inode(1, 0, "blk", dev, TRUE, 0))]

(* bd_acquire: the device's inode, cached in the special file's *)
bd_acquire(t, i) ==
  IF t.I[i].bdev # 0 THEN t
  ELSE LET u == bdget(t, t.I[i].rdev)
       IN [u EXCEPT !.I[i].bdev = Max(find_inode(u, 1, t.I[i].rdev))]
-----------------------------------------------------------------------------
(* ext2 directories *)
Pages(ino) == Disk[ino].pages

(* Page n's entries that the loop of ext2_find_entry looks at for name and  *)
(* that ext2_match accepts                                                 *)
ext2_match(ino, n, name) ==
  {k \in DOMAIN Pages(ino)[n].entries :
     LET de == Pages(ino)[n].entries[k]
     IN de.off <= Pages(ino)[n].end - RecLen(name) /\ de.ino # 0 /\ de.name = name}

\* Mutant of ext2_find_entry: the search does not go round to the first page.
ext2_find_entryOnce(ino, start, name) ==
  LET np == Len(Pages(ino))
      s0 == IF start >= np THEN 0 ELSE start
      hits == {n \in s0 + 1..np : ext2_match(ino, n, name) # {}}
  IN IF hits = {} THEN [ino |-> 0, start |-> start]
     ELSE [ino |-> Pages(ino)[Min(hits)].entries[Min(ext2_match(ino, Min(hits), name))].ino,
           start |-> Min(hits) - 1]

(* ext2_find_entry: pages from start round to start; the page that had the  *)
(* entry is where the next search starts.  dir_pages is never 0 and never   *)
(* more than the directory's blocks on a volume that ext2_fill_super took.  *)
ext2_find_entry(ino, start, name) ==
  LET np == Len(Pages(ino))
      s0 == IF start >= np THEN 0 ELSE start
      page(k) == ((s0 + k) % np) + 1
      hits == {k \in 0..np - 1 : ext2_match(ino, page(k), name) # {}}
  IN IF hits = {} THEN [ino |-> 0, start |-> start]
     ELSE LET n == page(Min(hits))
          IN [ino |-> Pages(ino)[n].entries[Min(ext2_match(ino, n, name))].ino,
              start |-> n - 1]
=============================================================================
