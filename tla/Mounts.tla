------------------------------- MODULE Mounts -------------------------------
(***************************************************************************)
(* Superblocks and the mount tree (fs/super.c, fs/fs.c, fs/mount.c).  A    *)
(* place is a pair [mnt, dentry], the kernel's struct path.                *)
(***************************************************************************)
EXTENDS Dcache

Place(mnt, dentry) == [mnt |-> mnt, dentry |-> dentry]

(* struct super_block: its type, the inode of its block device, its root *)
SuperBlock(type, bdev) == [type |-> type, bdev |-> bdev, root |-> 0]
NewSuper(t) == Len(t.S)

(* sget_fc: a superblock that no device and no name will find again *)
sget_fc(t, type) == [t EXCEPT !.S = Append(@, SuperBlock(type, 0))]

(* The root inode of a file system without a device: a directory for ramfs  *)
(* and rootfs, an inode without mode or operations for proc and bdev        *)
ramfs_get_inode(t, sb, kind, rdev) == new_inode(t, sb, kind, rdev)
proc_get_inode(t) == new_inode(t, NewSuper(t), "none", 0)
pseudo_fs_inode(t) == new_inode(t, NewSuper(t), "none", 0)

(* The root dentry becomes s_root *)
SetRoot(t, inode) ==
  LET u == d_make_root(t, inode) IN [u EXCEPT !.S[NewSuper(u)].root = NewDentry(u)]

vfs_get_super(t, type) ==
  LET t1 == sget_fc(t, type)
      t2 == CASE type \in {"ramfs", "rootfs"} -> ramfs_get_inode(t1, NewSuper(t1), "dir", 0)
              [] type = "proc" -> proc_get_inode(t1)
              [] type = "bdev" -> pseudo_fs_inode(t1)
  IN SetRoot(t2, NewInode(t2))

(* sget: a second superblock on the same block device is refused by a panic *)
SuperExists(t, type, bdev) ==
  \E s \in DOMAIN t.S : t.S[s].type = type /\ t.S[s].bdev = bdev

sget(t, type, bdev) == [t EXCEPT !.S = Append(@, SuperBlock(type, bdev))]

(* The volume is one its checks accept: of what it reads the root matters *)
ext2_fill_super(t, junk) ==
  LET u == ext2_iget(t, NewSuper(t), EXT2_ROOT_INO, junk)
  IN SetRoot(u, InodeAt(u, NewSuper(t), EXT2_ROOT_INO))

(* mount_bdev once blkdev_get_by_path has found the device *)
mount_bdev(t, bdev, junk) == ext2_fill_super(sget(t, "ext2", bdev), junk)

(* struct mount, as alloc_vfsmnt clears it *)
Mount(sb, root) ==
  [sb |-> sb, root |-> root, parent |-> 0, point |-> 0, mp |-> 0, mounts |-> <<>>]
NewMount(t) == Len(t.M)

(* vfs_create_mount *)
vfs_create_mount(t, sb) == [t EXCEPT !.M = Append(@, Mount(sb, t.S[sb].root))]

(* vfs_kern_mount, kern_mount of a type without a device *)
vfs_kern_mount(t, type) ==
  LET u == vfs_get_super(t, type) IN vfs_create_mount(u, NewSuper(u))

(* __lookup_mnt: the first of the hash chain, newest first; 0 for none *)
lookup_mnt(t, p) ==
  LET at(m) == t.M[m].parent = p.mnt /\ t.M[m].point = p.dentry
      hits == SelectSeq(t.H, at)
  IN IF hits = <<>> THEN 0 ELSE Head(hits)

(* get_mountpoint: a dentry that is one already only gains a count.  An     *)
(* unlinked dentry marked as a mountpoint would be refused.                 *)
IsMountpoint(t, d) == t.D[d].mounted /\ d \in DOMAIN t.P

get_mountpoint(t, d) ==
  IF IsMountpoint(t, d) THEN [t EXCEPT !.P[d].count = @ + 1]
  ELSE [d_set_mounted(t, d) EXCEPT
          !.P = [x \in DOMAIN @ \cup {d} |->
                   IF x = d THEN [count |-> 1, list |-> <<>>] ELSE t.P[x]]]

(* mnt_set_mountpoint, then __attach_mnt: commit_tree and attach_mnt alike *)
mnt_set_mountpoint(t, parent, d, child) ==
  [t EXCEPT !.P[d] = [count |-> @.count + 1, list |-> <<child>> \o @.list],
            !.M[child].point = d, !.M[child].parent = parent, !.M[child].mp = d]

attach_mnt(t, child, parent, d) ==
  LET u == mnt_set_mountpoint(t, parent, d, child)
  IN [u EXCEPT !.H = <<child>> \o @, !.M[parent].mounts = Append(@, child)]

\* Mutant of unhash_mnt: the mount stays on its mountpoint's list.
unhash_mntListed(t, m) ==
  LET other(x) == x # m
      u == [t EXCEPT !.H = SelectSeq(@, other),
                     !.M = [x \in DOMAIN @ |->
                              [@[x] EXCEPT !.mounts = SelectSeq(@, other)]]]
  IN [u EXCEPT !.M[m].parent = m, !.M[m].point = u.M[m].root, !.M[m].mp = 0]

(* unhash_mnt: off the parent's children, the hash and the mountpoint's list *)
unhash_mnt(t, m) ==
  LET other(x) == x # m
      u == [t EXCEPT !.H = SelectSeq(@, other),
                     !.M = [x \in DOMAIN @ |->
                              [@[x] EXCEPT !.mounts = SelectSeq(@, other)]],
                     !.P = [d \in DOMAIN @ |->
                              [@[d] EXCEPT !.list = SelectSeq(@, other)]]]
  IN [u EXCEPT !.M[m].parent = m, !.M[m].point = u.M[m].root, !.M[m].mp = 0]

mnt_has_parent(t, m) == t.M[m].parent # m

(* attach_recursive_mnt: the moved or new mount's own root becomes a        *)
(* mountpoint as well                                                      *)
attach_recursive_mnt(t, source, dest, d, moving) ==
  LET u == get_mountpoint(t, t.M[source].root)
  IN attach_mnt(IF moving THEN unhash_mnt(u, source) ELSE u, source, dest, d)

(* lock_mount panics when something is already mounted at the place *)
Covered(t, p) == lookup_mnt(t, p) # 0

(* do_add_mount after lock_mount: EBUSY for the same file system on its own  *)
(* root, otherwise the new mount is grafted                                *)
SameOnRoot(t, m, p) == t.M[p.mnt].sb = t.M[m].sb /\ t.M[p.mnt].root = p.dentry

\* Mutant of do_add_mount: the new mount is not attached.
do_add_mountAlone(t, m, p) == get_mountpoint(t, p.dentry)

do_add_mount(t, m, p) ==
  LET u == get_mountpoint(t, p.dentry)
  IN IF SameOnRoot(t, m, p) THEN u
     ELSE attach_recursive_mnt(u, m, p.mnt, p.dentry, FALSE)

(* do_move_mount: the mount the old path is on moves to the new path *)
do_move_mount(t, old, new) ==
  attach_recursive_mnt(get_mountpoint(t, new.dentry), old.mnt, new.mnt, new.dentry,
                       mnt_has_parent(t, old.mnt))

(* __follow_mount_rcu: from place to place while the dentry is a mountpoint  *)
(* with something mounted on it                                            *)
Hop(t, p) ==
  LET m == IF t.D[p.dentry].mounted THEN lookup_mnt(t, p) ELSE 0
  IN IF m # 0 THEN Place(m, t.M[m].root) ELSE p

Hops(t, p) ==
  LET at[n \in 0..Len(t.M)] == IF n = 0 THEN p ELSE Hop(t, at[n - 1]) IN at

follow_mount_rcu(t, p) == Hops(t, p)[Len(t.M)]

(* A dentry that is managed in any way and is no mountpoint:                *)
(* panic("no DCACHE_MOUNTED!")                                             *)
ManagedNotMounted(t, d) == t.D[d].managed /\ ~t.D[d].mounted
NoDcacheMounted(t, p) ==
  \E n \in 0..Len(t.M) : ManagedNotMounted(t, Hops(t, p)[n].dentry)
=============================================================================
