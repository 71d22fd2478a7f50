----------------------------- MODULE NameSpace -----------------------------
(***************************************************************************)
(* The file name space from the first mount to the system calls of the     *)
(* init process (fs/namei.c, fs/mount.c, fs/open.c, rootfs/rootfs.c): path *)
(* walks through the dentry cache and the mount tree, one component a      *)
(* step, and what a call does at the end of its walks.  One thread calls:  *)
(* rootfs's init_module runs to its end before /sbin/init starts, and no   *)
(* system call of this kernel makes another process.                       *)
(***************************************************************************)
EXTENDS Mounts, Files

CONSTANTS
  Syscalls,    \* the calls the init process may make
  MaxCalls     \* bound on their number

ASSUME NameSpaceAssumption == MaxCalls \in Nat

Abs(names) == [abs |-> TRUE, names |-> names]     \* "/a/b"
Rel(names) == [abs |-> FALSE, names |-> names]    \* "a/b"; Rel(<<>>) is ""
NULL == Rel(<<"NULL">>)                           \* a NULL string argument

ROOT_DEV == "vda"
CONSOLE  == "5:1"

(* init_dirs, console_on_rootfs, prepare_namespace with mount_root *)
BootScript == <<
  [op |-> "mkdir",   path |-> Rel(<<"dev">>), kind |-> "dir", rdev |-> 0],
  [op |-> "mknod",   path |-> Abs(<<"dev", "console">>), kind |-> "chr", rdev |-> CONSOLE],
  [op |-> "mkdir",   path |-> Rel(<<"root">>), kind |-> "dir", rdev |-> 0],
  [op |-> "console", path |-> Abs(<<"dev", "console">>)],
  [op |-> "mknod",   path |-> Abs(<<"dev", "root">>), kind |-> "blk", rdev |-> ROOT_DEV],
  [op |-> "mount",   path |-> Abs(<<"root">>), dev |-> Abs(<<"dev", "root">>), type |-> "ext2"],
  [op |-> "chdir",   path |-> Abs(<<"root">>)],
  [op |-> "move",    path |-> Abs(<<>>), dev |-> Rel(<<".">>)],
  [op |-> "chroot",  path |-> Rel(<<".">>)] >>

file_systems == {"ext2", "ramfs", "proc", "bdev"}   \* register_filesystem

VARIABLES
  t, f,        \* the kernel's tables (Dcache, Mounts) and descriptors (Files)
  fs,          \* current->fs: root and pwd
  tty,         \* the console's tty is installed in its driver
  booted,      \* steps of BootScript begun, 0 before init_mount_tree
  calls,       \* system calls made
  call,        \* the call in progress, with its directory once that is found
  nd,          \* nameidata: the place reached, names left and names walked
  pc, ret      \* where the call is; its result, or why the kernel stopped

vars == <<t, f, fs, tty, booted, calls, call, nd, pc, ret>>

Booting == booted <= Len(BootScript)
NoCall == [op |-> "none"]
NoWalk == [mnt |-> 0, dentry |-> 0, rest |-> <<>>, walked |-> <<>>, rcu |-> FALSE]
Here == Place(nd.mnt, nd.dentry)

(* After bdev_cache_init: the bdev superblock, its root and its mount *)
NameSpaceInit ==
  /\ t = vfs_kern_mount([D |-> <<>>, I |-> <<>>, S |-> <<>>, M |-> <<>>, H |-> <<>>,
                         P |-> <<>>], "bdev")
  /\ f = init_files /\ fs = [root |-> Place(0, 0), pwd |-> Place(0, 0)] /\ tty = FALSE
  /\ booted = 0 /\ calls = 0 /\ call = NoCall /\ nd = NoWalk
  /\ pc = "idle" /\ ret = "none"

(* A panic, a BUG or a fault in the kernel: nothing runs afterwards *)
Panic(why) == pc' = "panic" /\ ret' = why

(* A call returns: do_mount_root panics on every error of the boot's mount *)
Return(r) ==
  IF Booting /\ call.op \in {"mount", "bdev"} /\ r # "ok" THEN Panic("bad init mount /root")
  ELSE pc' = "idle" /\ ret' = r
(* The boot's next step begins when the call of this one has returned *)
Done == booted' = IF Booting THEN booted + 1 ELSE booted
-----------------------------------------------------------------------------
(* Walks *)
ModeOf(op) == CASE op \in {"mkdir", "mknod"} -> "parent"
                [] op \in {"open", "console"} -> "open"
                [] OTHER -> "lookup"

(* path_init, set_root: from the root or the working directory, in RCU mode *)
Begin(path) ==
  LET from == IF path.abs THEN fs.root ELSE fs.pwd
  IN /\ nd' = [mnt |-> from.mnt, dentry |-> from.dentry, rest |-> path.names,
               walked |-> <<>>, rcu |-> TRUE]
     /\ pc' = "walk" /\ UNCHANGED ret

Name == Head(nd.rest)
AtLast == Len(nd.rest) <= 1
Walks == nd.rest # <<>> /\ (AtLast => ModeOf(call.op) # "parent")
Special == Name = "."

(* handle_mounts and step_into: mounts are followed in RCU mode only, and   *)
(* not from a negative dentry                                              *)
step_into(u, d, rcu) ==
  IF rcu /\ u.D[d].inode # 0 THEN follow_mount_rcu(u, Place(nd.mnt, d))
  ELSE Place(nd.mnt, d)

(* link_path_walk after walk_component: every component but the last must   *)
(* be a directory                                                          *)
Arrive(u, p, rcu) ==
  /\ t' = u
  /\ nd' = [mnt |-> p.mnt, dentry |-> p.dentry, rest |-> Tail(nd.rest),
            walked |-> Append(nd.walked, Name), rcu |-> rcu]
  /\ IF AtLast THEN pc' = "found" /\ UNCHANGED ret
     ELSE IF d_can_lookup(u, p.dentry) THEN UNCHANGED <<pc, ret>>
     ELSE pc' = "failed" /\ ret' = "ENOTDIR"

(* ".." and a trailing slash are not implemented, nor is an open that ends  *)
(* in "." or "/"                                                           *)
Unsupported ==
  \/ Walks /\ Name = ".."
  \/ Len(nd.rest) = 2 /\ nd.rest[2] = ""
  \/ AtLast /\ ModeOf(call.op) = "open" /\ (Walks => Name = ".")

WalkUnsupported ==
  /\ pc = "walk" /\ Unsupported
  /\ Panic("unsupported") /\ UNCHANGED <<t, f, fs, tty, booted, calls, call, nd>>

Walking == pc = "walk" /\ ~Unsupported /\ Walks

handle_dots ==
  /\ Walking /\ Special /\ Arrive(t, Here, nd.rcu)
  /\ UNCHANGED <<f, fs, tty, booted, calls, call>>

(* Nothing to walk: "/", or the parent of a name to create *)
WalkEnds ==
  /\ pc = "walk" /\ ~Unsupported /\ ~Walks
  /\ pc' = "found" /\ UNCHANGED <<t, f, fs, tty, booted, calls, call, nd, ret>>

(* walk_component with lookup_fast finding the dentry *)
WalkFast ==
  /\ Walking /\ ~Special
  /\ LET d == d_lookup(t, nd.dentry, Name)
     IN /\ d # 0
        /\ IF nd.rcu /\ t.D[d].inode # 0 /\ NoDcacheMounted(t, Place(nd.mnt, d))
           THEN Panic("no DCACHE_MOUNTED!") /\ UNCHANGED <<t, nd>>
           ELSE Arrive(t, step_into(t, d, nd.rcu), nd.rcu)
  /\ UNCHANGED <<f, fs, tty, booted, calls, call>>

(* The file system's lookup for a fresh dentry d of directory dir:          *)
(* simple_lookup hashes a negative dentry, ext2_lookup what is on the disk  *)
simple_lookup(u, d) == [t |-> d_add(u, d, 0), r |-> "ok"]

ext2_lookup(u, dir, d, junk) ==
  LET i == u.D[dir].inode
      hit == ext2_find_entry(u.I[i].ino, u.I[i].start, u.D[d].name)
      u1 == [u EXCEPT !.I[i].start = hit.start]
      u2 == ext2_iget(u1, u.I[i].sb, hit.ino, junk)
      ino == InodeAt(u2, u.I[i].sb, hit.ino)
  IN IF hit.ino = 0 THEN [t |-> d_add(u1, d, 0), r |-> "ok"]
     ELSE IF Disk[hit.ino].kind \notin {"reg", "dir"} THEN [t |-> u1, r |-> "unknown file!"]
     ELSE IF HasAlias(u2, ino) THEN [t |-> u2, r |-> "It has alias!"]
     ELSE [t |-> d_add(u2, d, ino), r |-> "ok"]

lookup(u, dir, d, junk) ==
  IF u.D[d].name = LongName THEN [t |-> u, r |-> "ENAMETOOLONG"]
  ELSE IF u.S[u.D[dir].sb].type = "ext2" THEN ext2_lookup(u, dir, d, junk)
  ELSE simple_lookup(u, d)

(* unlazy_walk, then __lookup_slow or lookup_open; open panics on an error   *)
(* of the lookup                                                           *)
WalkSlow ==
  /\ Walking /\ ~Special
  /\ d_lookup(t, nd.dentry, Name) = 0
  /\ \E junk \in 0..1 :
       \E new \in {d_alloc_parallel(t, nd.dentry, Name)} :
       \E res \in {lookup(new.t, nd.dentry, new.d, junk)} :
       \E u \in {d_lookup_done(res.t, new.d)} :
          CASE res.r = "ok" -> Arrive(u, step_into(u, new.d, FALSE), FALSE)
            [] res.r = "ENAMETOOLONG" /\ (~AtLast \/ ModeOf(call.op) # "open") ->
                 t' = u /\ pc' = "failed" /\ ret' = res.r /\ UNCHANGED nd
            [] OTHER -> t' = u /\ Panic(res.r) /\ UNCHANGED nd
  /\ UNCHANGED <<f, fs, tty, booted, calls, call>>

(* A walk's error is the call's, except that path_openat panics on one *)
WalkFailed ==
  /\ pc = "failed"
  /\ IF ModeOf(call.op) = "open" THEN Panic("path_openat") ELSE Return(ret)
  /\ Done /\ UNCHANGED <<t, f, fs, tty, calls, call, nd>>
-----------------------------------------------------------------------------
(* Calls begin *)
init_mount_tree ==
  /\ pc = "idle" /\ booted = 0
  /\ t' = vfs_kern_mount(t, "rootfs")
  /\ LET root == Place(NewMount(t'), NewDentry(t')) IN fs' = [root |-> root, pwd |-> root]
  /\ booted' = 1 /\ UNCHANGED <<f, tty, calls, call, nd, pc, ret>>

BootCall ==
  /\ pc = "idle" /\ booted \in 1..Len(BootScript)
  /\ call' = BootScript[booted] /\ Begin(BootScript[booted].path)
  /\ UNCHANGED <<t, f, fs, tty, booted, calls>>

SysCall(c) == /\ pc = "idle" /\ ~Booting /\ calls < MaxCalls
              /\ calls' = calls + 1 /\ call' = c /\ UNCHANGED <<t, fs, tty, booted>>

(* getname refuses the empty path *)
EmptyPath(c) == c.path = Rel(<<>>)

(* do_mount, _do_sys_readlinkat: LOOKUP_EMPTY lets the empty path reach      *)
(* path_init, which wants RCU mode                                          *)
SysWalk(c) ==
  /\ c.op \in {"mount", "move", "readlink"} /\ SysCall(c) /\ UNCHANGED f
  /\ IF ~EmptyPath(c) THEN Begin(c.path)
     ELSE /\ IF c.op = "readlink" THEN Panic("no LOOKUP_RCU!")
             ELSE pc' = pc /\ ret' = "ENOENT"
          /\ UNCHANGED nd

(* do_sys_openat2: the descriptor is reserved before the walk *)
SysOpen(c) ==
  /\ c.op = "open" /\ SysCall(c)
  /\ IF EmptyPath(c) THEN ret' = "ENOENT" /\ UNCHANGED <<f, nd, pc>>
     ELSE IF AtLimit(f) THEN ret' = "EMFILE" /\ UNCHANGED <<f, nd, pc>>
     ELSE IF NeedsExpand(f) THEN Panic("need expand files table!") /\ UNCHANGED <<f, nd>>
     ELSE f' = alloc_fd(f, FALSE) /\ Begin(c.path)

(* _ksys_write; the console's write returns what it wrote *)
SysWrite(c) ==
  /\ c.op = "write" /\ SysCall(c)
  /\ ret' = vfs_write(f, c.fd) /\ UNCHANGED <<f, nd, pc>>
-----------------------------------------------------------------------------
(* Calls end.  The place found is Here. *)
Found(ops) == pc = "found" /\ call.op \in ops
HereInode == t.D[nd.dentry].inode

ramfs_mknod(u, sb, d, kind, rdev) ==
  LET v == ramfs_get_inode(u, sb, kind, rdev) IN d_instantiate(v, d, NewInode(v))

(* filename_create with __lookup_hash, then vfs_mkdir or vfs_mknod *)
Create ==
  /\ Found({"mkdir", "mknod"})
  /\ LET d0 == d_lookup(t, nd.dentry, Name)
         u0 == d_alloc(t, nd.dentry, Name)
         u  == IF d0 # 0 THEN t ELSE lookup(u0, nd.dentry, NewDentry(u0), 0).t
         d  == IF d0 # 0 THEN d0 ELSE NewDentry(u0)
     IN t' = ramfs_mknod(u, u.D[nd.dentry].sb, d, call.kind, call.rdev)
  /\ Return("ok") /\ Done
  /\ UNCHANGED <<f, fs, tty, calls, call, nd>>

(* init_chdir, init_chroot *)
SetFs ==
  /\ Found({"chdir", "chroot"})
  /\ fs' = IF call.op = "chdir" THEN [fs EXCEPT !.pwd = Here] ELSE [fs EXCEPT !.root = Here]
  /\ Return("ok") /\ Done
  /\ UNCHANGED <<t, f, tty, calls, call, nd>>

(* The operations of an open file by the kind of its inode: a directory has  *)
(* none, the console those of tty_io.c                                      *)
FopsOf(kind) == CASE kind = "reg" -> {"read"}
                  [] kind = "chr" -> {"write"}
                  [] OTHER -> {}

(* do_open, do_dentry_open: a missing name faults, a file without operations *)
(* is a BUG, and tty_open_by_driver panics on a tty that is open already    *)
OpenStops ==
  HereInode # 0 => \/ t.I[HereInode].kind \notin {"reg", "chr", "blk"}
                   \/ t.I[HereInode].kind = "chr" /\ tty

vfs_open(acc) == do_dentry_open(f, HereInode, acc, FopsOf(t.I[HereInode].kind))

OpenPanics ==
  /\ Found({"open", "console"}) /\ OpenStops /\ Panic("open")
  /\ UNCHANGED <<t, f, fs, tty, booted, calls, call, nd>>

console_on_rootfs ==
  /\ Found({"console"}) /\ ~OpenStops
  /\ LET g == vfs_open({"READ", "WRITE"}) n == Len(g.files)
     IN f' = init_dup(init_dup(init_dup(g, n), n), n)
  /\ tty' = TRUE /\ Return("ok") /\ Done
  /\ UNCHANGED <<t, fs, calls, call, nd>>

(* do_sys_openat2 after do_filp_open: fd_install in the descriptor reserved *)
OpenDone ==
  /\ Found({"open"}) /\ ~OpenStops
  /\ LET g == vfs_open(call.acc) IN f' = fd_install(g, f.next - 1, Len(g.files))
  /\ tty' = (tty \/ t.I[HereInode].kind = "chr") /\ Return("ok")
  /\ UNCHANGED <<t, fs, booted, calls, call, nd>>

ReadlinkDone ==
  /\ Found({"readlink"}) /\ Panic("NOT implemented!")
  /\ UNCHANGED <<t, f, fs, tty, booted, calls, call, nd>>
-----------------------------------------------------------------------------
(* Mounts *)

(* do_new_mount_fc: vfs_create_mount, lock_mount, do_add_mount *)
do_new_mount_fc(u, sb, p) ==
  LET u1 == vfs_create_mount(u, sb) m == NewMount(u1)
  IN IF Covered(u1, p) THEN t' = u1 /\ Panic("lock_mount")
     ELSE t' = do_add_mount(u1, m, p) /\ Return(IF SameOnRoot(u1, m, p) THEN "EBUSY" ELSE "ok")

(* path_mount and do_new_mount, the mountpoint found.  Without a device name *)
(* err is not initialised: any error may come back, or 0 by chance.  A device *)
(* that is needed is looked up next.                                        *)
do_new_mount ==
  /\ Found({"mount"})
  /\ \/ call.type = "NULL" /\ Return("EINVAL") /\ UNCHANGED <<t, call, nd>>
     \/ /\ call.type \notin file_systems \cup {"NULL"}
        /\ Panic("get_fs_type") /\ UNCHANGED <<t, call, nd>>
     \/ /\ call.type \in file_systems /\ call.dev = NULL
        /\ Return("garbage") /\ UNCHANGED <<t, call, nd>>
     \/ /\ call.type \in file_systems \ {"ext2"}
        /\ LET u == vfs_get_super(t, call.type) IN do_new_mount_fc(u, NewSuper(u), Here)
        /\ UNCHANGED <<call, nd>>
     \/ /\ call.type = "ext2" /\ call.dev \in {NULL, Rel(<<>>)}
        /\ Return("EINVAL") /\ UNCHANGED <<t, call, nd>>
     \/ /\ call.type = "ext2" /\ call.dev \notin {NULL, Rel(<<>>)}
        /\ call' = [op |-> "bdev", path |-> call.dev, place |-> Here, dir |-> call.path]
        /\ Begin(call.dev) /\ UNCHANGED t
  /\ booted' = IF pc' = "idle" /\ Booting THEN booted + 1 ELSE booted
  /\ UNCHANGED <<f, fs, tty, calls>>

(* lookup_bdev, blkdev_get and mount_bdev, the device's file found: a missing *)
(* name faults                                                             *)
MountBdev ==
  /\ Found({"bdev"})
  /\ IF HereInode = 0 THEN Panic("fault") /\ UNCHANGED t
     ELSE IF t.I[HereInode].kind # "blk" THEN Return("ENOTBLK") /\ UNCHANGED t
     ELSE LET u == bd_acquire(t, HereInode) bdev == u.I[HereInode].bdev
          IN IF SuperExists(u, "ext2", bdev) THEN t' = u /\ Panic("already exist!")
             ELSE \E junk \in 0..1 : LET v == mount_bdev(u, bdev, junk)
                                     IN do_new_mount_fc(v, NewSuper(v), call.place)
  /\ Done /\ UNCHANGED <<f, fs, tty, calls, call, nd>>

(* do_move_mount_old: the mountpoint found, the old path is looked up *)
MoveBegins ==
  /\ Found({"move"})
  /\ IF call.dev \in {NULL, Rel(<<>>)} THEN Return("EINVAL") /\ UNCHANGED <<call, nd>>
     ELSE /\ call' = [op |-> "old", path |-> call.dev, place |-> Here, dir |-> call.path]
          /\ Begin(call.dev)
  /\ UNCHANGED <<t, f, fs, tty, booted, calls>>

(* do_move_mount.  A mount that is its own parent is not taken off its place *)
(* first: put on itself again it is commit_tree's BUG, put elsewhere it is in *)
(* two chains of the hash, two lists of children and two mountpoints' lists,  *)
(* the chains run into each other, and the call returns 0.  What later walks  *)
(* find depends on which mounts share a hash chain; the model ends there.     *)
MoveDone ==
  /\ Found({"old"})
  /\ IF Covered(t, call.place) THEN Panic("lock_mount") /\ UNCHANGED t
     ELSE IF ~mnt_has_parent(t, nd.mnt) /\ call.place.mnt = nd.mnt
     THEN Panic("BUG parent == mnt") /\ UNCHANGED t
     ELSE /\ t' = do_move_mount(t, Here, call.place)
          /\ IF mnt_has_parent(t, nd.mnt) THEN Return("ok") ELSE pc' = "tangled" /\ ret' = "ok"
  /\ Done /\ UNCHANGED <<f, fs, tty, calls, call, nd>>

Next ==
  \/ init_mount_tree \/ BootCall
  \/ \E c \in Syscalls : SysWalk(c) \/ SysOpen(c) \/ SysWrite(c)
  \/ WalkUnsupported \/ handle_dots \/ WalkEnds \/ WalkFast \/ WalkSlow \/ WalkFailed
  \/ Create \/ SetFs \/ OpenPanics \/ console_on_rootfs \/ OpenDone \/ ReadlinkDone
  \/ do_new_mount \/ MountBdev \/ MoveBegins \/ MoveDone

NameSpaceSpec == NameSpaceInit /\ [][Next]_vars
-----------------------------------------------------------------------------
(* What the names mean, from the mount tree and the contents of the file    *)
(* systems alone: a position is a mount and the names from its root.        *)

NamesOf(u) ==
  LET names[d \in 0..Len(u.D)] ==
        IF d = 0 \/ u.D[d].parent = d THEN <<>>
        ELSE Append(names[u.D[d].parent], u.D[d].name)
  IN names

Entry(ino, name) ==
  LET hits == {de \in UNION {Range(Pages(ino)[n].entries) : n \in DOMAIN Pages(ino)} :
                 de.ino # 0 /\ de.name = name}
  IN IF hits = {} THEN 0 ELSE (CHOOSE de \in hits : TRUE).ino

(* The kind of what a superblock has under the names, "missing" for nothing *)
OnDisk(names) ==
  LET under(i, name) == IF i = 0 \/ Disk[i].kind # "dir" THEN 0 ELSE Entry(i, name)
      at[n \in 0..Len(names)] == IF n = 0 THEN EXT2_ROOT_INO ELSE under(at[n - 1], names[n])
      kind(i) == IF i = 0 THEN "missing" ELSE Disk[i].kind
  IN kind(at[Len(names)])

InMemory(u, sb, names) ==
  LET ds == {d \in DOMAIN u.D : /\ u.D[d].sb = sb /\ NamesOf(u)[d] = names
                                /\ u.D[d].inode # 0}
  IN IF ds = {} THEN "missing" ELSE u.I[u.D[Max(ds)].inode].kind

KindAt(u, pos) ==
  IF u.S[u.M[pos.mnt].sb].type = "ext2" THEN OnDisk(pos.names)
  ELSE InMemory(u, u.M[pos.mnt].sb, pos.names)

Cross(u, pos) ==
  LET on(q) == {m \in DOMAIN u.M : /\ u.M[m].mp # 0 /\ u.M[m].parent = q.mnt
                                   /\ NamesOf(u)[u.M[m].point] = q.names}
      hop(q) == LET ms == on(q) IN IF ms = {} THEN q ELSE [mnt |-> Max(ms), names |-> <<>>]
      at[n \in 0..Len(u.M)] == IF n = 0 THEN pos ELSE hop(at[n - 1])
  IN at[Len(u.M)]

Position(u, p) == [mnt |-> p.mnt, names |-> NamesOf(u)[p.dentry]]

(* The positions after 0, 1, ... of the names *)
Resolve(u, from, names) ==
  LET at[n \in 0..Len(names)] ==
        IF n = 0 THEN Position(u, from)
        ELSE IF names[n] = "." THEN at[n - 1]
        ELSE LET q == [at[n - 1] EXCEPT !.names = Append(@, names[n])]
             IN IF KindAt(u, q) = "missing" THEN q ELSE Cross(u, q)
  IN at
-----------------------------------------------------------------------------
(* The path a walk follows, the part of it walked, and where it starts *)
StartOf == IF call.path.abs THEN fs.root ELSE fs.pwd

(* Whatever is cached, in whatever order it was cached and in either walk    *)
(* mode, a path walk (link_path_walk, walk_component, step_into,             *)
(* ext2_find_entry) stands where the names it has walked lead in the mounts  *)
(* and the file systems' contents, on a negative dentry exactly when there   *)
(* is nothing of that name; and it fails with ENOTDIR only where the names   *)
(* lead to something that is no directory.                                   *)
WalkAgrees ==
  pc \in {"walk", "found", "failed"} =>
    LET at == Resolve(t, StartOf, nd.walked) n == Len(nd.walked)
        i == HereInode
    IN /\ Position(t, Here) = at[n]
       /\ KindAt(t, at[n]) = IF i = 0 THEN "missing" ELSE t.I[i].kind
       /\ \A k \in 1..n - 1 : KindAt(t, at[k]) = "dir"
       /\ pc = "failed" /\ ret = "ENOTDIR" => KindAt(t, at[n]) # "dir"

(* One cache entry per name (__d_lookup, d_add): no two hashed dentries have *)
(* the same parent and name, a directory has one hashed dentry               *)
(* (d_splice_alias's panic is never reached), one inode stands for a disk    *)
(* inode or a block device (iget_locked, iget5_locked), and no lookup is in  *)
(* progress between the steps of a walk.                                     *)
DcacheUnique ==
  /\ \A c, d \in DOMAIN t.D :
       /\ c # d /\ t.D[c].hashed /\ t.D[d].hashed =>
            /\ <<t.D[c].parent, t.D[c].name>> # <<t.D[d].parent, t.D[d].name>>
            /\ t.D[c].inode = t.D[d].inode => t.D[c].type # "dir"
       /\ ~t.D[d].par_lookup
  /\ \A i, j \in DOMAIN t.I :
       i # j /\ t.I[i].hashed /\ t.I[j].hashed /\ t.I[i].sb = t.I[j].sb =>
         <<t.I[i].ino, t.I[i].rdev>> # <<t.I[j].ino, t.I[j].rdev>>
  /\ ret # "It has alias!"

(* The four records of a mount agree (mnt_set_mountpoint, __attach_mnt,      *)
(* unhash_mnt): a mount with a mountpoint is in the hash once, among its     *)
(* parent's children and on its mountpoint's list, and nowhere else; its     *)
(* mountpoint dentry is marked DCACHE_MOUNTED, so an RCU walk looks for it;  *)
(* and no place is covered by two mounts.  This holds until a mount that was *)
(* moved below itself, and so is its own parent, is moved again: then        *)
(* mnt_has_parent is false and it is attached without being detached.        *)
MountsAgree ==
  pc # "tangled" =>
  /\ \A m \in DOMAIN t.M :
       LET mt == t.M[m] IN
       /\ Cardinality({k \in DOMAIN t.H : t.H[k] = m}) = IF mt.mp = 0 THEN 0 ELSE 1
       /\ \A p \in DOMAIN t.M : (m \in Range(t.M[p].mounts)) <=> (mt.mp # 0 /\ mt.parent = p)
       /\ \A d \in DOMAIN t.P : (m \in Range(t.P[d].list)) <=> (mt.mp = d)
       /\ mt.mp # 0 => mt.point = mt.mp /\ t.D[mt.mp].mounted
  /\ \A m, n \in Range(t.H) :
       <<t.M[m].parent, t.M[m].point>> = <<t.M[n].parent, t.M[n].point>> => m = n

(* Where a walk in RCU mode ends whose names are all cached, as those of a    *)
(* call just made are, and whether __follow_mount_rcu panics on the way       *)
Rewalk(u, path) ==
  LET step(p, name) == Place(p.mnt, d_lookup(u, p.dentry, name))
      at[n \in 0..Len(path.names)] ==
        IF n = 0 THEN IF path.abs THEN fs.root ELSE fs.pwd
        ELSE IF path.names[n] = "." THEN at[n - 1]
        ELSE follow_mount_rcu(u, step(at[n - 1], path.names[n]))
  IN [end   |-> at[Len(path.names)],
      stops |-> \E n \in DOMAIN path.names :
                  /\ path.names[n] # "."
                  /\ NoDcacheMounted(u, step(at[n - 1], path.names[n]))]

(* The mounts a mount is below, itself included *)
Below(u, m) ==
  LET up[n \in 0..Len(u.M)] ==
        IF n = 0 THEN m ELSE IF up[n - 1] = 0 THEN 0 ELSE u.M[up[n - 1]].parent
  IN {up[n] : n \in 0..Len(u.M)}

Named(path) == \E n \in DOMAIN path.names : path.names[n] # "."

(* Mount m was put at place p, which the path had led to *)
Grafts(m, p, path) ==
  m \notin Below(t, p.mnt) =>
    LET root == Place(m, t'.M[m].root) again == Rewalk(t', path)
    IN /\ follow_mount_rcu(t', p) = root
       /\ Named(path) /\ t.D[p.dentry].inode # 0 => again.stops \/ again.end = root

(* A mount call that returns 0 takes effect (do_add_mount, do_move_mount,     *)
(* __follow_mount_rcu): from the place its path led to, a mount or the root   *)
(* included, walks cross to the root of the mount, and the same path walked   *)
(* again ends there.  Four cases are left out, in which the code does not do   *)
(* so: a path without a name, "/" or ".", as path_init crosses no mount; a     *)
(* name that is missing; a walk that panics with "no DCACHE_MOUNTED!"; and a   *)
(* mount moved below itself.                                                  *)
MountTakesEffect ==
  [][/\ (do_new_mount \/ MountBdev) /\ ret' = "ok" /\ pc' = "idle" =>
          IF call.op = "bdev" THEN Grafts(Len(t'.M), call.place, call.dir)
          ELSE Grafts(Len(t'.M), Here, call.path)
     /\ MoveDone /\ ret' = "ok" => Grafts(nd.mnt, call.place, call.dir)]_vars

(* Between calls the descriptor table is consistent (__alloc_fd,             *)
(* fd_install, init_dup): a bit of open_fds is set exactly where a file is   *)
(* installed, full_fds_bits tells the full words, next_fd is the lowest free *)
(* descriptor and the init process has the console on 0, 1 and 2.            *)
FdTable ==
  pc = "idle" =>
    /\ \A fd \in Fds : (fd \in f.open) <=> (f.fd[fd] # 0)
    /\ \A w \in Words : (w \in f.full) <=> (WordOf(w) \subseteq f.open)
    /\ f.next = Min({max_fds} \cup (Fds \ f.open))
    /\ ~Booting => \A fd \in 0..2 : vfs_write(f, fd) = "written"

(* __follow_mount_rcu's panic is never reached: a dentry whose flags say it  *)
(* is managed is a mountpoint.                                              *)
ManagedIsMounted == ret # "no DCACHE_MOUNTED!"

(* commit_tree's BUG_ON(parent == mnt) is never reached. *)
NeverOwnParent == ret # "BUG parent == mnt"
=============================================================================
