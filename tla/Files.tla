------------------------------- MODULE Files -------------------------------
(***************************************************************************)
(* The file descriptor table (fs/file.c, fs/init.c, fs/open.c) as functions *)
(* on a record f:                                                          *)
(*   f.fd    descriptor -> open file, 0 for NULL                           *)
(*   f.open  open_fds, the descriptors whose bit is set                    *)
(*   f.full  full_fds_bits, the words of open_fds with every bit set       *)
(*   f.next  next_fd          f.cloexec  close_on_exec                     *)
(*   f.files the open files, numbered as alloc_empty_file makes them       *)
(***************************************************************************)
EXTENDS Integers, Sequences, FiniteSets, FiniteSetsExt

CONSTANTS
  BITS_PER_LONG,   \* bits in a word of open_fds
  max_fds,         \* NR_OPEN_DEFAULT
  RLIMIT_NOFILE    \* the limit get_unused_fd_flags passes on

ASSUME FilesAssumption ==
  /\ BITS_PER_LONG \in Nat \ {0} /\ RLIMIT_NOFILE \in Nat
  /\ max_fds \in Nat \ {0} /\ max_fds % BITS_PER_LONG = 0

Fds == 0..max_fds - 1
Words == 0..(max_fds \div BITS_PER_LONG) - 1
WordOf(w) == {fd \in Fds : fd \div BITS_PER_LONG = w}

(* init_files *)
init_files ==
  [fd |-> [n \in Fds |-> 0], open |-> {}, full |-> {}, next |-> 0, cloexec |-> {},
   files |-> <<>>]

(* The first number from start below size that is not in bits, else size    *)
(* (lib/find_bit.c)                                                        *)
find_next_zero_bit(bits, size, start) == Min({size} \cup ((start..size - 1) \ bits))

find_next_fd(f, start) ==
  LET word == find_next_zero_bit(f.full, max_fds \div BITS_PER_LONG,
                                 start \div BITS_PER_LONG) * BITS_PER_LONG
  IN IF word > max_fds THEN max_fds
     ELSE find_next_zero_bit(f.open, max_fds, Max({start, word}))

(* __alloc_fd's search; start is always 0 *)
FoundFd(f) == IF f.next < max_fds THEN find_next_fd(f, f.next) ELSE f.next

(* Its two failures: EMFILE at the resource limit, and expand_files's panic *)
AtLimit(f)     == FoundFd(f) >= RLIMIT_NOFILE
NeedsExpand(f) == ~AtLimit(f) /\ FoundFd(f) >= max_fds

\* Mutant of set_open_fd: a word that fills up is not recorded.
set_open_fdWord(f, fd) == [f EXCEPT !.open = @ \cup {fd}]

set_open_fd(f, fd) ==
  LET o == f.open \cup {fd}
  IN [f EXCEPT !.open = o,
               !.full = IF WordOf(fd \div BITS_PER_LONG) \subseteq o
                        THEN @ \cup {fd \div BITS_PER_LONG} ELSE @]

(* __alloc_fd, get_unused_fd_flags *)
alloc_fd(f, cloexec) ==
  LET fd == FoundFd(f)
  IN [set_open_fd(f, fd) EXCEPT
        !.next = fd + 1, !.cloexec = IF cloexec THEN @ \cup {fd} ELSE @ \ {fd}]

fd_install(f, fd, file) == [f EXCEPT !.fd[fd] = file]

(* init_dup: the next descriptor for an open file *)
init_dup(f, file) == fd_install(alloc_fd(f, FALSE), FoundFd(f), file)

(* fcheck_files and __fget_files; FMODE_PATH is never set *)
fget(f, fd) == IF fd \in Fds THEN f.fd[fd] ELSE 0

(* alloc_empty_file and do_dentry_open: acc the access the flags ask for,   *)
(* ops the operations the file has                                        *)
OpenFile(inode, acc, ops) ==
  [inode |-> inode,
   mode |-> acc \cup {"OPENED"}
            \cup (IF "READ" \in acc /\ "read" \in ops THEN {"CAN_READ"} ELSE {})
            \cup (IF "WRITE" \in acc /\ "write" \in ops THEN {"CAN_WRITE"} ELSE {})]

do_dentry_open(f, inode, acc, ops) ==
  [f EXCEPT !.files = Append(@, OpenFile(inode, acc, ops))]

(* _ksys_write and vfs_write up to the file's own write *)
vfs_write(f, fd) ==
  LET file == fget(f, fd)
  IN IF file = 0 THEN "EBADF"
     ELSE IF "WRITE" \notin f.files[file].mode THEN "EBADF"
     ELSE IF "CAN_WRITE" \notin f.files[file].mode THEN "EINVAL" ELSE "written"
=============================================================================
