SPECIFICATION NameSpaceSpec
CONSTANTS
  PerSlab = 9
  Disk <- MCDisk
  RecLen <- MCRecLen
  BITS_PER_LONG = 2
  max_fds = 4
  RLIMIT_NOFILE = 8
  Syscalls <- MCSyscalls
  MaxCalls = 3
INVARIANTS WalkAgrees DcacheUnique MountsAgree FdTable
PROPERTIES MountTakesEffect
CHECK_DEADLOCK FALSE
