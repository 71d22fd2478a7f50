CONSTANTS
  PAGE_SIZE = 16
  TASK_SIZE = 320
  stack_guard_gap = 32
  PTRS_PER_PTE = 8
  FAULT_AROUND = 2
  VM_READAHEAD_PAGES = 32
  Extents = {0, 1, 4}
  ARG_MAX = 64
  STK_LIM = 128
  RLIM_STACK = 128
  MAX_ARG_STRLEN = 64
  BINPRM_BUF_SIZE = 10
  PHENT = 2
  STACK_EXPAND = 32
  RAND = 2
  Programs <- MCPrograms
  Accesses <- MCAccesses
  Brks = {120, 130, 176, 224, 230}
  MaxOps = 3

SPECIFICATION Spec

INVARIANTS
  VmasExact
  MemoryAgrees
  ArgsAsGiven
  BrkCovers
  OnlyThesePanics

PROPERTY
  AccessEnds

CHECK_DEADLOCK FALSE
