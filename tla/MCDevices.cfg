SPECIFICATION DevicesSpec
CONSTANTS
  PAGE_SIZE = 4
  PMD_SIZE = 16
  PGDIR_SIZE = 64
  IOREMAP_MAX = 16
  VMALLOC_START = 56
  VMALLOC_END = 299
  ULONG_MAX = 399
  Junk <- MCJunk
  CELL = 20
  PHYS_OFFSET = 128
  NR_IRQS = 12
  RV_IRQ_EXT = 9
  INTC_LINES = 16
  MAX_PHANDLE_ARGS = 16
  PART_BITS = 1
  BLKDEV_MAJORS = 255
  NR_UARTS = 2
  MAX_CMDLINECONSOLES = 2
  Boards <- MCBoards
  UART_XMIT_SIZE = 4
  CHUNK = 3
  TX_LOADSZ = 2
  MaxWrite = 4
  MaxBytes = 5
  MaxAsserts = 2
INVARIANTS
  TreeMatches
  DevicesBound
  DisksFound
  IoAreasExact
  ConsoleOrder
PROPERTIES
  ComesUp
  LineServed
  WriteReturns
CHECK_DEADLOCK FALSE
