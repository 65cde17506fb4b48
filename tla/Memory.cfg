\* Two slots; memory for two address spaces and four pages more; a heap of at most seven
\* pages whose third needs another table.
CONSTANTS
  Pids = {u1, u2}
  Fan0 = 4
  Fan1 = 16
  UART_BASE = 1
  PLIC_BASE = 2
  TIMER_BASE = 3
  start = 64
  ctxsws = 65
  interrupte = 67
  datas = 68
  memheap = 69
  maxaddr = 113
  PROCHEAPVADDR = 130
  PROCSTACKVADDR = 137
  SWAPAREAVADDR = 138
  PAGE_SIZE = 6
  UINT = 64
  SIZES = {3, 5}
  MaxBlocks = 2
SYMMETRY Slots
SPECIFICATION Spec
INVARIANTS TypeOK OneOwner HeapBacked HeapTiled
PROPERTY MemorySpec
CHECK_DEADLOCK FALSE
