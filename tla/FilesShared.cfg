CONSTANTS
  Procs = {p1, p2}
  DISKBLOCKTOTAL = 6
  FREEBLOCKMAX = 2
  NNODES = 4
  MayFail = FALSE
  DirtyMalloc = FALSE
  Names = {f}
  Junk = Junk
  MemoryFull = FALSE
  Shared = TRUE
  DIRENTRIES = 2
  DISKBLOCKLEN = 1
  MaxCommands = 3
  MaxRestarts = 0
SPECIFICATION Spec
INVARIANTS OwnBlocks
CHECK_DEADLOCK FALSE
