CONSTANTS
  Procs = {p1}
  DISKBLOCKTOTAL = 4
  FREEBLOCKMAX = 2
  NNODES = 2
  MayFail = TRUE
  DirtyMalloc = TRUE
  Names = {f, g, h}
  Junk = Junk
  MemoryFull = TRUE
  Shared = TRUE
  DIRENTRIES = 2
  DISKBLOCKLEN = 1
  MaxCommands = 5
  MaxRestarts = 0
SPECIFICATION Spec
SYMMETRY NameSymmetry
INVARIANTS OwnBlocks
CHECK_DEADLOCK FALSE
