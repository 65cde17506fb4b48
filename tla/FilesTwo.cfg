CONSTANTS
  Procs = {p1, p2}
  DISKBLOCKTOTAL = 6
  FREEBLOCKMAX = 2
  NNODES = 3
  MayFail = FALSE
  DirtyMalloc = FALSE
  Names = {p1, p2}
  Junk = Junk
  MemoryFull = FALSE
  Shared = FALSE
  DIRENTRIES = 2
  DISKBLOCKLEN = 1
  MaxCommands = 3
  MaxRestarts = 0
SPECIFICATION FairSpec
INVARIANTS OwnBlocks
PROPERTIES CommandsEnd
CHECK_DEADLOCK FALSE
