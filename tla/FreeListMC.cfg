\* One process, five blocks, collectors that name two: the list is used up, filled
\* again and extended, and the machine restarts once in every state.
CONSTANTS
  Procs = {p1}
  DISKBLOCKTOTAL = 7
  FREEBLOCKMAX = 2
  NNODES = 2
  MayFail = FALSE
  DirtyMalloc = FALSE
  MaxHeld = 6
  MaxStops = 1
SPECIFICATION CSpec
INVARIANTS TypeOK CrashSafe DiskMatches
PROPERTY PoolSpec
CHECK_DEADLOCK FALSE
