CONSTANTS
  Procs = {p1, p2}
  DISKBLOCKTOTAL = 6
  FREEBLOCKMAX = 2
  NNODES = 3
  MayFail = FALSE
  DirtyMalloc = FALSE
  MaxHeld = 3
  MaxStops = 2
SPECIFICATION CFairSpec
INVARIANTS NoStray CrashSafe DiskMatches WritesOnTarget
PROPERTIES PoolSpec CallsReturn
CHECK_DEADLOCK FALSE
