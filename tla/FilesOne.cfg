CONSTANTS
  Procs = {p1}
  DISKBLOCKTOTAL = 5
  FREEBLOCKMAX = 1
  NNODES = 2
  MayFail = FALSE
  DirtyMalloc = FALSE
  Names = {f, g, h, k}
  Junk = Junk
  MemoryFull = FALSE
  Shared = TRUE
  DIRENTRIES = 4
  DISKBLOCKLEN = 1
  MaxCommands = 6
  MaxRestarts = 1
SPECIFICATION Spec
SYMMETRY NameSymmetry
INVARIANTS OwnBlocks OwnBlocksOnDisk ReadsBack
PROPERTIES FilesSpec
CHECK_DEADLOCK FALSE
