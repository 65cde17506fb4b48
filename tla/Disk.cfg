CONSTANTS
  BLOCKNUM = 2
  BLOCKSIZE = 2
  MAXTRIES = 2
  Contents <- MCContents
  Damage <- MCDamage
  MaxNoise = 2
  MaxWrites = 2
  MaxRestarts = 2
  MaxErrors = 1
SPECIFICATION FairSpec
INVARIANTS DataKept
PROPERTIES Reconnects
CHECK_DEADLOCK FALSE
