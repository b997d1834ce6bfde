SPECIFICATION FairSpec
CONSTANTS
  Block <- MCBlock
  Val <- MCVal
  LOGSIZE = 4
  LogBlocks = 4
  MaxStops = 2
INVARIANTS
  LogInv
PROPERTIES
  AtomicSpec
  RecoveryEnds
