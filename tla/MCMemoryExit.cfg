SPECIFICATION Spec
CONSTANTS
  NPROC = 2
  NPAGE = 12
  NPTENTRIES = 2
  KPDE = 1
  numOfSegs = 2
  KERNBASE = 8
  MaxSeg = 1
  MaxPid = 2
  Image <- Programs
  Delta = {1}
  MaxRefs = 2
CONSTRAINT Sound
VIEW PageView
INVARIANTS
  ZombieDetached
CHECK_DEADLOCK FALSE
