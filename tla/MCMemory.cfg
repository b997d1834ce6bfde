SPECIFICATION Spec
CONSTANTS
  NPROC = 2
  NPAGE = 12
  NPTENTRIES = 2
  KPDE = 1
  numOfSegs = 1
  KERNBASE = 8
  MaxSeg = 2
  MaxPid = 3
  Image <- Programs
  Delta = {3}
  MaxRefs = 2
CONSTRAINT Sound
VIEW PageView
INVARIANTS
  TypeOK
  PagesOwnedOnce
  AttachmentsCounted
CHECK_DEADLOCK FALSE
