SPECIFICATION Spec
CONSTANTS
  NPROC = 2
  NINODE = 4
  NFILE = 2
  NOFILE = 2
  NINUM = 2
  NBLOCK = 4
  NDIRECT = 1
  NINDIRECT = 1
  MaxChunk = 1
  Name = {"a"}
  Files <- FileA
  Path <- FilePaths
  Calls <- FileCalls
CONSTRAINT NoneLost
VIEW Live
INVARIANTS
  TypeOK
  BlocksOwnedOnce
  OpenNotFreed
  RefsAccounted
CHECK_DEADLOCK FALSE
