SPECIFICATION Spec
CONSTANTS
  NPROC = 2
  NINODE = 4
  NFILE = 1
  NOFILE = 1
  NINUM = 3
  NBLOCK = 3
  NDIRECT = 1
  NINDIRECT = 1
  MaxChunk = 1
  Name = {"a", "b"}
  Files <- NoFiles
  Path <- TreePaths
  Calls <- TreeCalls
CONSTRAINT NoneLost
VIEW Live
INVARIANTS
  CacheCoherent
  NlinkCounts
  RefsAccounted
  NoDeadlock
  OnlyLimitsPanic
CHECK_DEADLOCK FALSE
