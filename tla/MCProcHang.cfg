SPECIFICATION FairSpec
CONSTANTS
  NPROC = 4
  NCPU = 1
  NINODE = 1
  MaySwap = TRUE
  MayFail = FALSE
  Calls <- HangCalls
  Started = {3, 4}
  Killable = {}
  MaxPid = 0
  MaxDrift = 1
PROPERTIES
  LogReleased
