SPECIFICATION FairSpec
CONSTANTS
  NPROC = 4
  NCPU = 1
  NINODE = 1
  MaySwap = FALSE
  MayFail = FALSE
  Calls <- LiveCalls
  Started = {3}
  Killable = {4, 6}
  MaxPid = 7
  MaxDrift = 1
PROPERTIES
  RunnableRuns
  OrphansReaped
  KilledExits
  LogReleased
