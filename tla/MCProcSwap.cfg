SPECIFICATION Spec
CONSTANTS
  NPROC = 4
  NCPU = 1
  NINODE = 2
  MaySwap = TRUE
  MayFail = TRUE
  Calls <- SwapCalls
  Started = {3}
  Killable = {5}
  MaxPid = 6
  MaxDrift = 1
INVARIANTS
  NoMissedWakeup
  NoMissedExit
  RunnableIsResident
  ImageOnce
PROPERTY SwappedoutFollows
CHECK_DEADLOCK FALSE
