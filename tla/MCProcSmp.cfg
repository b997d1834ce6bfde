SPECIFICATION Spec
CONSTANTS
  NPROC = 4
  NCPU = 2
  NINODE = 2
  MaySwap = FALSE
  MayFail = TRUE
  Calls <- SmpCalls
  Started = {3}
  Killable = {4, 6}
  MaxPid = 8
  MaxDrift = 1
INVARIANTS
  OneCpu
  NoSwapInv
