CONSTANTS
  Writers = {w1}
  Readers = {r1, r2}
  NONE = NONE
  Val = {a, b}
  PIPESIZE = 2
  Wrap = 4
  Sizes = {0, 3}
  Killable = {w1, r1}
SPECIFICATION FairSpec
INVARIANTS
  TypeOK
  NotFreedInUse
  NoLostWakeup
PROPERTIES
  FifoSpec
  ClosedSeen
