SPECIFICATION FairSpec
CONSTANTS
  Proc = {p1, p2}
  Val = {0, 1}
  NONE = NONE
  Buf <- MCBuf
  Sector <- MCSector
  BadSector = {13}
  MaxHeld = 2
  MaxDirty = 1
INVARIANTS
  OneBufPerSector
  BioInv
PROPERTIES
  StoreSpec
  IoReturns
