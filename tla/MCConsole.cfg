SPECIFICATION FairSpec
CONSTANTS
  Readers = {r1, r2}
  Writers = {w1}
  NONE = NONE
  Char = {x}
  NL = NL
  CR = CR
  EOF = EOF
  INPUT_BUF = 2
  Wrap = 4
  Sizes = {2}
  Killable = {r1}
INVARIANTS
  TypeOK
  NoLostWakeup
PROPERTIES
  LineSpec
  HeadTaken
  WriteReturns
