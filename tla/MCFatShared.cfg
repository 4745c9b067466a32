SPECIFICATION Spec
CONSTANTS
  Size = 4
  CS = 1
  Files = {f}
  Dirs = {d}
  NoName = NoName
  SftCount = 2
  Exclusive = FALSE
  MaxLen = 2
  MaxCount = 1
  MaxErrors = 0
  Stale = {0}
CONSTRAINT NotDamaged
INVARIANT SftOnChain
