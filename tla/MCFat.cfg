SPECIFICATION Spec
CONSTANTS
  Size = 4
  CS = 1
  Files = {f, g}
  Dirs = {d}
  NoName = NoName
  SftCount = 2
  Exclusive = TRUE
  MaxLen = 2
  MaxCount = 2
  MaxErrors = 1
  Stale = {0}
SYMMETRY Symmetry
VIEW View
CONSTRAINT Bounded
INVARIANTS TypeOK NoCrossLinks NothingLost FreeCountExact FullIsTrue LengthCovered SftOnChain
