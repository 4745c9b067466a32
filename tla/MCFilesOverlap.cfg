SPECIFICATION Spec
CONSTANTS
  P1 = P1
  P2 = P2
  F1 = F1
  F2 = F2
  Psp <- TwoPsp
  File <- OneFile
  NoName = NoName
  AnyPsp = AnyPsp
  NoPsp = NoPsp
  NoSft = NoSft
  Root = P1
  file_table_size = 2
  lock_table_size = 2
  LongMax = 3
  SftCount = 2
  ps_maxfiles = 2
  Flags <- LockFlags
  Locks <- Nested
  Transfers <- NoRegions
  AttrFiles = {}
  MaxCount = 4
INVARIANTS
  LocksDisjoint
