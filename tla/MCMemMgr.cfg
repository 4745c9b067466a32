SPECIFICATION FairSpec
CONSTANTS
  WordMax = 65535
  P1 = P1
  P2 = P2
  Psp <- TwoPsp
  FREE_PSP = FREE_PSP
  SysPsp = SysPsp
  first_mcb = 1
  DosData = 0
  uppermem_root = 5
  Hole = 0
  Top = 7
  Sizes = {0, 1, 2}
  Strategies <- Mixed
INVARIANTS
  TypeOK
  NoMemIsTrue
  ResizeRefusedIsTrue
  FitRule
  ArenaTiled
  ChainEnds
  NoPanic
  ProcessMemFreed
  StrategyKept
PROPERTIES
  AllocatedUntouched
  CallReturns
