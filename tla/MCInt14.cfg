SPECIFICATION Spec
CONSTANTS
  U1 = U1
  Uart <- OneUart
  NoUart = NoUart
  BDA <- OnePort
  TIMEOUT = 3
  Byte = {1, 2}
  NoByte = NoByte
  MSR = MSR
  Zero = Zero
  Divisor = Divisor
  Commands = {0, 1, 2, 3, 5, 129}
  MaxBytes = 3
INVARIANTS
  TypeOK
  SentInOrder
  ReceivedInOrder
  DivisorKept
PROPERTIES
  CallReturns
  ReadyIsServed
