SPECIFICATION Spec
CONSTANTS
  U1 = U1
  Uart <- OneUart
  NoUart = NoUart
  BDA <- OnePort
  TIMEOUT = 2
  Byte = {1, 2}
  NoByte = NoByte
  MSR = MSR
  Zero = Zero
  Divisor = Divisor
  Commands = {3, 4, 5}
  MaxBytes = 2
INVARIANTS
  BadCommandRefused
