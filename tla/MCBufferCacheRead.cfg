SPECIFICATION Spec
CONSTANTS
  hard = hard
  diskette = diskette
  Nothing = Nothing
  Error = Error
  Outside = Outside
  NBuffers = 3
  MinBuffers = 2
  Disks = {hard, diskette}
  Removable = {diskette}
  Blocks = {f1, f2, d1}
  Fat = {f1, f2}
  DiskOf <- MCDiskOf
  Values = {v1, v2}
  MaxSuspect = 1
SYMMETRY Symmetry
CONSTRAINT EarlyRequest
PROPERTY ReadSpoilsNothing
