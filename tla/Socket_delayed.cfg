SPECIFICATION FairSpec
CONSTANTS
  MaxBytes = 3
  MaxPacket = 2
  MaxQueue = 2
  BufferSize = 2
  KernelSize = 1
  Faults = {}
CHECK_DEADLOCK FALSE
PROPERTIES DelayedCloseFlushes
