SPECIFICATION FairSpec
CONSTANTS
  MaxBytes = 4
  MaxPacket = 3
  MaxQueue = 2
  BufferSize = 3
  KernelSize = 2
  Faults = {"reset", "transient"}
CHECK_DEADLOCK FALSE
INVARIANTS TypeOK NothingLost OneWait LockHeld ShutdownOnce
PROPERTIES StreamSpec Flushed ClosedIsDropped
