SPECIFICATION Spec
CONSTANTS
  Threads = {"t1", "t2"}
  Settings <- RotatedSettings
  MaxFileSizes = {0, 2}
  Existings = {0, 1, 3}
  Sizes = {1}
  MaxBytes = 5
  MaxSec = 5
  Failures = {"open"}
  AppendTells = {"end"}
CHECK_DEADLOCK FALSE
INVARIANT NoUseAfterClose
