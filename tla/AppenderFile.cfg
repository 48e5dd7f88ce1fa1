SPECIFICATION Spec
CONSTANTS
  Threads = {"t1", "t2"}
  Settings <- OrderlySettings
  MaxFileSizes = {0, 2, 3}
  Existings = {0, 1, 3}
  Sizes = {1, 3}
  MaxBytes = 6
  MaxSec = 4
  Failures = {"open"}
  AppendTells = {"end"}
CHECK_DEADLOCK FALSE
INVARIANTS TypeOK Complete SizeBounded NoUseAfterClose
