SPECIFICATION Spec
CONSTANTS
  W = 40
  W64 = 1000
  Uptime = 40
  WorldSleep = 1
  Work = 2
  FirstCheck = 6
  CheckPeriod = 4
  MaxLate = 2
  MaxStuck = 7
CHECK_DEADLOCK FALSE
INVARIANT KillMeansFrozen
