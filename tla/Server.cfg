SPECIFICATION FairSpec
CONSTANTS
  Pool = {p1, p2}
  PidFiles = {"none", "unwritable"}
  Consoles = {TRUE, FALSE}
  Freezes = {TRUE, FALSE}
  OutUBuffs = {0, 65536}
  ThreadCounts = {1}
  BindIps = {"address", "hostname"}
  Settings <- MCSettings
  EofSeen = {TRUE, FALSE}
  MaxLines = 2
  MaxSignals = 2
CHECK_DEADLOCK FALSE
INVARIANTS TypeOK PoolStaysUp CleanupLast NothingGivenUp
PROPERTIES SignalEnds StopEnds
