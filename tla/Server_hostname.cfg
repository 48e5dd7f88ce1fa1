SPECIFICATION Spec
CONSTANTS
  Pool = {p1, p2}
  PidFiles = {"none"}
  Consoles = {TRUE, FALSE}
  Freezes = {TRUE, FALSE}
  OutUBuffs = {65536}
  ThreadCounts = {1}
  BindIps = {"hostname"}
  Settings <- MCSettings
  EofSeen = {TRUE, FALSE}
  MaxLines = 2
  MaxSignals = 2
CHECK_DEADLOCK FALSE
INVARIANT HostnameBinds
