SPECIFICATION Spec
CONSTANTS
  Missing = Missing
  Files <- MCFiles
  Edits <- MCEdits
  Types <- MCTypes
  Meant <- MCMeant
  MaxLoggers = 1
  AppenderLevels = {0, 3}
  LoggerLevels = {0, 3}
  IdRange = 2
CHECK_DEADLOCK FALSE
INVARIANT DefaultServerLogs
