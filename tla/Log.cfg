SPECIFICATION Spec
CONSTANTS
  Missing = Missing
  Files <- MCFiles
  Edits <- MCEdits
  Types <- MCTypes
  Meant <- MCMeant
  MaxLoggers = 2
  AppenderLevels = {0, 3}
  LoggerLevels = {0, 3}
  IdRange = 2
CHECK_DEADLOCK FALSE
INVARIANTS KeysAgree AppendersExist LogsAsConfigured RootFound
