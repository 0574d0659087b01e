\* A strategy under its old name, before one under its new name.
SPECIFICATION Spec
CONSTANTS
  Settings <- MCOldSettings
  Need <- MCOldNeed
  Verdicts <- MCOldVerdicts
  Strategies <- MCOldStrategies
  FetchLimit = 2
  WindowSize = 2
  MaxAge = 1
  ApiWindows = {}
  Settling = TRUE
  MaxBars = 3
  MaxCycles = 2
CHECK_DEADLOCK FALSE
PROPERTIES AllStrategiesRun
