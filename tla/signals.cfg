\* Two strategies, or one and an unknown name, beside the API.  The bounds
\* on bars and cycles end the behaviours.
SPECIFICATION Spec
CONSTANTS
  Settings <- MCSettings
  Need <- MCNeed
  Verdicts <- MCVerdicts
  Strategies <- MCStrategies
  FetchLimit = 2
  WindowSize = 2
  MaxAge = 1
  ApiWindows = {1}
  Settling = TRUE
  MaxBars = 3
  MaxCycles = 3
CHECK_DEADLOCK FALSE
  
PROPERTIES NewestIsUsable
