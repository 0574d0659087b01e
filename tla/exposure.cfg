\* The worker's buys and sells and the API's buys, closed at stops and targets; one
\* order may end without execution, and the symbol may be taken from the list.  The
\* bounds on moves and orders end the behaviours.
SPECIFICATION FairSpec
CONSTANTS
  Prices = {10, 11, 12}
  Start = 200
  PositionPct = 25
  MaxPositionPct = 25
  MaxExposurePct = 35
  MaxDrawdownPct = 5
  StopPct = 10
  TargetPct = 20
  WorkerSignals = {"buy", "sell"}
  ApiSignals = {"buy"}
  Settling = TRUE
  InEnv = TRUE
  MaxConfigs = 1
  MaxMoves = 2
  MaxCancels = 1
  MaxOrders = 4
CHECK_DEADLOCK FALSE
INVARIANTS NeverShort 
 
