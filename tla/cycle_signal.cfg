\* The worker and the API execute one signal for two equities.
SPECIFICATION Spec
CONSTANTS
  Symbols = {"A"}
  MaxSignals = 1
  MaxOrders = 2
  Equities = {1, 2}
  ApiSignals = {1}
  Ageing = FALSE
  MaxFaults = 0
INVARIANTS OneOrderPerSignal
