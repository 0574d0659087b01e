\* Two days with restarts, exceptions and lost messages.
SPECIFICATION FairSpec
CONSTANTS
  Threshold = 5
  Drawdowns = {0, 4, 5, 9, 10}
  MaxTime = 3
  MaxFaults = 2
INVARIANTS BreachIsTold RepeatsNeedFaults
PROPERTIES SwitchIsTold
