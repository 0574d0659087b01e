SPECIFICATION FairSpec
CONSTANTS
  Runners = {"worker", "api"}
  Daily = {"worker"}
  BatchSize = 2
  MaxBars = 2
  BarKinds = {{}, {"up"}}
  MaxTime = 2
  MaxGaps = 1
  MaxSignals = 2
  Directions <- MCDirections
  Symbols <- MCSymbols
  MaxFaults = 1
  RetrainAt = 1
  MinSamples = 1
  Rounds = 2
CHECK_DEADLOCK FALSE
   
PROPERTIES LabelsAreFinal  AllAreLabeled
