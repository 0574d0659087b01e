\* Histories of six bars, computed from the newest four or from all.
SPECIFICATION Spec
CONSTANTS
  Closes = {1, 2, 3}
  Unit = 6
  Short = 2
  Long = 3
  RsiPeriod = 3
  BbPeriod = 4
  Fast = 2
  Slow = 3
  Smooth = 2
  Limits = {4, 6}
  MaxBars = 6
INVARIANTS CountDecides SeedFades
 
