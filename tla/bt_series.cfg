\* Every series of five bars, in order of time, and every decision on each.
SPECIFICATION BacktestSpec
CONSTANTS
  Prices = {7, 10, 13}
  NBars = 5
  InitialCash = 40
  Shares = 2
  Slippage = 1
  Commission = 1
  StopLoss = 2
  TakeProfit = 4
INVARIANTS CashExplained StopsHold FinalWithinExit DrawdownIsLargestFall
