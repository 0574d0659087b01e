\* Three days of moving prices, two symbols, any trades and valuations.  The
\* bound on the snapshots ends the behaviours.
SPECIFICATION ValuationSpec
CONSTANTS
  Symbols = {"A", "B"}
  Prices = {1, 2}
  Sizes = {1, 2}
  StartCash = 9
  MaxSnaps = 4
  MaxDays = 2
  MaxMoves = 2
CHECK_DEADLOCK FALSE
INVARIANTS DailyViewsAgree OutcomesExplainCash FlatMarket
