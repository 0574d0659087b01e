\* The worker alone: two buys and a close of the first, one fault.
SPECIFICATION FairSpec
CONSTANTS
  Orders <- ThreeOrders
  Symbols = {"A"}
  SymbolOf <- MCSymbolOf
  SideOf <- MCSideOf
  ParentOf <- LastClosesFirst
  Price <- MCPrice
  Quantity = 2
  StartCash = 10
  Processes = {"worker"}
  Recorders = {"worker"}
  Ageing = {1}
  MaxFaults = 1
INVARIANTS CashMatchesFills ClosedTradeHasOutcome
PROPERTIES StaleIsSettled ImplementsExactLedger
