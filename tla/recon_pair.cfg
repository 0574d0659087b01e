\* The worker and the API, a buy and a sell on a signal, one fault.
SPECIFICATION FairSpec
CONSTANTS
  Orders <- TwoOrders
  Symbols = {"A"}
  SymbolOf <- MCSymbolOf
  SideOf <- MCSideOf
  ParentOf <- NoParents
  Price <- MCPrice
  Quantity = 2
  StartCash = 10
  Processes = {"worker", "api"}
  Recorders = {"worker"}
  Ageing = {}
  MaxFaults = 1
INVARIANTS TypeOK BookedWithinBroker ReportedOnce ReportsAreBooked
PROPERTIES ImplementsLedger 
