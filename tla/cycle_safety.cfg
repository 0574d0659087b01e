\* One symbol, two signals, both senders, one fault.
SPECIFICATION FairSpec
CONSTANTS
  Symbols = {"A"}
  MaxSignals = 2
  MaxOrders = 3
  Equities = {1}
  ApiSignals = {1}
  Ageing = TRUE
  MaxFaults = 1
INVARIANTS  LateOrdersBounded ClosesFollowBuys
PROPERTIES AnnouncedBlock PendingAreCancelled
