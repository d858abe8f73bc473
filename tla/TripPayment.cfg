SPECIFICATION FairSpec
CONSTANTS
  Handlers = {h1, h2}
  Fare = 4
  Commission = 1
  MaxRows = 2
  MaxOrders = 1
  MaxLost = 1
INVARIANTS PayTypeOK OneCompletedPayment LedgerMatchesSettlement 
 
CHECK_DEADLOCK FALSE
