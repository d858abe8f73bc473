SPECIFICATION Spec
CONSTANTS
  Handlers = {h1}
  Fare = 4
  Commission = 1
  MaxRows = 2
  MaxOrders = 2
  MaxLost = 0
INVARIANTS ChargedOnce
CHECK_DEADLOCK FALSE
