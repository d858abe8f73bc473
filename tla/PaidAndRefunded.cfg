SPECIFICATION PayoutSpec
CONSTANTS
  Withdrawals = {w1, w2}
  Procs = {p1, p2}
  None = None
  Opening = 2
  Amounts = {1}
  MaxRetries = 1
  MaxReports = 2
  MaxFaults = 1
INVARIANTS NeverPaidAndRefunded
CHECK_DEADLOCK FALSE
