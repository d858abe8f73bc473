SPECIFICATION Spec
CONSTANTS
  Withdrawals = {w1, w2}
  Procs = {p1, p2}
  None = None
  Opening = 2
  Amounts = {1}
  MaxRetries = 1
  MaxReports = 2
  MaxFaults = 1
  Requests = {r1, r2}
  Operators = {o1, o2}
  Checkers = {o1, o2}
  Makers = {o1}
  SoloSuperAdmin = FALSE
  MaxCrashes = 1
  Nobody = Nobody
  Paid = 3
  MakerLimit = 1
  Sums = {1, 2}
  Linked = 2
  StartingBalance = 3
  Rules = {i1, i2}
  Seeded = {i2}
  Editors = {e1, e2}
  Rates = {1, 2}
SYMMETRY PayoutSymmetry
INVARIANTS  OnlyReleasedIsSent UnresolvedStaysWithheld MoneyStaysCovered RateAsApproved
CHECK_DEADLOCK FALSE
