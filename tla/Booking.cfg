SPECIFICATION FairBookingSpec
CONSTANTS
  Trips = {t1, t2}
  Drivers = {d1}
  None = None
  Requests = {r1, r2}
  Procs = {p1, p2}
  MaxFrames = 3
  MaxLosses = 1
INVARIANTS RepliesAgree OneSearchPerTrip TimeoutSparesAccepted
PROPERTIES SearchEnds
CHECK_DEADLOCK FALSE
