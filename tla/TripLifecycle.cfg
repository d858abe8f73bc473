SPECIFICATION Spec
CONSTANTS
  Trips = {t1, t2}
  Drivers = {d1, d2}
  Procs = {p1, p2}
  None = None
INVARIANTS TypeOK OneActiveTrip DriverMatchesStatus CountedOnce LocksProtectChecks
PROPERTIES AssignedOnceToFitDriver FinishedIsFinal ImplementsAuthority
