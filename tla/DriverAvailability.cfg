SPECIFICATION FairAvailSpec
CONSTANTS
  Trips = {t1, t2}
  Drivers = {d1}
  Procs = {p1, p2}
  None = None
  MaxFaults = 1
PROPERTIES  GhostsEvicted
