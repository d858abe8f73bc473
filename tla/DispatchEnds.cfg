SPECIFICATION EndsSpec
CONSTANTS
  Trips = {t1}
  Drivers = {d1}
  None = None
  Workers = {w1, w2}
  Procs = {p1}
  NumWaves = 2
  MaxGens = 2
  MaxLosses = 1
  Sockets = {s1, s2}
  Qa = FALSE
  Minutes <- ResolveIn
  ReminderDays = 1
  AutocloseDays = 2
  MaxDays = 4
INVARIANT DueCountsPauses
PROPERTIES SearchQuiesces DeactivatedStaysOff WaitingEnds
CHECK_DEADLOCK FALSE
