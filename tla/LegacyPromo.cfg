SPECIFICATION CampaignSpec
CONSTANTS
  Requests = {r1}
  Operators = {o1, o2}
  Checkers = {o1, o2}
  Makers = {o1}
  SoloSuperAdmin = FALSE
  MaxCrashes = 0
  Nobody = Nobody
  Camps = {c1}
  Legacy = {c1}
  Trips = {t1, t2}
  Budget = 2
  Raised = 3
  Discounts = {1}
  Reward = 2
  Target = 2
  MaxUses = 2
  MaxEdits = 1
PROPERTIES ReservationsReturn
CHECK_DEADLOCK FALSE
