SPECIFICATION Spec
CONSTANTS
  Requests = {r1, r2}
  Operators = {o1, o2}
  Checkers = {o1, o2}
  Makers = {o1}
  SoloSuperAdmin = FALSE
  MaxCrashes = 1
  Nobody = Nobody
  Camps = {c1}
  Legacy = {}
  Trips = {t1, t2}
  Budget = 2
  Raised = 3
  Discounts = {1, 2}
  Reward = 2
  Target = 2
  MaxUses = 2
  MaxEdits = 1
  Versions = {v1, v2}
  First = v1
  Audience = {u1, u2}
  Expanders = {x1, x2}
  MaxChanges = 1
  MaxLostRuns = 1
  Messages = {m1}
  Senders = {w1, w2}
  MaxAttempts = 2
  MaxStops = 2
  MaxHolds = 1
  SosEvents = {a1}
  OnTrip = {a1}
  Cases = {n1, n2}
  NoCase = NoCase
  MaxFails = 1
INVARIANTS RunsAtMostOnce LaunchedAsApproved BudgetBalances SentAsApproved 
PROPERTIES ReservationsReturn MessagesEnd AudienceReached EverySosIsSeen
CHECK_DEADLOCK FALSE
