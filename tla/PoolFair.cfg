SPECIFICATION FairSpec
CONSTANTS
  Conns = {c1}
  Requests = {r1, r2}
  None = None
  QueueSize = 1
  ReservationLimit = 1
  Capacity = 1
  ActivationOrder = "FiFo"
  Backlog = 1
PROPERTIES EveryCheckoutAnswered
CHECK_DEADLOCK FALSE
