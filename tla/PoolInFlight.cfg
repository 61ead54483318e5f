SPECIFICATION Spec
CONSTANTS
  Conns = {c1}
  Requests = {r1}
  None = None
  QueueSize = 1
  ReservationLimit = 1
  Capacity = 1
  ActivationOrder = "FiFo"
  Backlog = 1
INVARIANT InFlightNeverWraps
CHECK_DEADLOCK FALSE
