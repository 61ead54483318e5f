SPECIFICATION Spec
CONSTANTS
  Conns = {c1}
  Requests = {r1, r2, r3}
  None = None
  QueueSize = 1
  ReservationLimit = 2
  Capacity = 2
  ActivationOrder = "FiFo"
  Backlog = 1
INVARIANTS TypeOK NoWaiterWhileIdle NoLostRequest ReservationsBounded
PROPERTIES NoOvertaking
SYMMETRY Symmetry
CHECK_DEADLOCK FALSE
