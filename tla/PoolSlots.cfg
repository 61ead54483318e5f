SPECIFICATION Spec
CONSTANTS
  Conns = {c1, c2}
  Requests = {r1, r2}
  None = None
  QueueSize = 2
  ReservationLimit = 1
  Capacity = 1
  ActivationOrder = "LiFo"
  Backlog = 1
INVARIANTS SlotConservation CountersExact
PROPERTIES ImplementsConnectionPool
SYMMETRY Symmetry
CHECK_DEADLOCK FALSE
