SPECIFICATION Spec
CONSTANTS
  N = 2
  PoolSize = 1
  Requests = {r1, r2, r3}
  None = None
  QueueSize = 1
  ReservationLimit = 1
  Usize = 16
  Period = 2
SYMMETRY Symmetry
PROPERTY ElapsedMeansTimeout
CHECK_DEADLOCK FALSE
