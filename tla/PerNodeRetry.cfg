SPECIFICATION RuntimeSpec
CONSTANTS
  N = 1
  PoolSize = 1
  Requests = {r1, r2, r3}
  None = None
  QueueSize = 1
  ReservationLimit = 1
  Usize = 16
  Period = 1
PROPERTIES BoundedCheckoutsEnd SubPoolsEnd
CHECK_DEADLOCK FALSE
