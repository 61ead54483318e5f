SPECIFICATION Spec
CONSTANTS
  N = 2
  PoolSize = 1
  Requests = {r1, r2, r3}
  None = None
  QueueSize = 1
  ReservationLimit = 1
  Usize = 16
  Period = 2
SYMMETRY Symmetry
INVARIANTS TypeOK OneSubPoolHasIt OnlyTheLastLetsWait
PROPERTY EverySubPoolIsAsked
CHECK_DEADLOCK FALSE
