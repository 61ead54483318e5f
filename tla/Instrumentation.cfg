SPECIFICATION Spec
CONSTANTS
  N = 2
  Limit = 1
  Usize = 8
  MaxCheckouts = 2
INVARIANTS
  TypeOK QuietCountersExact UserCountsTheSum OnlyInFlightWraps CountersBounded
  ReportAddsUp
CHECK_DEADLOCK FALSE
