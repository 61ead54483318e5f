SPECIFICATION Spec
CONSTANTS
  Absent = Absent
  Invalid = Invalid
  Sizes = {5}
  Limits = {0}
  Counts = {0}
  Multipliers = {2}
  QueueSizes = {0}
  Durations = {0}
  NodeLists <- MCNodeLists
  PartLists <- MCPartLists
  Backoffs <- MCBackoffs
  MaxChanges = 2
  MaxAttempts = 1
INVARIANT ActivationOrderKept
CHECK_DEADLOCK FALSE
