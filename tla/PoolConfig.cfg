SPECIFICATION FairSpec
CONSTANTS
  Absent = Absent
  Invalid = Invalid
  Sizes = {0, 5}
  Limits = {0}
  Counts = {0}
  Multipliers = {0, 2}
  QueueSizes = {0}
  Durations = {0}
  NodeLists <- MCNodeLists
  PartLists <- MCPartLists
  Backoffs <- MCBackoffs
  MaxChanges = 3
  MaxAttempts = 28
INVARIANTS
  TypeOK LastSettingWins UpdateIsPrefix NodeCapacity EveryNodeInTurn
  RetriesBackOff
PROPERTIES NeverSooner NothingLeftBehind
CHECK_DEADLOCK FALSE
