CONSTANTS
  MaxChanges = 4
  MaxAppCalls = 2
  MaxButtons = 1
  MaxPending = 2
  MAX_FAILED_CONNECTS = 2
  ErrorWrap = 5
SPECIFICATION Spec
INVARIANTS TypeOK FailuresReset Watched FlagFollowsLink OnlyToRunningChip
CHECK_DEADLOCK FALSE
PROPERTIES WatchdogActs Revives CloudGivenUp
