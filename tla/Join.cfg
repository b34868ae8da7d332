SPECIFICATION FairSpec
CONSTANTS
  Items = {"value", "error", "done"}
  Hidden = {"done"}
  Futures = {"right"}
  QueueBound = 2
INVARIANTS TypeOK NoLostWakeup
PROPERTIES ImplementsMerge ItemIsTakenInTurn
CHECK_DEADLOCK FALSE
