SPECIFICATION FairSpec
CONSTANTS
  PipeCapacity = 2
  MaxInput = 3
  MaxOutput = 3
  Faults = {"spawn", "wait", "read", "close", "crash"}
INVARIANTS TypeOK ResultIsFaithful OnlyLargeOutputBlocks
PROPERTIES FittingCallReturns ChildIsReleased EveryStepIsProgress
CHECK_DEADLOCK FALSE
