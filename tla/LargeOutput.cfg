SPECIFICATION FairSpec
CONSTANTS
  PipeCapacity = 2
  MaxInput = 3
  MaxOutput = 3
  Faults = {}
PROPERTY CallReturns
CHECK_DEADLOCK FALSE
