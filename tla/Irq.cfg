SPECIFICATION IrqFairSpec
CONSTANTS
  IRQ = {28, 31, 36, 39}
  Prio = {0, 1, 2, 3}
  Configurations <- MCConfigurations
  Acknowledged = {39}
  MaxCauses = 3
  MaxCalls = 1
  MaxDepth = 3
INVARIANTS
  IrqTypeOK
  NestingAboveMask
  MaskFollowsStack
PROPERTIES
  CauseServed
