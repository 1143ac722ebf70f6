SPECIFICATION TzicFairSpec
CONSTANTS
  IRQ = {1, 31}
  Prio = {0, 1}
INVARIANTS
  HoldOff
  PendingCoherent
PROPERTIES
  RaiseHasCause
  RequestAnswered
