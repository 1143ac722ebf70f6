SPECIFICATION MmuSpec
CONSTANTS
  VB = 7
  SB = 5
  LB = 4
  PB = 3
  Devices <- MCDevices
  Procs = {p1, p2}
  Values = {1, 2}
INVARIANTS
  TranslationAsMapped
PROPERTIES
  ImplementsAddressSpaces
CHECK_DEADLOCK FALSE
