SPECIFICATION ProgSpec
CONSTANTS
  W = 4
  H = 8
  ByteMod = 16
  MemSize = 16
  Suites <- MCSuites
INVARIANTS WordOperands ComparisonsDecide WideArithmetic ShiftStepByStep IdiomsExact
  StackBalanced StoresReadBack
CHECK_DEADLOCK FALSE
