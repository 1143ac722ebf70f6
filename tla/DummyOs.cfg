SPECIFICATION OsSpec
CONSTANTS
  GPR = {0, 6, 7}
  FlagMax = 1
  PriorityOf <- MCPriorityOf
  StackWords = 15
  MaxIrqs = 2
  MaxDepth = 3
INVARIANTS
  NothingLeftBehind
PROPERTIES
  Transparent
  EnterByVector
  HandlersReturn
