SPECIFICATION OsFaultSpec
CONSTANTS
  GPR = {0, 6, 7}
  FlagMax = 1
  PriorityOf <- MCPriorityOf
  StackWords = 15
  MaxIrqs = 0
  MaxDepth = 3
PROPERTIES
  EnterByVector
