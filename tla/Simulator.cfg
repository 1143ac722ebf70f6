SPECIFICATION SimSpec
CONSTANTS
  Addresses = {0, 1, 2}
  Fields = {1, 2, 3}
  QuantMax = 3
  MaxInserted = 2
  MaxFaults = 1
  Machines <- MCMachines
  Commands <- MCCommands
  Magnitude = 1
  MaxStores = 1
INVARIANTS
  ExecutesMemory
PROPERTIES
  StopsExactly
  CommandsComplete
CHECK_DEADLOCK FALSE
