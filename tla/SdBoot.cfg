SPECIFICATION BootFairSpec
CONSTANTS
  LineSize = 4
  BlockLenMax = 4
  SwitchLen = 1
  ScrLen = 1
  MaxBlock = 8
  CntMod = 8
  ResetWml = 1
  BlockWords = 3
  DriverWml = 1
  Reads <- MCReads
  Racy = FALSE
INVARIANTS
  NoExit
  WordAvailable
  CleanStart
PROPERTIES
  ImplementsBlockRead
