SPECIFICATION HostSpec
CONSTANTS
  LineSize = 1
  BlockLenMax = 1
  SwitchLen = 1
  ScrLen = 1
  MaxBlock = 1
  CntMod = 2
  ResetWml = 1
  Cmds = {2, 3, 7, 12, 18, 41, 55}
  Args = {0, 1}
  MaxBuffer = 1
  EventWords = {{"CC", "TC", "BRR"}}
INVARIANTS
  HostTypeOK
  PresentState
  IdleDrained
