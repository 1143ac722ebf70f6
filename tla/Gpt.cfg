SPECIFICATION GptFairSpec
CONSTANTS
  MaxCount = 2
  PrescalerMax = 1
  CRWords <- MCMixedWords
  PRWords = {0, 1}
  OCRWords = {0, 1}
  IRWords <- MCIRWords
  SRWords <- MCSRWords
INVARIANTS
  GptTypeOK
  RestartBound
PROPERTIES
  TimerFires
  LineSettles
