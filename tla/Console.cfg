SPECIFICATION ConsoleFairSpec
CONSTANTS
  Depth = 2
  Char = {10, 200}
  MaxTyped = 3
  MayClose = TRUE
  Drivers = {"dummyos", "dumboot"}
  Batch <- MCBatch
  MaxWritten = 4
INVARIANTS
  FifoInBounds
  OutputFaithful
  InputFaithful
PROPERTIES
  SendsWhenReady
  WriteCompletes
