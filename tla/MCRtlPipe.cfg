CONSTANTS
  MaxAddr = 0
  Byte <- MCByte
  FifoDepth = 1
  ResetEdges = 2
SPECIFICATION PipeSpec
INVARIANT PipeTypeOK
PROPERTY ImplementsMemQueue
PROPERTY StableUnderBackpressure
