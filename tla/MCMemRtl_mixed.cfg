CONSTANTS
  MaxAddr = 2
  Byte <- MCByte
  FifoDepth = 1
  ResetEdges = 2
  Threads = {h0, h1}
  NoThread = NoThread
  NoCall = NoCall
  NoBeat = NoBeat
  Calls <- MixedCalls
SPECIFICATION Spec
INVARIANT TypeOK
INVARIANT PipeBelongsToOwner
INVARIANT OnlyRangeErrors
INVARIANT BurstNeverStuck
PROPERTY ImplementsAtomicMem
