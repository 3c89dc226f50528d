CONSTANTS
  MaxAddr = 5
  Byte <- MCByte
  FifoDepth = 1
  ResetEdges = 2
  Threads = {tb}
  NoThread = NoThread
  NoCall = NoCall
  NoBeat = NoBeat
  Calls <- BurstCalls
SPECIFICATION FairSpec
INVARIANT RequestWordIsCurrent
PROPERTY ImplementsAtomicMem
PROPERTY EveryCallReturns
