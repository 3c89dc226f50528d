CONSTANTS
  MaxAddr = 12
  Byte <- MCZero
  FifoDepth = 4
  ResetEdges = 2
  Threads = {tb}
  NoThread = NoThread
  NoCall = NoCall
  NoBeat = NoBeat
  Calls <- FullCalls
SPECIFICATION FairSpec
PROPERTY BurstAdvances
PROPERTY EveryCallReturns
