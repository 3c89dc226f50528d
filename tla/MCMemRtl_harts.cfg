CONSTANTS
  MaxAddr = 1
  Byte <- MCByte
  FifoDepth = 2
  ResetEdges = 2
  Threads = {h0, h1}
  NoThread = NoThread
  NoCall = NoCall
  NoBeat = NoBeat
  Calls <- HartCalls
SPECIFICATION FairSpec
INVARIANT PipeBelongsToOwner
INVARIANT OneBeatWhenBlocking
PROPERTY ImplementsAtomicMem
PROPERTY WaiterIsNext
PROPERTY EveryCallReturns
