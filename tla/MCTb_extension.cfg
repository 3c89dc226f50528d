CONSTANTS
  MaxAddr = 1
  Byte <- MCByte
  FifoDepth = 1
  ResetEdges = 2
  tb = tb
  Long = 2
  Short = 1
  Threads <- MCThreads
  NoThread = NoThread
  NoCall = NoCall
  NoBeat = NoBeat
  Calls <- MCCalls
SPECIFICATION TestSpec
INVARIANT ExtensionDestroyed
