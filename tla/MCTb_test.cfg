CONSTANTS
  MaxAddr = 2
  Byte <- MCByte
  FifoDepth = 1
  ResetEdges = 2
  tb = tb
  Long = 3
  Short = 2
  Threads <- MCThreads
  NoThread = NoThread
  NoCall = NoCall
  NoBeat = NoBeat
  Calls <- MCCalls
SPECIFICATION FairTestSpec
INVARIANT TestTypeOK
INVARIANT NoMismatch
INVARIANT PassMeansNoError
INVARIANT ModeMatchesStep
PROPERTY TestCompletes
