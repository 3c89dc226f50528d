CONSTANTS
  MaxAddr = 2
  Byte <- MCByte
  Threads = {h0, h1}
  Calls <- BaseCalls
SPECIFICATION ModelSpec
PROPERTY ImplementsMemory
