CONSTANTS
  MaxAddr = 2
  Byte <- MCByte
  Threads = {h0}
  Calls <- OffsetCalls
SPECIFICATION ModelSpec
INVARIANT BytesAtOwnAddress
