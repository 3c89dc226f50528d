CONSTANTS
  MaxAddr = 1
  Byte <- MCByte
  FifoDepth = 1
  ResetEdges = 2
  Threads = {h0, h1}
  NoThread = NoThread
  NoCall = NoCall
  NoBeat = NoBeat
  Calls <- MCCalls
  Accesses <- MCAccesses
  PGSIZE = 2
  boot_rom <- MCRom
  RomSize = 2
  RamSize = 0
  default_rstvec = 2
  spike_ram_memory_address = 4
  extram_start_address = 6
  extram_end_address = 9
SPECIFICATION FairPlatformSpec
INVARIANT StopsDrained
PROPERTY ImplementsTwoIss
PROPERTY PinsImplementPhysicalMemory
PROPERTY EveryAccessComesBack
