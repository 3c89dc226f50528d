CONSTANTS
  MaxAddr = 1
  Byte <- MCByte
  Harts = {h0, h1}
  DebugHarts = {}
  UseMemRtl = TRUE
  Calls <- AnyCalls
  NoCall = NoCall
  PGSIZE = 2
  boot_rom <- MCRom
  RomSize = 2
  RamSize = 2
  default_rstvec = 2
  spike_ram_memory_address = 4
  extram_start_address = 6
  extram_end_address = 9
SPECIFICATION FairSpec
INVARIANT NoErrorReport
INVARIANT StopsWhenAllEnded
PROPERTY ImplementsPhysicalMemory
PROPERTY EndsOnRefusal
PROPERTY EveryAccessReturns
