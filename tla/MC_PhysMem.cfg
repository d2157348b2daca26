CONSTANTS
  FRAME = 2
  LOW = 2
  LIMIT = 8
  BootMaps <- SmallMaps
SPECIFICATION SearchSpec
INVARIANTS
  FreeCountExact
  BootFramesKept
  UsableIsRam
  MemtestRestores
  MemtestVerdict
PROPERTIES
  SearchExact
  ReservedForever

