CONSTANTS
  FRAME = 2
  LOW = 2
  LIMIT = 10
  SPAN = 2
  TARGET = 8
  MaxStacks = 2
  Junk = Junk
  BootMaps <- RamMaps
SPECIFICATION VirtSpec
INVARIANT IdentityRestored
