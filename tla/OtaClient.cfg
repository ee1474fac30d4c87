SPECIFICATION Spec
CONSTANTS
  Word = 4
  SectorSize = 8
  SlotSize = 16
  MaxConns = 3
  ImageLen = 12
  Versions = {1}
  Pieces = {0, 5, 7}
INVARIANTS BootedRomIsWhole FlashIsPrefix TimerMatchesUpgrade
PROPERTIES UpdateEnds
