CONSTANTS
  Base = 64
  Prec = 4096
  Extra = 1024
  RefRatio <- ratioList
  DatumSize = 11
  Modes = {0}
  Garbage <- AllGarbage
  Tails <- AllTails
  Tables <- TwoBuilds
  BufferFields = 5
  Junk = {0, 2}
  MaxFaults = 0
SPECIFICATION SpecFiles
INVARIANT SavedIsDurable
CHECK_DEADLOCK FALSE
