CONSTANTS
  Base = 64
  Prec = 4096
  Extra = 1024
  RefRatio <- ratioList
  DatumSize = 11
  Modes = {0, 2, 5}
  Garbage <- AllGarbage
  Tails <- AllTails
  Tables <- TwoBuilds
  BufferFields = 4
  Junk = {0, 1}
  MaxFaults = 2
SPECIFICATION SpecOne
INVARIANTS NeverAborts LookupIsDecoding LoadsTheTable SavedStatesAreSettled LoadsWholeTables
PROPERTIES EntriesAreStable CleanSaveIsWhole
CHECK_DEADLOCK FALSE
