CONSTANTS
  Base = 64
  Prec = 4096
  Extra = 1024
  RefRatio <- ratioList
  Widths = {10}
  Modes = {0, 2, 5}
  Arguments <- ShortAndLong
  Tails <- AllTails
SPECIFICATION FairSpec
INVARIANTS TypeOK Retraces RoundTripIfTerminable EndsUnlessTwoPoints WindowInside ReadAhead CallsAgree
PROPERTY ImplementsChannel
CHECK_DEADLOCK FALSE
