CONSTANTS
  Base = 64
  Prec = 4096
  Extra = 1024
  RefRatio <- ratioList
  Widths = {}
  Modes = {2}
  Arguments <- NearTheLost
  Tails <- AllTails
SPECIFICATION Spec
INVARIANT RoundTrip
CHECK_DEADLOCK FALSE
