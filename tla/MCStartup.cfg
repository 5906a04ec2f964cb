CONSTANTS
  Types <- FlagTypes
  Integers <- SmallIntegers
  Defaults <- FlagDefaults
  Rejects <- NotThree
  Shape <- FlagShapes
  Pieces <- ListedTexts
  Underscored <- Dashes
  Positive <- Negated
  Whole <- Numerals
  Helps <- HelpFlags
  MaxDepth = 14
  Scenarios <- SomeScenarios
  Inputs <- Tables
  Leading <- Numerals
  Settings <- SomeSettings
  Strings <- SomeStrings
  Values <- SomeValues
  Validators <- SomeValidators
  MaxLong = 99
  MaxCalls = 2
SPECIFICATION Spec
INVARIANTS LastWins OverflowsOnlyOnCycles StartsAsAsked
PROPERTIES AllOrNothing
CHECK_DEADLOCK FALSE
