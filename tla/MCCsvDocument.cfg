CONSTANTS
  Starts <- TextsAndTables
  Labels <- AllLabels
  Cells <- SomeCells
  Names <- SomeNames
  MaxIndex = 2
  MaxLength = 2
SPECIFICATION Spec
INVARIANTS RoundTrip NamesFind
PROPERTIES OnlyWhatIsNamed
CHECK_DEADLOCK FALSE
