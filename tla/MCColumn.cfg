CONSTANTS
  Base = 64
  Prec = 4096
  Extra = 1024
  RefRatio <- ratioList
  ByteBits = 6
  IntBits = 12
  TableWidths = {9, 10}
  Tails <- AllTails
  Data <- SomeData
  MaxData = 4
  MaxCalls = 2
  DataSets <- TwoColumns
  BatchSize = 3
  Durations <- SomeDurations
SPECIFICATION SpecColumn
INVARIANTS ShortIsDecodable ReferenceLeft RoundTrip RecoversTheRows LookupAgrees NeverLarger
PROPERTIES Repeatable Converts
CHECK_DEADLOCK FALSE
