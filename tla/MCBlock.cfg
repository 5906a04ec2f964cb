SPECIFICATION Spec
CONSTANTS
  MINMATCH = 2
  LASTLITERALS = 1
  MFLIMIT = 4
  MASK = 4
  BYTE = 5
  KB64 = 32
  KB4 = 8
  GB1 = 80
  STRIPE = 6
  WILDCOPYLENGTH = 3
  SKIP_TRIGGER = 2
  HASH_UNIT = 4
  RENORM = 60
  Hash <- MCHash
  clTable <- Levels
  OPT_NUM = 16
  PATTERN = 8
  TRIGGER = 2
  GB2 = 60
  Messages <- MCMessages
  Alone <- MCAlone
  Dictionary <- MCDictionary
  Layouts <- MCLayouts
  MaxBlock = 12
  Room = 33
  DecoderRoom = 70
  DecoderRing = 50
  MaxCalls = 4
  MaxAlone = 1
INVARIANTS ReadsBack FitsOrFails PartialIsPrefix
CHECK_DEADLOCK FALSE
