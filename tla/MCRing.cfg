SPECIFICATION Spec
CONSTANTS
  MINMATCH = 2
  LASTLITERALS = 1
  MFLIMIT = 4
  MASK = 4
  BYTE = 5
  KB64 = 16
  KB4 = 8
  GB1 = 40
  STRIPE = 8
  WILDCOPYLENGTH = 3
  SKIP_TRIGGER = 6
  HASH_UNIT = 4
  RENORM = 48
  Hash <- MCHash
  clTable <- MCLevels
  OPT_NUM = 16
  PATTERN = 8
  TRIGGER = 2
  GB2 = 60
  Messages <- MCMessages
  Alone <- MCAlone
  Dictionary <- MCDictionary
  Layouts <- MCLayouts
  MaxBlock = 20
  Room = 41
  DecoderRoom = 70
  DecoderRing = 39
  MaxCalls = 2
  MaxAlone = 1
INVARIANT ReadsBack
CHECK_DEADLOCK FALSE
