SPECIFICATION CommandSpec
CONSTANTS
  LANES = 3
  WORD = 2
  BITS = 8
  PRIME <- MCPrime
  KB64 = 2
  BlockSizes <- MCLargeBlocks
  MINFH = 3
  CONTENTSIZE = 2
  DICTID = 1
  SKIPHEAD = 4
  BHSize = 2
  BFSize = 2
  Dictionary <- MCDictionary
  DstRoom = 12
  Dull = {7}
  LZ4IO_dBufferSize = 7
  PTSIZE = 4
  WORDT = 2
  SEGMENT = 2
  GB1 = 2
  LEGACY_BLOCKSIZE = 3
  Zero = 4
  Applications <- MCTwoFiles
INVARIANT RemovedWhenDecoded
CHECK_DEADLOCK FALSE
