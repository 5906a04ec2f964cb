--------------------------- MODULE LzFrameWriter ---------------------------
(***************************************************************************)
(* The compression context of lz4-1.9.4/lib/lz4frame.c, as operators on a    *)
(* record s of the context c, the memory mem that its blocks and its          *)
(* dictionary lie in, and the bytes out that it has written.  How a block is   *)
(* compressed is left out (LzBlock has it): what matters here is which bytes  *)
(* it may refer to, those of the stream's dictionary at that moment.          *)
(* Compression levels below LZ4HC_CLEVEL_MIN.                                *)
(***************************************************************************)
EXTENDS LzFormat

CONSTANT Dull      \* a block with one of these bytes does not compress

MaxBlock == Max({BlockSizes[k] : k \in DOMAIN BlockSizes})

(* The memory: the dictionary, tmpBuff at its largest, the source. *)
TmpBuff == Len(Dictionary) + 1
Source == TmpBuff + MaxBlock + 2 * KB64 + 1

(* An LZ4_stream_t: where its dictionary is, and whether one is attached. *)
NewStream(cdict) == [dictionary |-> NULL, dictSize |-> 0, attached |-> cdict]
CreateContext ==
  [cStage |-> 0, prefs |-> <<>>, maxBlockSize |-> 0, maxBufferSize |-> 0, tmpIn |-> NULL,
   tmpInSize |-> 0, blockCompression |-> "compressed", totalInSize |-> 0, xxh |-> XXH32_reset(0),
   stream |-> NewStream(FALSE)]

(* Mutant of compressBound_internal: the bytes in tmpIn are forgotten. *)
compressBound_internal_Fresh(srcSize, p, alreadyBuffered) ==
  LET blockSize == getBlockSize(p.blockSizeID)
      lastBlockSize == IF p.autoFlush \/ srcSize = 0 THEN srcSize % blockSize ELSE 0
      nbBlocks == (srcSize \div blockSize) + (IF lastBlockSize > 0 THEN 1 ELSE 0)
  IN (BHSize + BFSize * p.blockChecksum) * nbBlocks + blockSize * (srcSize \div blockSize)
       + lastBlockSize + BHSize + p.contentChecksum * BFSize

compressBound_internal(srcSize, p, alreadyBuffered) ==
  LET flush == p.autoFlush \/ srcSize = 0
      blockSize == getBlockSize(p.blockSizeID)
      maxSrcSize == srcSize + Min({alreadyBuffered, blockSize - 1})
      lastBlockSize == IF flush THEN maxSrcSize % blockSize ELSE 0
      nbBlocks == (maxSrcSize \div blockSize) + (IF lastBlockSize > 0 THEN 1 ELSE 0)
  IN (BHSize + BFSize * p.blockChecksum) * nbBlocks + blockSize * (maxSrcSize \div blockSize)
       + lastBlockSize + BHSize + p.contentChecksum * BFSize

(* LZ4F_compressBound knows of no buffered bytes: with autoFlush there are none, *)
(* otherwise it takes as many as there can be.                                *)
compressBound(srcSize, p) ==
  compressBound_internal(srcSize, p, IF p.autoFlush THEN 0 ELSE MaxBlock)

compressFrameBound(srcSize, p) ==
  maxFHSize + compressBound_internal(srcSize, [p EXCEPT !.autoFlush = TRUE], 0)

(***************************************************************************)
(* Blocks.                                                                 *)
(***************************************************************************)
DictEnd(stream) == IF stream.dictSize = 0 THEN NULL ELSE stream.dictionary + stream.dictSize

(* What a block may refer to.  A source never lies over the dictionary. *)
History(stream, mem, source) ==
  IF stream.attached /\ DictEnd(stream) # source THEN LastOf(Dictionary, KB64)
  ELSE LastOf(Bytes(mem, stream.dictionary, stream.dictSize), KB64)

Continued(stream, source, size) ==
  IF DictEnd(stream) = source THEN [stream EXCEPT !.dictSize = @ + size]
  ELSE [dictionary |-> source, dictSize |-> size, attached |-> FALSE]

Compresses(data) == Len(data) > 1 /\ \A k \in DOMAIN data : data[k] \notin Dull

(* LZ4F_makeBlock with the function that LZ4F_selectCompression chooses. *)
MakeBlock(s, source, size) ==
  LET p == s.c.prefs
      data == Bytes(s.mem, source, size)
      stream == IF p.linked THEN s.c.stream ELSE NewStream(p.cdict)
      small == s.c.blockCompression = "compressed" /\ Compresses(data)
      payload == IF small
                 THEN Field("lz", Len(s.out), size - 1,
                            <<size>> \o data \o History(stream, s.mem, source))
                 ELSE Raw(Len(s.out), data)
      head == Field("head", Len(s.out), BHSize, <<Len(payload), IF small THEN 0 ELSE 1>>)
      crc == Field("crc", Len(s.out), BFSize * p.blockChecksum, Checked(payload))
  IN [s EXCEPT !.out = @ \o head \o payload \o crc, !.c.stream = Continued(stream, source, size)]

(* LZ4F_localSaveDict. *)
LocalSaveDict(s) ==
  LET n == Min({KB64, s.c.stream.dictSize})
      kept == Bytes(s.mem, s.c.stream.dictionary + s.c.stream.dictSize - n, n)
  IN [s EXCEPT !.mem = Write(@, TmpBuff, kept), !.c.tmpIn = TmpBuff + n,
               !.c.stream.dictionary = TmpBuff, !.c.stream.dictSize = n]

TmpIsFull(c) == c.tmpIn + c.maxBlockSize > TmpBuff + c.maxBufferSize

(* The block of n bytes in tmpIn, which linked blocks go on behind. *)
BlockFromTmp(s, n) ==
  [MakeBlock(s, s.c.tmpIn, n) EXCEPT !.c.tmpIn = IF s.c.prefs.linked THEN @ + n ELSE @,
                                     !.c.tmpInSize = 0]

flush(s) ==
  LET t == BlockFromTmp(s, s.c.tmpInSize)
  IN IF s.c.tmpInSize = 0 THEN s ELSE IF TmpIsFull(t.c) THEN LocalSaveDict(t) ELSE t

(***************************************************************************)
(* LZ4F_compressBegin_usingCDict for a context that is new or has ended a    *)
(* frame, so that tmpBuff is allocated anew where one is needed.             *)
(***************************************************************************)
compressBegin(s, p0) ==
  LET p == [p0 EXCEPT !.blockSizeID = IF @ = 0 THEN 4 ELSE @]
      block == getBlockSize(p.blockSizeID)
      required == IF p.autoFlush THEN (IF p.linked THEN KB64 ELSE 0)
                  ELSE block + (IF p.linked THEN 2 * KB64 ELSE 0)
  IN [s EXCEPT !.c.prefs = p, !.c.maxBlockSize = block,
               !.c.maxBufferSize = Max({@, required}),
               !.c.tmpIn = TmpBuff, !.c.tmpInSize = 0, !.c.xxh = XXH32_reset(0),
               !.c.stream = IF p.linked THEN NewStream(p.cdict) ELSE @,
               !.c.totalInSize = IF p.contentSize > 0 THEN 0 ELSE @,
               !.c.cStage = 1,
               !.out = @ \o Field("frame", Len(s.out), HeaderSize(p), HeaderValue(p))]

(***************************************************************************)
(* LZ4F_compressUpdateImpl: s also has src, what is read next of the source, *)
(* srcEnd, and last, where the last block came from.                         *)
(***************************************************************************)
Left(s) == s.srcEnd - s.src

Buffer(s, n) ==
  [s EXCEPT !.mem = Write(@, s.c.tmpIn + s.c.tmpInSize, Bytes(@, s.src, n)),
            !.c.tmpInSize = @ + n, !.src = @ + n]

CompleteTmp(s) ==
  LET sizeToCopy == s.c.maxBlockSize - s.c.tmpInSize
  IN CASE s.c.tmpInSize = 0 -> s
       [] s.c.tmpInSize > 0 /\ sizeToCopy > Left(s) -> Buffer(s, Left(s))
       [] OTHER -> [BlockFromTmp(Buffer(s, sizeToCopy), s.c.maxBlockSize) EXCEPT !.last = "tmp"]

BlockFromSource(s, n) == [MakeBlock(s, s.src, n) EXCEPT !.src = @ + n, !.last = "src"]

FullBlocks(s) ==
  LET n == Left(s) \div s.c.maxBlockSize
      after[k \in 0 .. n] == IF k = 0 THEN s ELSE BlockFromSource(after[k - 1], s.c.maxBlockSize)
  IN after[n]

(* Mutant of FlushRest: autoFlush is not looked at. *)
FlushRest_Keeps(s) == s
FlushRest(s) == IF s.c.prefs.autoFlush /\ Left(s) > 0 THEN BlockFromSource(s, Left(s)) ELSE s

PreserveDictionary(s, stableSrc) ==
  CASE ~(s.c.prefs.linked /\ s.last = "src") -> s
    [] s.c.prefs.linked /\ s.last = "src" /\ stableSrc -> [s EXCEPT !.c.tmpIn = TmpBuff]
    [] OTHER -> LocalSaveDict(s)

(* Mutant of KeepWithinLimits: no room is made for the next block. *)
KeepWithinLimits_Never(s) == s
KeepWithinLimits(s) == IF ~s.c.prefs.autoFlush /\ TmpIsFull(s.c) THEN LocalSaveDict(s) ELSE s

BufferRest(s) == IF Left(s) > 0 THEN Buffer([s EXCEPT !.c.tmpInSize = 0], Left(s)) ELSE s

compressUpdate(s, src, n, mode, stableSrc) ==
  LET ready == IF s.c.blockCompression # mode
               THEN [flush(s) EXCEPT !.c.blockCompression = mode] ELSE s
      begun == ready @@ [src |-> src, srcEnd |-> src + n, last |-> "none"]
      done == BufferRest(KeepWithinLimits(PreserveDictionary(FlushRest(FullBlocks(CompleteTmp(begun))),
                                                             stableSrc)))
      input == Bytes(s.mem, src, n)
  IN [mem |-> done.mem, out |-> done.out,
      c |-> [done.c EXCEPT !.xxh = IF done.c.prefs.contentChecksum = 1
                                   THEN XXH32_update(@, input) ELSE @,
                           !.totalInSize = @ + n]]

(* LZ4F_compressEnd; the frame is complete even if its size is not the one    *)
(* that the header declares.                                                *)
SizeIsRight(c) == c.prefs.contentSize > 0 => c.prefs.contentSize = c.totalInSize

compressEnd(s) ==
  LET t == flush(s)
      mark == Field("head", Len(t.out), BHSize, <<0, 0>>)
      sum == Field("sum", Len(t.out), BFSize * t.c.prefs.contentChecksum, <<XXH32_digest(t.c.xxh)>>)
  IN [t EXCEPT !.out = @ \o mark \o sum, !.c.cStage = 0, !.c.maxBufferSize = 0]

(* LZ4F_compressFrame_usingCDict of the n bytes at src. *)
FramePrefs(p, n) ==
  LET id == optimalBSID(p.blockSizeID, n)
  IN [p EXCEPT !.contentSize = IF @ > 0 THEN n ELSE 0, !.blockSizeID = id, !.autoFlush = TRUE,
               !.linked = @ /\ n > getBlockSize(id)]

compressFrame(s, src, n, p) ==
  compressEnd(compressUpdate(compressBegin(s, FramePrefs(p, n)), src, n, "compressed", TRUE))
=============================================================================
