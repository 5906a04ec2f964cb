--------------------------- MODULE LzFrameReader ---------------------------
(***************************************************************************)
(* LZ4F_decompress of lz4-1.9.4/lib/lz4frame.c: a machine that takes the     *)
(* bytes of a frame in whatever portions they come, gives its content in     *)
(* whatever portions there is room for, and stops between any two bytes.     *)
(* One action per stage; a call runs through stages until one says that it   *)
(* is not to go on.                                                          *)
(***************************************************************************)
EXTENDS LzFormat

CONSTANT DstRoom     \* bytes of the application's output memory

VARIABLES wire,     \* the bytes that are decoded
          d,        \* the LZ4F_dctx
          mem,      \* the dictionary, tmpOutBuffer and the application's output memory
          pos,      \* how much of the wire has been read
          call,     \* the call that is running, <<>> or one record
          hint,     \* what the last call returned
          got,      \* the content that the calls have given
          failed    \* a call has returned an error
reader == <<d, mem, pos, call, hint, got, failed>>

(* The memory.  The regions do not touch. *)
TmpOutBuffer == Len(Dictionary) + 1
TmpOutRoom == Max({BlockSizes[k] : k \in DOMAIN BlockSizes}) + 2 * KB64
Dst == TmpOutBuffer + TmpOutRoom + 1
Blank == [a \in 0 .. Dst + DstRoom - 1 |-> IF a < Len(Dictionary) THEN Dictionary[a + 1] ELSE Garbage]

CreateContext_d ==
  [dStage |-> "getFrameHeader", info |-> [linked |-> FALSE, blockChecksum |-> 0, contentChecksum |-> 0,
                                          contentSize |-> 0, dictID |-> 0, blockSizeID |-> 0],
   remaining |-> 0, maxBlockSize |-> 0, maxBufferSize |-> 0, held |-> <<>>, tmpInTarget |-> 0,
   dict |-> NULL, dictSize |-> 0, tmpOut |-> NULL, tmpOutSize |-> 0, tmpOutStart |-> 0,
   xxh |-> XXH32_reset(0), blockChecksum |-> <<>>, skipChecksum |-> FALSE]

(* LZ4F_resetDecompressionContext. *)
Reset(ctx) ==
  [ctx EXCEPT !.dStage = "getFrameHeader", !.dict = NULL, !.dictSize = 0, !.skipChecksum = FALSE]

(***************************************************************************)
(* A running call: srcEnd, where its input ends; dst, dstPtr and dstEnd, its  *)
(* output, NULL without one; more, whether another stage is to follow.        *)
(***************************************************************************)
c == call[1]
Input(n) == SubSeq(wire, pos + 1, pos + n)
Available == c.srcEnd - pos
RoomLeft == c.dstEnd - c.dstPtr
At(stage) == call # <<>> /\ c.more /\ d.dStage = stage

(* The end of a step of the call.  Go: another stage follows; Wait: the call   *)
(* returns, with what it would like to get next.                              *)
Go(ctx) == d' = ctx /\ UNCHANGED <<call, hint, failed>>
Wait(ctx, next) ==
  d' = ctx /\ call' = <<[c EXCEPT !.more = FALSE]>> /\ hint' = next /\ UNCHANGED failed
Fail == failed' = TRUE /\ call' = <<>> /\ hint' = NULL /\ UNCHANGED <<d, mem, got>>
Read(n) == pos' = pos + n
Keep == UNCHANGED <<mem, got>>

(* What is held of a field of `target' bytes after the next input. *)
Wanted(target) == Min({target - Len(d.held), Available})
Held(target) == [d EXCEPT !.held = @ \o Input(Wanted(target))]

(***************************************************************************)
(* The frame header.                                                       *)
(***************************************************************************)
(* LZ4F_decodeHeader of a complete header. *)
HeaderDecoded(v) ==
  [d EXCEPT !.info = v, !.maxBlockSize = getBlockSize(v.blockSizeID), !.dStage = "init",
            !.remaining = IF v.contentSize > 0 THEN v.contentSize ELSE @]

(* The shortcut: the header is read where it is. *)
GetFrameHeader ==
  /\ At("getFrameHeader") /\ Keep
  /\ IF Available >= maxFHSize
     THEN IF wire[pos + 1].kind = "skip"
          THEN Go([d EXCEPT !.dStage = "getSFrameSize"]) /\ Read(SKIPHEAD - BHSize)
          ELSE LET v == wire[pos + 1].value
               IN IF Whole(Input(HeaderSize(v)), "frame")
                  THEN Go(HeaderDecoded(v)) /\ Read(HeaderSize(v)) ELSE Fail /\ Read(0)
     ELSE IF Available = 0 THEN Wait([d EXCEPT !.held = <<>>], MINFH) /\ Read(0)
     ELSE Go([d EXCEPT !.held = <<>>, !.tmpInTarget = MINFH, !.dStage = "storeFrameHeader"]) /\ Read(0)

StoreFrameHeader ==
  /\ At("storeFrameHeader") /\ Keep /\ Read(Wanted(d.tmpInTarget))
  /\ LET ctx == Held(d.tmpInTarget)
         v == ctx.held[1].value
     IN CASE Len(ctx.held) < d.tmpInTarget -> Wait(ctx, d.tmpInTarget - Len(ctx.held) + BHSize)
          [] Len(ctx.held) = d.tmpInTarget /\ ctx.held[1].kind = "skip" ->
               Go([ctx EXCEPT !.tmpInTarget = SKIPHEAD, !.dStage = "storeSFrameSize"])
          [] OTHER -> IF d.tmpInTarget < HeaderSize(v) THEN Go([ctx EXCEPT !.tmpInTarget = HeaderSize(v)])
                      ELSE IF Whole(ctx.held, "frame")
                      THEN Go([HeaderDecoded(v) EXCEPT !.held = ctx.held]) ELSE Fail

(* The buffers are allocated anew when they are too small. *)
InitFrame ==
  /\ At("init") /\ Keep /\ Read(0)
  /\ LET needed == d.maxBlockSize + IF d.info.linked THEN 2 * KB64 ELSE 0
     IN Go([d EXCEPT !.xxh = IF d.info.contentChecksum = 1 THEN XXH32_reset(0) ELSE @,
                     !.maxBufferSize = Max({@, needed}),
                     !.held = <<>>, !.tmpInTarget = 0, !.tmpOut = TmpOutBuffer,
                     !.tmpOutStart = 0, !.tmpOutSize = 0, !.dStage = "getBlockHeader"])

(***************************************************************************)
(* Blocks.                                                                 *)
(***************************************************************************)
BlockHeader(ctx, bytes, read) ==
  LET size == bytes[1].value[1]
      raw == bytes[1].value[2] = 1
      crc == d.info.blockChecksum * BFSize
      compressed == [ctx EXCEPT !.tmpInTarget = size + crc, !.dStage = "getCBlock"]
  IN CASE ~Whole(bytes, "head") -> Fail
       [] Whole(bytes, "head") /\ size = 0 -> Go([ctx EXCEPT !.dStage = "getSuffix"])
       [] Whole(bytes, "head") /\ size > d.maxBlockSize -> Fail
       [] Whole(bytes, "head") /\ size \in 1 .. d.maxBlockSize /\ raw ->
            Go([ctx EXCEPT !.tmpInTarget = size, !.blockChecksum = IF crc > 0 THEN <<>> ELSE @,
                           !.dStage = "copyDirect"])
       [] OTHER -> IF RoomLeft = 0 \/ Available = read THEN Wait(compressed, BHSize + size + crc)
                   ELSE Go(compressed)

GetBlockHeader ==
  /\ At("getBlockHeader")
  /\ IF Available >= BHSize
     THEN Read(BHSize) /\ Keep /\ BlockHeader(d, Input(BHSize), BHSize)
     ELSE Read(0) /\ Keep /\ Go([d EXCEPT !.held = <<>>, !.dStage = "storeBlockHeader"])

StoreBlockHeader ==
  /\ At("storeBlockHeader") /\ Read(Wanted(BHSize)) /\ Keep
  /\ LET ctx == Held(BHSize)
     IN IF Len(ctx.held) < BHSize THEN Wait(ctx, BHSize - Len(ctx.held))
        ELSE BlockHeader(ctx, ctx.held, Wanted(BHSize))

(* LZ4F_updateDict, of the context ctx and the memory m, when n bytes have    *)
(* been written to dstPtr.                                                   *)
Preserved(ctx, m) ==
  LET preserveSize == ctx.tmpOut - TmpOutBuffer
      copySize == Min({Max({0, KB64 - ctx.tmpOutSize}), preserveSize})
      oldDictEnd == ctx.dict + ctx.dictSize - ctx.tmpOutStart
  IN Write(m, TmpOutBuffer + preserveSize - copySize, Bytes(m, oldDictEnd - copySize, copySize))

(* The last n bytes of the dictionary to the start of tmpOutBuffer, then those *)
(* in dst.                                                                   *)
Joined(ctx, m, n, dstPtr, size) ==
  LET kept == Bytes(m, ctx.dict + ctx.dictSize - n, n)
  IN Write(m, TmpOutBuffer, kept \o Bytes(m, dstPtr, size))

UpdateDict(ctx0, m, dstPtr, n, withinTmp) ==
  LET ctx == IF ctx0.dictSize = 0 THEN [ctx0 EXCEPT !.dict = dstPtr] ELSE ctx0
      inTmp == ctx.dict = TmpOutBuffer
      room == KB64 - n
      size == IF inTmp THEN (IF ctx.dictSize + n > ctx.maxBufferSize THEN room ELSE ctx.dictSize)
              ELSE Min({room, ctx.dictSize})
  IN CASE ctx.dict + ctx.dictSize = dstPtr -> [d |-> [ctx EXCEPT !.dictSize = @ + n], mem |-> m]
       [] ctx.dict + ctx.dictSize # dstPtr /\ dstPtr - c.dst + n >= KB64 ->
            [d |-> [ctx EXCEPT !.dict = c.dst, !.dictSize = dstPtr - c.dst + n], mem |-> m]
       [] ctx.dict + ctx.dictSize # dstPtr /\ dstPtr - c.dst + n < KB64 /\ withinTmp ->
            IF inTmp THEN [d |-> [ctx EXCEPT !.dictSize = @ + n], mem |-> m]
            ELSE [d |-> [ctx EXCEPT !.dict = TmpOutBuffer,
                                    !.dictSize = ctx.tmpOut - TmpOutBuffer + ctx.tmpOutStart + n],
                  mem |-> Preserved(ctx, m)]
       [] OTHER -> [d |-> [ctx EXCEPT !.dict = TmpOutBuffer, !.dictSize = size + n],
                    mem |-> Joined(ctx, m, size, dstPtr, n)]

Linked(ctx, m, dstPtr, n, withinTmp) ==
  IF ctx.info.linked THEN UpdateDict(ctx, m, dstPtr, n, withinTmp) ELSE [d |-> ctx, mem |-> m]

(* Bytes of content that have been decoded. *)
Counted(ctx, bytes) ==
  [ctx EXCEPT !.remaining = IF ctx.info.contentSize > 0 THEN @ - Len(bytes) ELSE @,
              !.xxh = IF ctx.info.contentChecksum = 1 /\ ~ctx.skipChecksum
                      THEN XXH32_update(@, bytes) ELSE @]

Advance(n) == call' = <<[c EXCEPT !.dstPtr = IF @ = NULL THEN @ ELSE @ + n]>>

(* Without an output, dst is NULL and nothing is copied. *)
CopyDirect ==
  LET n == IF c.dst = NULL THEN 0 ELSE Min({d.tmpInTarget, Available, RoomLeft})
      written == Write(mem, c.dstPtr, [k \in 1 .. n |-> Input(n)[k].value[1]])
      counted == [Counted(d, Checked(Input(n))) EXCEPT
                    !.blockChecksum = IF d.info.blockChecksum = 1 /\ ~d.skipChecksum
                                      THEN @ \o Checked(Input(n)) ELSE @]
      r == IF c.dst = NULL THEN [d |-> d, mem |-> mem]
           ELSE Linked(counted, written, c.dstPtr, n, FALSE)
      left == d.tmpInTarget - n
      crc == d.info.blockChecksum = 1
  IN /\ At("copyDirect") /\ Read(n) /\ mem' = r.mem /\ UNCHANGED <<got, failed>>
     /\ IF left = 0
        THEN /\ d' = [r.d EXCEPT !.held = IF crc THEN <<>> ELSE @,
                                 !.dStage = IF crc THEN "getBlockChecksum" ELSE "getBlockHeader"]
             /\ Advance(n) /\ UNCHANGED hint
        ELSE /\ d' = [r.d EXCEPT !.tmpInTarget = left]
             /\ call' = <<[c EXCEPT !.dstPtr = IF @ = NULL THEN @ ELSE @ + n, !.more = FALSE]>>
             /\ hint' = left + d.info.blockChecksum * BFSize + BHSize

(* The call that waits here returns the hint it began with. *)
GetBlockChecksum ==
  /\ At("getBlockChecksum") /\ Read(Wanted(BFSize)) /\ Keep
  /\ LET ctx == Held(BFSize)
     IN IF Len(ctx.held) < BFSize THEN Wait(ctx, 1)
        ELSE IF d.skipChecksum \/ (Whole(ctx.held, "crc") /\ ctx.held[1].value = d.blockChecksum)
        THEN Go([ctx EXCEPT !.dStage = "getBlockHeader"]) ELSE Fail

(* LZ4_decompress_safe_usingDict: a block is decoded only with the history    *)
(* that it refers to.                                                       *)
Plain(value) == SubSeq(value, 2, value[1] + 1)
Referred(value) == SubSeq(value, value[1] + 2, Len(value))
DecodesWith(value, ctx) ==
  LET known == LastOf(Bytes(mem, ctx.dict, ctx.dictSize), KB64)
  IN LastOf(known, Len(Referred(value))) = Referred(value)

(* The block `bytes' into dst, if it has room for any block and the dictionary *)
(* is not just before tmpOut.                                               *)
Direct(ctx) ==
  c.dst # NULL /\ RoomLeft >= ctx.maxBlockSize /\ ~(ctx.dict # NULL /\ ctx.dict + ctx.dictSize = ctx.tmpOut)

DecodeToDst(ctx, plain) ==
  LET r == Linked(Counted(ctx, plain), Write(mem, c.dstPtr, plain), c.dstPtr, Len(plain), FALSE)
  IN /\ d' = [r.d EXCEPT !.dStage = "getBlockHeader"] /\ mem' = r.mem
     /\ Advance(Len(plain)) /\ UNCHANGED <<hint, got, failed>>

(* Where tmpOut is to be, behind the dictionary or the room for it; what is    *)
(* beyond 128 KB of a dictionary in tmpOutBuffer is dropped first.            *)
Truncates(ctx) == ctx.info.linked /\ ctx.dict = TmpOutBuffer /\ ctx.dictSize > 2 * KB64
TmpOutFor(ctx) ==
  CASE ~ctx.info.linked -> ctx.tmpOut
    [] ctx.info.linked /\ ctx.dict = TmpOutBuffer ->
         TmpOutBuffer + (IF Truncates(ctx) THEN KB64 ELSE ctx.dictSize)
    [] OTHER -> TmpOutBuffer + Min({ctx.dictSize, KB64})

DecodeToTmp(ctx, plain) ==
  LET m == IF Truncates(ctx)
           THEN Write(mem, TmpOutBuffer, Bytes(mem, ctx.dict + ctx.dictSize - KB64, KB64)) ELSE mem
      out == TmpOutFor(ctx)
  IN /\ d' = [Counted(ctx, plain) EXCEPT !.tmpOut = out, !.tmpOutSize = Len(plain), !.tmpOutStart = 0,
                                         !.dictSize = IF Truncates(ctx) THEN KB64 ELSE @,
                                         !.dStage = "flushOut"]
     /\ mem' = Write(m, out, plain) /\ UNCHANGED <<call, hint, got, failed>>

(* A whole compressed block with its checksum, which is always compared. *)
DecodeBlock(ctx, bytes) ==
  LET n == Len(bytes) - d.info.blockChecksum * BFSize
      block == SubSeq(bytes, 1, n)
      crc == SubSeq(bytes, n + 1, Len(bytes))
      value == bytes[1].value
  IN IF \/ ~Whole(block, "lz")
        \/ d.info.blockChecksum = 1 /\ ~(Whole(crc, "crc") /\ crc[1].value = Checked(block))
        \/ ~DecodesWith(value, ctx)
     THEN Fail
     ELSE IF Direct(ctx) THEN DecodeToDst([ctx EXCEPT !.tmpInTarget = n], Plain(value))
     ELSE DecodeToTmp([ctx EXCEPT !.tmpInTarget = n], Plain(value))

(* Mutant of GetCBlock: a part of a block is left where it is. *)
GetCBlock_Waits ==
  /\ At("getCBlock")
  /\ IF Available < d.tmpInTarget THEN Read(0) /\ Keep /\ Wait(d, d.tmpInTarget)
     ELSE Read(d.tmpInTarget) /\ DecodeBlock(d, Input(d.tmpInTarget))
GetCBlock ==
  /\ At("getCBlock")
  /\ IF Available < d.tmpInTarget
     THEN Read(0) /\ Keep /\ Go([d EXCEPT !.held = <<>>, !.dStage = "storeCBlock"])
     ELSE Read(d.tmpInTarget) /\ DecodeBlock(d, Input(d.tmpInTarget))

StoreCBlock ==
  /\ At("storeCBlock") /\ Read(Wanted(d.tmpInTarget))
  /\ LET ctx == Held(d.tmpInTarget)
     IN IF Len(ctx.held) < d.tmpInTarget
        THEN Keep /\ Wait(ctx, d.tmpInTarget - Len(ctx.held) + d.info.blockChecksum * BFSize + BHSize)
        ELSE DecodeBlock(ctx, ctx.held)

FlushOut ==
  LET n == IF c.dst = NULL THEN 0 ELSE Min({d.tmpOutSize - d.tmpOutStart, RoomLeft})
      written == Write(mem, c.dstPtr, Bytes(mem, d.tmpOut + d.tmpOutStart, n))
      r == IF c.dst = NULL THEN [d |-> d, mem |-> mem] ELSE Linked(d, written, c.dstPtr, n, TRUE)
      all == d.tmpOutStart + n = d.tmpOutSize
  IN /\ At("flushOut") /\ Read(0) /\ mem' = r.mem /\ UNCHANGED <<got, failed>>
     /\ d' = [r.d EXCEPT !.tmpOutStart = @ + n, !.dStage = IF all THEN "getBlockHeader" ELSE @]
     /\ call' = <<[c EXCEPT !.dstPtr = IF @ = NULL THEN @ ELSE @ + n, !.more = all]>>
     /\ hint' = IF all THEN hint ELSE BHSize

(***************************************************************************)
(* The end of a frame, and frames to skip.                                  *)
(***************************************************************************)
(* Mutant of GetSuffix: the frame is over at its end mark. *)
GetSuffix_Mark ==
  /\ At("getSuffix") /\ Read(0) /\ Keep
  /\ IF d.remaining # 0 THEN Fail ELSE Wait(Reset(d), 0)
GetSuffix ==
  /\ At("getSuffix") /\ Read(0) /\ Keep
  /\ CASE d.remaining # 0 -> Fail
       [] d.remaining = 0 /\ d.info.contentChecksum = 0 -> Wait(Reset(d), 0)
       [] OTHER -> Go([d EXCEPT !.held = <<>>, !.dStage = "storeSuffix"])

StoreSuffix ==
  /\ At("storeSuffix") /\ Read(Wanted(BFSize)) /\ Keep
  /\ LET ctx == Held(BFSize)
     IN IF Len(ctx.held) < BFSize THEN Wait(ctx, BFSize - Len(ctx.held))
        ELSE IF d.skipChecksum \/ (Whole(ctx.held, "sum") /\ ctx.held[1].value = <<XXH32_digest(d.xxh)>>)
        THEN Wait(Reset(ctx), 0) ELSE Fail

(* The size of a skippable frame: bytes of its header that were read before    *)
(* are held, or stand for themselves.                                        *)
SkipSize(ctx, value) == [ctx EXCEPT !.tmpInTarget = value[1], !.dStage = "skipSkippable"]
GetSFrameSize ==
  /\ At("getSFrameSize") /\ Keep
  /\ IF Available >= BHSize THEN Read(BHSize) /\ Go(SkipSize(d, wire[pos + 1].value))
     ELSE /\ Read(0)
          /\ Go([d EXCEPT !.held = SubSeq(wire, pos - (SKIPHEAD - BHSize) + 1, pos),
                          !.tmpInTarget = SKIPHEAD, !.dStage = "storeSFrameSize"])

StoreSFrameSize ==
  /\ At("storeSFrameSize") /\ Keep /\ Read(Wanted(d.tmpInTarget))
  /\ LET ctx == Held(d.tmpInTarget)
     IN IF Len(ctx.held) < d.tmpInTarget THEN Wait(ctx, d.tmpInTarget - Len(ctx.held))
        ELSE IF Whole(ctx.held, "skip") THEN Go(SkipSize(ctx, ctx.held[1].value)) ELSE Fail

SkipSkippable ==
  LET n == Min({d.tmpInTarget, Available})
      left == d.tmpInTarget - n
  IN /\ At("skipSkippable") /\ Keep /\ Read(n)
     /\ Wait(IF left = 0 THEN Reset([d EXCEPT !.tmpInTarget = 0]) ELSE [d EXCEPT !.tmpInTarget = left],
             left)

(***************************************************************************)
(* The beginning and the end of a call.                                      *)
(***************************************************************************)
(* LZ4F_decompress_usingDict with a dictionary: until the first block. *)
WithDictionary(ctx, dictionary) ==
  IF dictionary /\ ctx.dStage \in {"getFrameHeader", "storeFrameHeader", "init"}
  THEN [ctx EXCEPT !.dict = 0, !.dictSize = Len(Dictionary)] ELSE ctx

BeginCall(n, dst, room, dictionary, skipChecksums) ==
  /\ call = <<>> /\ ~failed
  /\ d' = [WithDictionary(d, dictionary) EXCEPT !.skipChecksum = @ \/ skipChecksums]
  /\ call' = <<[from |-> pos, srcEnd |-> pos + n, dst |-> dst, dstPtr |-> dst,
                dstEnd |-> IF dst = NULL THEN NULL ELSE dst + room, more |-> TRUE]>>
  /\ UNCHANGED <<mem, pos, hint, got, failed>>

(* Before a call returns, the history that dst holds is copied into          *)
(* tmpOutBuffer, unless dst is going to stay as it is.                        *)
MovesHistory(ctx, stableDst) ==
  /\ ctx.info.linked /\ ctx.dict \notin {TmpOutBuffer, NULL} /\ ~stableDst
  /\ ctx.dStage \notin {"getFrameHeader", "storeFrameHeader", "getSuffix", "storeSuffix",
                        "getSFrameSize", "storeSFrameSize", "skipSkippable"}

(* Mutant of WithHistory: the bytes are copied, tmpOut stays where it was. *)
WithHistory_Forgets(ctx, m, stableDst) ==
  IF MovesHistory(ctx, stableDst) THEN [d |-> [ctx EXCEPT !.dict = TmpOutBuffer], mem |-> m]
  ELSE [d |-> ctx, mem |-> m]
WithHistory(ctx, m, stableDst) ==
  LET n == Min({ctx.dictSize, KB64})
  IN IF ~MovesHistory(ctx, stableDst) THEN [d |-> ctx, mem |-> m]
     ELSE IF ctx.dStage = "flushOut"
     THEN [d |-> [ctx EXCEPT !.dict = TmpOutBuffer,
                             !.dictSize = ctx.tmpOut - TmpOutBuffer + ctx.tmpOutStart],
           mem |-> Preserved(ctx, m)]
     ELSE [d |-> [ctx EXCEPT !.dict = TmpOutBuffer, !.dictSize = n, !.tmpOut = TmpOutBuffer + n],
           mem |-> Write(m, TmpOutBuffer, Bytes(m, ctx.dict + ctx.dictSize - n, n))]

(* The application takes what the call gave, and may use dst again. *)
EndCall(stableDst) ==
  /\ call # <<>> /\ ~c.more
  /\ LET r == WithHistory(d, mem, stableDst)
         given == IF c.dst = NULL THEN <<>> ELSE Bytes(mem, c.dst, c.dstPtr - c.dst)
     IN /\ d' = r.d /\ got' = got \o given
        /\ mem' = IF stableDst THEN r.mem
                  ELSE [a \in DOMAIN r.mem |-> IF a >= Dst THEN Garbage ELSE r.mem[a]]
  /\ call' = <<>> /\ UNCHANGED <<pos, hint, failed>>

(* LZ4F_getFrameInfo at the beginning of a frame. *)
GetFrameInfo(n) ==
  LET first == wire[pos + 1]
      size == IF first.kind = "skip" THEN SKIPHEAD ELSE HeaderSize(first.value)
  IN /\ call = <<>> /\ ~failed /\ d.dStage = "getFrameHeader" /\ n >= size
     /\ IF first.kind = "skip"
        THEN d' = [d EXCEPT !.dStage = "getSFrameSize"] /\ Read(SKIPHEAD - BHSize)
        ELSE d' = HeaderDecoded(first.value) /\ Read(size)
     /\ hint' = BHSize /\ UNCHANGED <<call, failed, mem, got>>

Stage ==
  \/ GetFrameHeader \/ StoreFrameHeader \/ InitFrame
  \/ GetBlockHeader \/ StoreBlockHeader \/ CopyDirect \/ GetBlockChecksum
  \/ GetCBlock \/ StoreCBlock \/ FlushOut \/ GetSuffix \/ StoreSuffix
  \/ GetSFrameSize \/ StoreSFrameSize \/ SkipSkippable
=============================================================================
