------------------------------ MODULE LzStream ------------------------------
(***************************************************************************)
(* The streaming interface of lz4-1.9.4/lib/lz4.c: an encoder whose blocks   *)
(* refer to what it compressed before, and a decoder that finds those bytes  *)
(* where it decoded them, or where it was told that they are.  The encoder   *)
(* is that of lz4.c or, at a level, that of lz4hc.c.  Both sides have a       *)
(* memory of their own; the application decides where each block      *)
(* goes, by the rules of lz4.h: one long buffer, a ring, two buffers in      *)
(* turn, or one buffer whose history is saved elsewhere.  One-shot calls     *)
(* use the same encoder state in between.                                   *)
(***************************************************************************)
EXTENDS LzDecoder, LzHighParser

CONSTANTS Messages,       \* the blocks that the application may send
          Alone,          \* the inputs of the one-shot calls
          Dictionary,     \* the bytes of the dictionary
          MaxBlock,       \* the longest message
          Room,           \* bytes of the encoder's buffer, flat or ring
          DecoderRoom,    \* bytes of the decoder's flat buffer
          DecoderRing,    \* bytes of the decoder's ring
          Layouts,        \* the encoder's layout, the decoder's and its function, and the
                          \* level of lz4hc.c, 0 for lz4.c, with or without favorDecSpeed
          RENORM,         \* 0x80000000, where indexes are rescaled
          MaxCalls,       \* bound on the calls of a behaviour
          MaxAlone        \* bound on those among them that a one-shot call follows

ASSUME LayoutAssumption ==
  /\ \A m \in Messages : Len(m) <= MaxBlock
  /\ \A m \in Alone : Len(m) <= Room /\ Len(m) <= DecoderRoom
  /\ Room >= 2 * MaxBlock + 1 /\ RENORM > KB64 + MaxBlock
  /\ Layouts \subseteq {"flat", "ring", "double", "saved"} \X {"flat", "ring", "same", "saved"}
                    \X {"safe", "fast"} \X [level : 0 .. Len(clTable), favor : BOOLEAN]

VARIABLES ctx,     \* the LZ4_stream_t or LZ4_streamHC_t of the encoder
          use,     \* what the state is fit for: "stream", "alone" or "broken"
          mem,     \* the encoder's memory
          next,    \* where its next block goes; NULL: the history must be saved first
          sd,      \* the LZ4_streamDecode_t of the decoder
          out,     \* the decoder's memory
          at,      \* where it decodes the next block; NULL: as above
          wire,    \* the block on its way, <<>> or one record
          last,    \* what the last decoding gave, and what it stands for
          layout,  \* the layouts of this behaviour
          calls    \* counts the calls
vars == <<ctx, use, mem, next, sd, out, at, wire, last, layout, calls>>

(* Both memories: the dictionary, the buffer of the blocks and a safe buffer. *)
(* The encoder's buffer follows its dictionary at once, the decoder's not.    *)
DictEnd == Len(Dictionary)
First == DictEnd
DecoderFirst == DictEnd + 1
Safe == First + Room + 1
DecoderSafe == DecoderFirst + Max({DecoderRoom, DecoderRing, Room}) + 1

Write(m, to, bytes) ==
  [a \in DOMAIN m |-> IF a >= to /\ a < to + Len(bytes) THEN bytes[a - to + 1] ELSE m[a]]
Blank(top) == Write([a \in 0 .. top |-> Garbage], 0, Dictionary)

(***************************************************************************)
(* The encoder's stream.                                                   *)
(***************************************************************************)
LoadPositions(m, ctx0, dictEnd, p0) ==
  LET base == dictEnd - ctx0.currentOffset
      Hashed(p) == HashPosition(m, p, "byU32")
      put == {p \in p0 .. dictEnd - HASH_UNIT : (p - p0) % 3 = 0}
  IN [h \in Slots |-> Max({0} \cup {p - base : p \in {q \in put : Hashed(q) = h}})]

LoadDict(m, dictionary, dictSize) ==
  LET fresh == [InitStream EXCEPT !.currentOffset = KB64]
      p == Max({dictionary, dictionary + dictSize - KB64})
  IN IF dictSize < HASH_UNIT THEN fresh
     ELSE [fresh EXCEPT !.dictionary = p, !.dictSize = dictionary + dictSize - p,
                        !.tableType = "byU32",
                        !.hashTable = LoadPositions(m, fresh, dictionary + dictSize, p)]

AttachDictionary(c, dict) ==
  [c EXCEPT !.currentOffset = IF @ = 0 THEN KB64 ELSE @,
            !.dictCtx = IF dict.dictSize = 0 THEN <<>> ELSE <<dict>>]

ResetStreamFast(c) == PrepareTable(c, 0, "byU32")

RenormDict(c, nextSize) ==
  LET delta == c.currentOffset - KB64
      size == Min({c.dictSize, KB64})
  IN IF c.currentOffset + nextSize <= RENORM THEN c
     ELSE [c EXCEPT !.hashTable = [h \in Slots |-> Max({0, @[h] - delta})],
                    !.currentOffset = KB64, !.dictSize = size,
                    !.dictionary = @ + c.dictSize - size]

(* What is left of a dictionary whose oldest part the source overwrites. *)
OverlapForgotten(c, sourceEnd, dictEnd) ==
  LET left == Min({dictEnd - sourceEnd, KB64})
      size == IF left < MINMATCH THEN 0 ELSE left
  IN IF sourceEnd > c.dictionary /\ sourceEnd < dictEnd
     THEN [c EXCEPT !.dictSize = size, !.dictionary = dictEnd - size] ELSE c

(* The context in which a block at `source' is compressed: indexes rescaled,   *)
(* a dictionary dropped that is too small for a match, or overwritten.       *)
DictEndOf(c) == IF c.dictSize = 0 THEN NULL ELSE c.dictionary + c.dictSize
Prepared(c, before, source, size) ==
  IF c.dictSize < MINMATCH /\ before # source /\ size > 0 /\ c.dictCtx = <<>>
  THEN [ctx |-> OverlapForgotten([c EXCEPT !.dictSize = 0, !.dictionary = source], source + size, source),
        dictEnd |-> source]
  ELSE [ctx |-> OverlapForgotten(c, source + size, before), dictEnd |-> before]

CompressPrepared(p, m, source, size, cap) ==
  LET c == p.ctx
      follows == p.dictEnd = source
      small == c.dictSize < KB64 /\ c.dictSize < c.currentOffset
      copied == ~follows /\ c.dictCtx # <<>> /\ size > KB4
      mode == CASE follows -> "withPrefix64k"
                [] ~follows /\ (copied \/ c.dictCtx = <<>>) -> "usingExtDict"
                [] OTHER -> "usingDictCtx"
      r == CompressGeneric(IF copied THEN c.dictCtx[1] ELSE c, m, source, size, cap, "limitedOutput",
                           "byU32", mode, small /\ (follows \/ c.dictCtx = <<>>), 1)
  IN [r EXCEPT !.ctx.dictionary = IF follows THEN @ ELSE source,
               !.ctx.dictSize = IF follows THEN @ ELSE size]

CompressFastContinue(c, m, source, size, cap) ==
  CompressPrepared(Prepared(RenormDict(c, size), DictEndOf(c), source, size), m, source, size, cap)

(* LZ4_saveDict: the context and the bytes that went to the safe buffer. *)
Saved(c, m, to, dictSize) ==
  LET n == Min({dictSize, KB64, c.dictSize})
  IN [ctx |-> [c EXCEPT !.dictionary = to, !.dictSize = n],
      bytes |-> Bytes(m, c.dictionary + c.dictSize - n, n)]

(***************************************************************************)
(* The encoder that the layout asks for.                                   *)
(***************************************************************************)
High == layout[4].level > 0
Favored(c) == [c EXCEPT !.favorDecSpeed = layout[4].favor]
NewEncoder == IF High THEN Favored(InitStreamHC(layout[4].level)) ELSE InitStream

Started(kind) ==
  CASE ~High /\ kind = "reset" -> ResetStreamFast(ctx)
    [] ~High /\ kind = "load" -> LoadDict(mem, 0, DictEnd)
    [] ~High /\ kind = "attach" -> AttachDictionary(ResetStreamFast(ctx), LoadDict(mem, 0, DictEnd))
    [] High /\ kind = "reset" -> Favored(ResetStreamHCFast(ctx, layout[4].level))
    [] High /\ kind = "load" -> Favored(LoadDictHC(layout[4].level, mem, 0, DictEnd))
    [] OTHER -> Favored(AttachHC(ResetStreamHCFast(ctx, layout[4].level),
                                 LoadDictHC(layout[4].level, mem, 0, DictEnd)))

Continue(m, source, size, cap) ==
  IF High THEN ContinueHC(ctx, m, source, size, cap, Directive(size, cap))
  ELSE CompressFastContinue(ctx, m, source, size, cap)
KeptDict(n) == IF High THEN SaveDictHC(ctx, mem, Safe, n) ELSE Saved(ctx, mem, Safe, n)
OneShot(m, size, cap) ==
  IF High THEN CompressHCFastReset(ctx, m, First, size, cap, layout[4].level)
  ELSE CompressFastReset(ctx, m, First, size, cap, 1)
DestSize(m, size, cap) ==
  IF High THEN CompressHCDestSize(m, First, size, cap, layout[4].level)
  ELSE CompressDestSize(m, First, size, cap)

(***************************************************************************)
(* The decoder's stream.                                                   *)
(***************************************************************************)
SetStreamDecode(dictEnd, dictSize) ==
  [prefixEnd |-> dictEnd, prefixSize |-> dictSize, externalDict |-> NULL, extDictSize |-> 0]

(* LZ4_decompress_safe_continue; `capacity' is maxOutputSize. *)
SafeContinue(d, m, b, dst, capacity) ==
  LET Generic(mode, low, dictEnd, dictSize) ==
        DecompressGeneric(m, b, dst, capacity, FALSE, mode, low, dictEnd, dictSize)
      rolling == d.prefixEnd = dst
      old == d.externalDict + d.extDictSize
  IN CASE d.prefixSize = 0 -> DecompressSafe(m, b, dst, capacity)
       [] d.prefixSize # 0 /\ rolling ->
            IF d.prefixSize >= KB64 - 1 THEN Generic("withPrefix64k", dst - KB64, NULL, 0)
            ELSE IF d.extDictSize = 0 THEN Generic("noDict", dst - d.prefixSize, NULL, 0)
            ELSE Generic("usingExtDict", dst - d.prefixSize, old, d.extDictSize)
       [] OTHER -> Generic("usingExtDict", dst, d.prefixEnd, d.prefixSize)

(* LZ4_decompress_fast_continue: the caller knows the decoded size. *)
FastContinue(d, m, b, dst, size) ==
  CASE d.prefixSize = 0 -> DecompressUnsafe(m, b, dst, size, 0, NULL, 0)
    [] d.prefixSize # 0 /\ d.prefixEnd = dst ->
         DecompressUnsafe(m, b, dst, size, d.prefixSize, d.externalDict + d.extDictSize, d.extDictSize)
    [] OTHER -> DecompressUnsafe(m, b, dst, size, 0, d.prefixEnd, d.prefixSize)

(* The decoder's context after n bytes were decoded to dst. *)
Advanced(d, dst, n) ==
  CASE n <= 0 /\ (d.prefixSize = 0 \/ d.prefixEnd = dst) -> d
    [] n > 0 /\ d.prefixSize = 0 -> [d EXCEPT !.prefixSize = n, !.prefixEnd = dst + n]
    [] n > 0 /\ d.prefixSize # 0 /\ d.prefixEnd = dst ->
         [d EXCEPT !.prefixSize = @ + n, !.prefixEnd = @ + n]
    [] OTHER -> [prefixSize |-> IF n > 0 THEN n ELSE d.prefixSize,
                 prefixEnd |-> IF n > 0 THEN dst + n ELSE d.prefixEnd,
                 extDictSize |-> d.prefixSize, externalDict |-> d.prefixEnd - d.prefixSize]

(***************************************************************************)
(* The application.                                                        *)
(***************************************************************************)
(* Where a block of n bytes goes that the encoder is to compress. *)
SourceFor(n) ==
  CASE layout[1] = "ring" -> IF next + n > First + Room THEN First ELSE next
    [] layout[1] = "double" -> IF next = First THEN First ELSE First + MaxBlock + 1
    [] OTHER -> next

NextAfter(source, n) ==
  CASE layout[1] = "saved" -> NULL
    [] layout[1] = "double" -> IF source = First THEN First + MaxBlock + 1 ELSE First
    [] OTHER -> source + n

(* Where the decoder puts a block, and the space that it says there is. *)
Destination(w) ==
  CASE layout[2] = "same" -> [dst |-> DecoderFirst + (w.source - First), capacity |-> Len(w.plain)]
    [] layout[2] = "ring" ->
         [dst |-> IF DecoderFirst + DecoderRing - at < MaxBlock THEN DecoderFirst ELSE at,
          capacity |-> MaxBlock]
    [] layout[2] = "flat" -> [dst |-> at, capacity |-> Len(w.plain)]
    [] OTHER -> [dst |-> at, capacity |-> MaxBlock]

Init ==
  /\ layout \in Layouts /\ ctx = NewEncoder /\ use = "stream"
  /\ mem = Blank(Safe + KB64) /\ next = First
  /\ sd = SetStreamDecode(NULL, 0)
  /\ out = Blank(DecoderSafe + KB64) /\ at = DecoderFirst
  /\ wire = <<>> /\ last = [got |-> <<>>, want |-> <<>>]
  /\ calls = 0

Counted == calls < MaxCalls /\ calls' = calls + 1

(* A new stream on both sides: without a dictionary, with one that is loaded, *)
(* or with one that is attached in the state another stream loaded it into.   *)
StartStream(kind) ==
  /\ wire = <<>> /\ Counted
  /\ ctx' = Started(kind)
  /\ sd' = IF kind = "reset" THEN SetStreamDecode(NULL, 0) ELSE SetStreamDecode(DictEnd, DictEnd)
  /\ use' = "stream" /\ next' = First /\ at' = DecoderFirst
  /\ UNCHANGED <<mem, out, wire, last, layout>>

(* What a call of LZ4_compress_HC_continue_destSize has left of its input: it   *)
(* has to be a part of the next block, because the context takes it for history. *)
Rest == IF High /\ layout[1] = "flat" /\ ctx.prefixStart # NULL /\ ctx.end <= First + Room
        THEN Max({0, ctx.end - next}) ELSE 0

Compress(m, cap) ==
  LET source == SourceFor(Len(m))
  IN /\ wire = <<>> /\ use = "stream" /\ next # NULL /\ at # NULL /\ Counted
     /\ source + Len(m) <= First + Room /\ Len(m) >= Rest
     /\ layout[2] = "flat" => at + Len(m) <= DecoderFirst + DecoderRoom
     /\ \E filled \in {Write(mem, source, m)} :
        \E r \in {Continue(filled, source, Len(m), cap)} :
          /\ mem' = filled /\ ctx' = r.ctx
          /\ use' = IF r.size > 0 THEN "stream" ELSE "broken"
          /\ wire' = <<[plain |-> m, block |-> r.block, size |-> r.size, cap |-> cap,
                        source |-> source, alone |-> FALSE]>>
     /\ next' = NextAfter(source, Len(m))
     /\ UNCHANGED <<sd, out, at, last, layout>>

(* As much of a block as fits into cap bytes; the rest of it goes on from there. *)
CompressOnward(m, cap) ==
  /\ wire = <<>> /\ use = "stream" /\ High /\ layout[1] = "flat" /\ at # NULL /\ Counted
  /\ next + Len(m) <= First + Room /\ Len(m) >= Rest
  /\ layout[2] = "flat" => at + Len(m) <= DecoderFirst + DecoderRoom
  /\ \E filled \in {Write(mem, next, m)} :
     \E r \in {ContinueHC(ctx, filled, next, Len(m), cap, "fillOutput")} :
       /\ mem' = filled /\ ctx' = r.ctx
       /\ use' = IF r.size > 0 THEN "stream" ELSE "broken"
       /\ wire' = <<[plain |-> SubSeq(m, 1, r.consumed), block |-> r.block, size |-> r.size, cap |-> cap,
                     source |-> next, alone |-> FALSE]>>
       /\ next' = next + r.consumed
  /\ UNCHANGED <<sd, out, at, last, layout>>

(* With lz4hc.c, only when something was compressed since the stream was reset. *)
SaveDict(n) ==
  /\ use = "stream" /\ wire = <<>> /\ layout[2] # "same" /\ Counted
  /\ High => ctx.prefixStart # NULL /\ Rest = 0
  /\ \E s \in {KeptDict(n)} :
       ctx' = s.ctx /\ mem' = Write(mem, Safe, s.bytes)
  /\ next' = IF next = NULL THEN First ELSE next
  /\ UNCHANGED <<use, sd, out, at, wire, last, layout>>

(* A call for one input alone.  It leaves the state fit for the next such call *)
(* or for a new stream; the stream that was there is over.                     *)
CompressAlone(m, cap) ==
  /\ wire = <<>> /\ use # "broken" /\ layout[1] = "flat" /\ calls <= MaxAlone /\ Counted
  /\ \E filled \in {Write(mem, First, m)} :
     \E r \in {OneShot(filled, Len(m), cap)} :
       /\ mem' = filled /\ ctx' = r.ctx
       /\ wire' = <<[plain |-> m, block |-> r.block, size |-> r.size, cap |-> cap,
                     source |-> First, alone |-> TRUE]>>
  /\ use' = "alone" /\ UNCHANGED <<next, sd, out, at, last, layout>>

(* As much of an input as fits.  The state is one of the call's own, so that   *)
(* nothing is lost by having it only as the first call of a behaviour.        *)
CompressPart(m, cap) ==
  /\ wire = <<>> /\ layout[1] = "flat" /\ calls = 0 /\ Counted
  /\ \E filled \in {Write(mem, First, m)} :
     \E r \in {DestSize(filled, Len(m), cap)} :
       /\ mem' = filled
       /\ wire' = <<[plain |-> SubSeq(m, 1, r.consumed), block |-> r.block, size |-> r.size,
                     cap |-> cap, source |-> First, alone |-> TRUE]>>
  /\ use' = "alone" /\ UNCHANGED <<ctx, next, sd, out, at, last, layout>>

Received(r, dst, w) ==
  /\ out' = r.out
  /\ last' = [got |-> IF r.n < 0 THEN <<Garbage>> ELSE Bytes(r.out, dst, r.n), want |-> w.plain]
  /\ wire' = <<>>
  /\ UNCHANGED <<ctx, use, mem, next, layout, calls>>

Decompress ==
  /\ wire # <<>> /\ ~wire[1].alone /\ wire[1].size > 0
  /\ LET w == wire[1]
         d == Destination(w)
     IN \E r \in {IF layout[3] = "fast" THEN FastContinue(sd, out, w.block, d.dst, Len(w.plain))
                  ELSE SafeContinue(sd, out, w.block, d.dst, d.capacity)} :
          /\ sd' = Advanced(sd, d.dst, r.n)
          /\ at' = IF layout[2] = "saved" THEN NULL ELSE d.dst + Max({0, r.n})
          /\ Received(r, d.dst, w)

(* An application with one buffer for the decoded blocks keeps the last 64 KB *)
(* of the stream in its safe buffer and says so.                              *)
KeepDecoded ==
  /\ at = NULL /\ use = "stream"
  /\ LET before == IF sd.extDictSize = 0 THEN <<>>
                   ELSE Bytes(out, sd.externalDict, sd.extDictSize)
         all == before \o Bytes(out, sd.prefixEnd - sd.prefixSize, sd.prefixSize)
         kept == SubSeq(all, Max({1, Len(all) - KB64 + 1}), Len(all))
     IN /\ out' = Write(out, DecoderSafe, kept)
        /\ sd' = SetStreamDecode(DecoderSafe + Len(kept), Len(kept))
  /\ at' = DecoderFirst
  /\ UNCHANGED <<ctx, use, mem, next, wire, last, layout, calls>>

DecompressAlone ==
  /\ wire # <<>> /\ wire[1].alone /\ wire[1].size > 0
  /\ \E r \in {DecompressSafe(out, wire[1].block, DecoderFirst, Len(wire[1].plain))} :
       Received(r, DecoderFirst, wire[1])
  /\ UNCHANGED <<sd, at>>

(* A call that found no room gives nothing to decode. *)
DropFailed ==
  /\ wire # <<>> /\ wire[1].size = 0
  /\ wire' = <<>>
  /\ UNCHANGED <<ctx, use, mem, next, sd, out, at, last, layout, calls>>

Next ==
  \/ \E kind \in {"reset", "load", "attach"} : StartStream(kind)
  \/ \E m \in Messages : \E cap \in {CompressBound(Len(m)), Len(m) \div 2} :
       Compress(m, cap) \/ CompressOnward(m, cap)
  \/ \E n \in {MINMATCH - 1, KB64} : SaveDict(n)
  \/ \E m \in Alone : \/ \E cap \in {CompressBound(Len(m)), Len(m)} : CompressAlone(m, cap)
                      \/ \E cap \in 1 .. Len(m) : CompressPart(m, cap)
  \/ Decompress \/ KeepDecoded \/ DecompressAlone \/ DropFailed

Spec == Init /\ [][Next]_vars

(***************************************************************************)
(* Properties.                                                             *)
(***************************************************************************)
(* What comes out of the decoder is the block that went into the encoder,    *)
(* wherever the two sides keep their history and however indexes, tables and  *)
(* dictionaries were carried over from earlier calls.                        *)
ReadsBack == last.got = last.want

(* A compressor writes what it says it wrote, never more than it was given,   *)
(* and fails only when it was given less than LZ4_compressBound.              *)
FitsOrFails ==
  \A k \in DOMAIN wire :
    LET w == wire[k] IN /\ w.size > 0 => BlockSize(w.block) = w.size /\ w.size <= w.cap
                        /\ w.size = 0 => w.cap < CompressBound(Len(w.plain))

(* LZ4_decompress_safe_partial and LZ4_decompress_safe_partial_usingDict give *)
(* the first bytes of a block, as many as were asked for and there are; the   *)
(* second for a block of a stream, with the decoded history as dictionary.    *)
PartialIsPrefix ==
  \A k \in DOMAIN wire :
    LET w == wire[k]
        dst == IF w.alone THEN DecoderFirst ELSE Destination(w).dst
        Part(target) == IF w.alone THEN DecompressSafePartial(out, w.block, dst, target, target)
                        ELSE UsingDict(out, w.block, dst, target, TRUE, sd.prefixEnd, sd.prefixSize)
    IN w.size > 0 /\ (w.alone \/ sd.extDictSize = 0) =>
         \A target \in 0 .. Len(w.plain) + 1 :
           LET r == Part(target)
           IN /\ r.n = Min({target, Len(w.plain)})
              /\ Bytes(r.out, dst, r.n) = SubSeq(w.plain, 1, r.n)
=============================================================================
