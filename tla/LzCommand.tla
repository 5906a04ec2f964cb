----------------------------- MODULE LzCommand -----------------------------
(***************************************************************************)
(* The command lz4, lz4-1.9.4/programs/lz4io.c: source files are compressed   *)
(* one behind the other into an archive, by the frame interface or in the      *)
(* legacy format, and the archive, with whatever else lies in it, is decoded   *)
(* stream by stream into a file that may be sparse.                           *)
(***************************************************************************)
EXTENDS LzFile

CONSTANTS LZ4IO_dBufferSize,  \* of the decoder's source and destination (64 KB)
          PTSIZE,             \* of the buffer of LZ4IO_passThrough (64 KB)
          WORDT,              \* sizeof(size_t) (8)
          SEGMENT,            \* bytes of a segment of LZ4IO_fwriteSparse (32 KB)
          GB1,                \* 1 GB
          LEGACY_BLOCKSIZE,   \* (8 MB)
          Zero                \* the byte of content that is 0

ASSUME CommandAssumption ==
  /\ {LZ4IO_dBufferSize, PTSIZE, WORDT, LEGACY_BLOCKSIZE} \subseteq Nat \ {0}
  /\ SEGMENT \in {k * WORDT : k \in 1 .. SEGMENT} /\ GB1 \in Nat

VARIABLE cmd     \* stage of the decoder; streams, what selectDecoder counts in nbFrames;
                 \* end, how much of the archive is in srcBuffer; full, whether the
                 \* last call filled dstBuffer; out and skips, the destination and the
                 \* zeros that are not written yet; result; removed, the archive is
commandVars == <<fileVars, cmd>>

MAGICNUMBER_SIZE == SKIPHEAD - BHSize
CommandInit ==
  /\ FileInit
  /\ cmd = [stage |-> "select", streams |-> 0, end |-> 0, full |-> FALSE, out |-> <<>>, skips |-> 0,
            result |-> 0, removed |-> FALSE]

(***************************************************************************)
(* Compressing.                                                            *)
(***************************************************************************)
Source_ == app.sources[Len(frames) + 1]
Ready(format) ==
  phase = "ready" /\ Len(frames) < Len(app.sources) /\ Source_.format = format
Kept == UNCHANGED <<file, cmd>>
Refuse == phase' = "refused" /\ UNCHANGED <<app, w, content, frames, sum, updates, resets, wire, reader>>

Preferences(p, n) ==
  [p EXCEPT !.autoFlush = TRUE, !.contentSize = IF @ > 0 THEN n ELSE 0]

(* LZ4IO_createCResources asks for the bound of a block without preferences,   *)
(* which are those of small blocks and no checksums.                          *)
dstBufferSize(p) ==
  W!compressFrameBound(getBlockSize(p.blockSizeID),
                       [blockSizeID |-> 0, blockChecksum |-> 0, contentChecksum |-> 0, autoFlush |-> TRUE])

(* A file that is smaller than a block in one call; LZ4F_compressFrame insists *)
(* on its own bound.                                                         *)
CompressFile(p0) ==
  LET n == Source_.n
      p == Preferences(p0, n)
  IN /\ Ready("frame") /\ Kept
     /\ IF n >= getBlockSize(p.blockSizeID) THEN Begin(p)
        ELSE IF W!compressFrameBound(n, W!FramePrefs(p, n)) > dstBufferSize(p) THEN Refuse
        ELSE CompressFrame(p, n)

(* The main loop, for larger files. *)
CompressBlock ==
  LET n == Min({getBlockSize(w.c.prefs.blockSizeID), Source_.n - Len(content)})
  IN /\ phase = "writing" /\ n > 0 /\ Kept
     /\ IF W!compressBound_internal(n, w.c.prefs, w.c.tmpInSize) > dstBufferSize(w.c.prefs) THEN Refuse
        ELSE Update(n, "compressed", FALSE)
CompressClose == phase = "writing" /\ Len(content) = Source_.n /\ End /\ Kept

(* What is put into the archive by other means. *)
Put(bytes, plain) ==
  /\ w' = [w EXCEPT !.out = @ \o bytes]
  /\ frames' = Append(frames, [content |-> plain, end |-> Len(w.out) + Len(bytes), user |-> TRUE])
  /\ UNCHANGED <<app, phase, content, sum, updates, resets, wire, reader>> /\ Kept

(* LZ4IO_compressFilename_Legacy. *)
LegacyBlock(start, bytes) ==
  Field("lhead", start, BHSize, <<Len(bytes)>>) \o Field("lz", start, Len(bytes), bytes)
CompressLegacy ==
  LET data == SubSeq(app.content, 1, Source_.n)
      size == BHSize + LEGACY_BLOCKSIZE
      Block(k) == SubSeq(data, k * LEGACY_BLOCKSIZE + 1, Min({(k + 1) * LEGACY_BLOCKSIZE, Len(data)}))
      blocks == [k \in 1 .. (Len(data) + LEGACY_BLOCKSIZE - 1) \div LEGACY_BLOCKSIZE |->
                   LegacyBlock(Len(w.out) + (k - 1) * size, Block(k - 1))]
  IN Ready("legacy") /\ Put(Field("legacy", Len(w.out), MAGICNUMBER_SIZE, <<>>) \o FlattenSeq(blocks), data)

UserFrame ==
  /\ Ready("user")
  /\ Put(Field("skip", Len(w.out), SKIPHEAD, <<Source_.n>>) \o Field("user", Len(w.out), Source_.n, <<>>), <<>>)
Junk == Ready("junk") /\ Put(Field("junk", Len(w.out), Source_.n, <<>>), <<>>)
Broken ==
  LET p == CHOOSE p \in app.prefs : TRUE
  IN Ready("broken") /\ Put(Field("frame", Len(w.out), HeaderSize(p), HeaderValue(p)) \o
                            Field("junk", Len(w.out), BHSize, <<>>), <<>>)
PlainFile == Ready("plain") /\ LET data == SubSeq(app.content, 1, Source_.n) IN Put(Raw(Len(w.out), data), data)

OpenArchive(cut) ==
  Len(frames) = Len(app.sources) /\ StartReading(cut) /\ Kept

(***************************************************************************)
(* LZ4IO_fwriteSparse: zeros are left out, in whole words at the beginning of  *)
(* a segment and in bytes of what is less than a word at the end, and added up  *)
(* until something else is to be written.  A file that is written behind a gap  *)
(* has zeros there.                                                          *)
(***************************************************************************)
Zeros(n) == [k \in 1 .. n |-> Zero]
LeadingZeros(bytes, unit) ==
  unit * Max({k \in 0 .. Len(bytes) \div unit : \A i \in 1 .. k * unit : bytes[i] = Zero})

(* Mutant of Piece: the zeros are forgotten when something is written. *)
Piece_Forgets(s, bytes, unit) ==
  LET z == LeadingZeros(bytes, unit)
  IN IF z = Len(bytes) THEN [s EXCEPT !.skips = @ + z]
     ELSE [s EXCEPT !.out = @ \o Zeros(z) \o SubSeq(bytes, z + 1, Len(bytes)), !.skips = 0]
Piece(s, bytes, unit) ==
  LET z == LeadingZeros(bytes, unit)
  IN IF z = Len(bytes) THEN [s EXCEPT !.skips = @ + z]
     ELSE [s EXCEPT !.out = @ \o Zeros(s.skips + z) \o SubSeq(bytes, z + 1, Len(bytes)), !.skips = 0]

fwriteSparse(s, bytes) ==
  LET whole == Len(bytes) - (Len(bytes) % WORDT)
      ahead == IF s.skips > GB1 THEN [s EXCEPT !.out = @ \o Zeros(GB1), !.skips = @ - GB1] ELSE s
      after[k \in 0 .. (whole + SEGMENT - 1) \div SEGMENT] ==
        IF k = 0 THEN ahead
        ELSE Piece(after[k - 1], SubSeq(bytes, (k - 1) * SEGMENT + 1, Min({k * SEGMENT, whole})), WORDT)
  IN IF app.sparse THEN Piece(after[(whole + SEGMENT - 1) \div SEGMENT], SubSeq(bytes, whole + 1, Len(bytes)), 1)
     ELSE [s EXCEPT !.out = @ \o bytes]

(* LZ4IO_fwriteSparseEnd writes the last zero behind the others. *)
fwriteSparseEnd(s) == [s EXCEPT !.out = @ \o Zeros(s.skips), !.skips = 0]

(***************************************************************************)
(* selectDecoder.  A magic number that LZ4IO_decodeLegacyStream has read is    *)
(* passed on in g_magicRead: here, it is read again.                          *)
(***************************************************************************)
Selecting == phase = "reading" /\ cmd.stage = "select"
Ahead == Len(wire) - pos
Says(kind) == wire[pos + 1].kind = kind /\ wire[pos + 1].at = 1
Magic(kind) == Selecting /\ Ahead >= MAGICNUMBER_SIZE /\ Says(kind)
Unknown ==
  Selecting /\ Ahead >= MAGICNUMBER_SIZE /\ \A kind \in {"frame", "legacy", "skip"} : ~Says(kind)
Same_ == UNCHANGED <<app, writing, sum, resets, file>>
Silent == UNCHANGED <<d, mem, call, hint, got, failed>> /\ Same_
To(stage, s) == cmd' = [s EXCEPT !.stage = stage]
Counted_ == [cmd EXCEPT !.streams = @ + 1]

(* --rm removes the archive when LZ4IO_decompressSrcFile has come to its end. *)
Close(result) == To("closed", [cmd EXCEPT !.result = result, !.removed = app.rm])

EndOfStream == Selecting /\ Ahead = 0 /\ Close(0) /\ UNCHANGED vars /\ UNCHANGED file
NoMagic == Selecting /\ Ahead \in 1 .. MAGICNUMBER_SIZE - 1 /\ To("died", cmd) /\ UNCHANGED vars /\ UNCHANGED file
Skip ==
  /\ Magic("skip") /\ Silent
  /\ IF Ahead < SKIPHEAD THEN To("died", cmd) /\ Read(0)
     ELSE cmd' = Counted_ /\ pos' = Min({pos + SKIPHEAD + wire[pos + 1].value[1], Len(wire)})
Undecodable ==
  /\ Unknown /\ UNCHANGED vars /\ UNCHANGED file
  /\ IF cmd.streams = 0 THEN To("died", cmd) ELSE Close(1)
  /\ cmd.streams = 0 => ~app.passThrough

PassThrough ==
  /\ Unknown /\ cmd.streams = 0 /\ app.passThrough /\ Silent /\ Read(MAGICNUMBER_SIZE)
  /\ To("pass", [cmd EXCEPT !.out = @ \o Checked(Input(MAGICNUMBER_SIZE))])
PassOn ==
  LET n == Min({PTSIZE, Ahead})
  IN /\ cmd.stage = "pass" /\ Silent /\ Read(n)
     /\ IF n = 0 THEN To("select", fwriteSparseEnd(cmd)) ELSE cmd' = fwriteSparse(cmd, Checked(Input(n)))

(* LZ4IO_decodeLegacyStream. *)
Legacy == Magic("legacy") /\ Silent /\ Read(MAGICNUMBER_SIZE) /\ To("legacy", Counted_)
LegacyStep ==
  LET size == wire[pos + 1].value[1]
      read == BHSize + size
  IN /\ cmd.stage = "legacy" /\ Silent
     /\ CASE Ahead = 0 -> To("select", fwriteSparseEnd(cmd)) /\ Read(0)
          [] Ahead \in 1 .. BHSize - 1 -> To("died", cmd) /\ Read(0)
          [] Ahead >= BHSize /\ ~Says("lhead") -> To("select", fwriteSparseEnd(cmd)) /\ Read(0)
          [] OTHER -> IF Ahead < read THEN To("died", cmd) /\ Read(0)
                      ELSE Read(read) /\ cmd' = fwriteSparse(cmd, wire[pos + BHSize + 1].value)

(***************************************************************************)
(* LZ4IO_decompressLZ4F: as many bytes are read as the last call asked for.    *)
(***************************************************************************)
FirstFeed ==
  /\ Magic("frame") /\ BeginCall(MAGICNUMBER_SIZE, Dst, 0, app.dict, app.skip) /\ Same_
  /\ To("frame", [Counted_ EXCEPT !.end = pos + MAGICNUMBER_SIZE, !.full = FALSE])

Feed ==
  LET more == pos < cmd.end \/ cmd.full
      end == IF more THEN cmd.end ELSE Min({cmd.end + Min({hint, LZ4IO_dBufferSize}), Len(wire)})
  IN /\ cmd.stage = "frame" /\ call = <<>> /\ ~failed /\ hint # 0
     /\ IF more \/ end > cmd.end
        THEN /\ BeginCall(end - pos, Dst, LZ4IO_dBufferSize, app.dict, FALSE) /\ Same_
             /\ cmd' = [cmd EXCEPT !.end = end]
        ELSE To("died", fwriteSparseEnd(cmd)) /\ UNCHANGED vars /\ UNCHANGED file   \* "Unfinished stream"

CallReturn ==
  /\ Return(FALSE) /\ UNCHANGED file
  /\ LET given == SubSeq(got', Len(got) + 1, Len(got'))
     IN cmd' = [(IF given = <<>> THEN cmd ELSE fwriteSparse(cmd, given)) EXCEPT
                  !.full = Len(given) = LZ4IO_dBufferSize]

(* The frame is over: what is left in srcBuffer has been read from the file. *)
FrameOver ==
  /\ cmd.stage = "frame" /\ call = <<>> /\ ~failed /\ hint = 0 /\ Silent
  /\ pos' = cmd.end /\ To("select", fwriteSparseEnd(cmd))
FrameError == cmd.stage = "frame" /\ failed /\ To("died", cmd) /\ UNCHANGED vars /\ UNCHANGED file

CommandStep ==
  \/ \E p \in app.prefs : CompressFile(p)
  \/ CompressBlock \/ CompressClose \/ CompressLegacy \/ UserFrame \/ Junk \/ Broken \/ PlainFile
  \/ \E cut \in app.cuts : OpenArchive(cut)
  \/ EndOfStream \/ NoMagic \/ Skip \/ Undecodable \/ PassThrough \/ PassOn \/ Legacy \/ LegacyStep
  \/ FirstFeed \/ Feed \/ (RunStage /\ Kept) \/ CallReturn \/ FrameOver \/ FrameError

CommandNext ==
  \/ app.by = "command" /\ CommandStep
  \/ app.by # "command" /\ FileNext /\ UNCHANGED cmd
CommandSpec == CommandInit /\ [][CommandNext]_commandVars

(***************************************************************************)
(* Properties.                                                             *)
(***************************************************************************)
(* The frames of the archive that are there and not behind something that is  *)
(* no frame.                                                                *)
Decodable == {i \in DOMAIN frames : frames[i].end <= Len(wire)
                                    /\ \A k \in 1 .. i : app.sources[k].format # "junk"}

(* The content comes back, whatever the portions and the room, whether the    *)
(* output of earlier calls is still there or not, and from the start after a   *)
(* frame was given up.  No call fails on a frame that was written whole, and    *)
(* LZ4F_read gives less than it was asked for only when there is no more.  The  *)
(* command writes what the frames give, the zeros that it has skipped counted, *)
(* and when it has closed the archive it has written all that can be decoded.  *)
ComesBack ==
  /\ app.by = "calls" => RoundTrips
  /\ app.by = "file" => RoundTrips /\ ReadIsWhole
  /\ app.by = "command" /\ phase = "reading" =>
       /\ IsPrefix(cmd.out \o Zeros(cmd.skips), Expected)
       /\ failed => \E i \in DOMAIN frames : app.sources[i].format = "broken"
       /\ cmd.stage = "closed" => cmd.out = Through(Cardinality(Decodable))

(* --rm, says lz4.1.md, deletes source files "on successful compression or     *)
(* decompression": an archive that is removed has been decoded, all of it.     *)
RemovedWhenDecoded == cmd.removed => cmd.out = Expected
=============================================================================
