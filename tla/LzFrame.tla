------------------------------ MODULE LzFrame ------------------------------
(***************************************************************************)
(* The frame interface of lz4-1.9.4/lib/lz4frame.c from end to end: an       *)
(* application compresses its content into frames, by whatever updates and    *)
(* flushes or in one call, and decompresses them in whatever portions.  It     *)
(* keeps the rules of lz4frame.h: a source or an output that is not declared   *)
(* stable is overwritten after every call.                                    *)
(***************************************************************************)
EXTENDS LzFrameReader

CONSTANTS Dull,        \* a block with one of these bytes does not compress
          Applications \* how the interface is used: by its calls, as a file or by the
                       \* command; with prefs, for frames of these preferences, which
                       \* have the first bytes of content; at most so many frames, with
                       \* at most so many updates and flushes, the updates of so many
                       \* bytes; users, the sizes of frames of its own; window, whether
                       \* the source and the output are reused buffers; whether the
                       \* dictionary is given and checksums are skipped; the portions
                       \* of input, besides all that is left, the rooms for output, 0
                       \* for none; and at most so many frames that are given up

VARIABLES app,         \* the application
          phase,
          w,           \* the writer: its context, its memory, what it has written
          content,     \* what the frame being written has got so far
          frames,      \* the complete frames: their content, where they end, whether user frames
          sum,         \* the XXH64_state_t of what the calls have given
          updates, resets

vars == <<app, phase, w, content, frames, sum, updates, resets, wire, reader>>
writing == <<phase, w, content, frames, updates, wire>>
W == INSTANCE LzFrameWriter

Writer ==
  [c |-> W!CreateContext, out |-> <<>>,
   mem |-> [a \in 0 .. W!Source + Len(app.content) |->
              IF a < Len(Dictionary) THEN Dictionary[a + 1] ELSE Garbage]]

Init ==
  /\ app \in Applications /\ phase = "ready"
  /\ w = Writer /\ content = <<>> /\ frames = <<>> /\ updates = 0 /\ resets = 0
  /\ sum = XXH64_reset(1)
  /\ wire = <<>> /\ d = CreateContext_d /\ mem = Blank /\ pos = 0 /\ call = <<>>
  /\ hint = NULL /\ got = <<>> /\ failed = FALSE

(***************************************************************************)
(* Writing.                                                                *)
(***************************************************************************)
Another == phase = "ready" /\ Cardinality({i \in DOMAIN frames : ~frames[i].user}) < app.frames
Begin(p) ==
  /\ Another
  /\ w' = W!compressBegin(w, p) /\ phase' = "writing" /\ content' = <<>> /\ updates' = 0
  /\ UNCHANGED <<app, frames, resets, wire, reader, sum>>

(* The source of the next n bytes: behind the last ones, or a buffer. *)
SourceAt == W!Source + IF app.window THEN 0 ELSE Len(content)
Next_(n) == SubSeq(app.content, Len(content) + 1, Len(content) + n)
Filled(s, bytes) == [s EXCEPT !.mem = Write(@, SourceAt, bytes)]
Reused(s, n) == IF app.window THEN [s EXCEPT !.mem = Write(@, SourceAt, [k \in 1 .. n |-> Garbage])]
                ELSE s

Update(n, mode, stableSrc) ==
  /\ phase = "writing" /\ updates < app.most /\ Len(content) + n <= Len(app.content)
  /\ stableSrc => ~app.window
  /\ mode = "uncompressed" => ~w.c.prefs.linked
  /\ w' = Reused(W!compressUpdate(Filled(w, Next_(n)), SourceAt, n, mode, stableSrc), n)
  /\ content' = content \o Next_(n) /\ updates' = updates + 1
  /\ UNCHANGED <<app, phase, frames, resets, wire, reader, sum>>

Flush ==
  /\ phase = "writing" /\ w.c.tmpInSize > 0 /\ updates < app.most
  /\ w' = W!flush(w) /\ updates' = updates + 1
  /\ UNCHANGED <<app, phase, content, frames, resets, wire, reader, sum>>

(* A frame of another size than it declares is an error, and thrown away. *)
Complete(s, bytes) ==
  IF W!SizeIsRight(s.c)
  THEN phase' = "ready" /\ frames' = Append(frames, [content |-> bytes, end |-> Len(s.out), user |-> FALSE])
  ELSE phase' = "refused" /\ UNCHANGED frames
End ==
  /\ phase = "writing"
  /\ w' = W!compressEnd(w) /\ Complete(w', content)
  /\ UNCHANGED <<app, content, updates, resets, wire, reader, sum>>

CompressFrame(p, n) ==
  /\ Another
  /\ LET bytes == SubSeq(app.content, 1, n)
     IN /\ w' = W!compressFrame([w EXCEPT !.mem = Write(@, W!Source, bytes)], W!Source, n, p)
        /\ Complete(w', bytes) /\ content' = bytes
  /\ UNCHANGED <<app, updates, resets, wire, reader, sum>>

(* A frame of the user's own, which a decoder skips. *)
SkippableFrame(n) ==
  /\ phase = "ready" /\ frames = <<>>
  /\ w' = [w EXCEPT !.out = Field("skip", 0, SKIPHEAD, <<n>>) \o Field("user", 1, n, <<>>)]
  /\ frames' = <<[content |-> <<>>, end |-> SKIPHEAD + n, user |-> TRUE]>>
  /\ UNCHANGED <<app, phase, content, updates, resets, wire, reader, sum>>

(* The writer is no more, and perhaps the end of what it wrote. *)
StartReading(cut) ==
  /\ phase = "ready" /\ frames # <<>>
  /\ phase' = "reading" /\ wire' = SubSeq(w.out, 1, Len(w.out) - cut) /\ w' = Writer /\ content' = <<>> /\ updates' = 0
  /\ UNCHANGED <<app, frames, resets, reader, sum>>

(***************************************************************************)
(* Reading.                                                                *)
(***************************************************************************)
Through(k) == FlattenSeq([i \in 1 .. k |-> frames[i].content])
Ends == {frames[i].end : i \in DOMAIN frames}
Expected == Through(Len(frames))

Decompress(n, room) ==
  /\ phase = "reading" /\ n \in 1 .. Len(wire) - pos
  /\ BeginCall(n, IF room = 0 THEN NULL ELSE IF app.window THEN Dst ELSE Dst + Len(got), room,
               app.dict, app.skip)
  /\ UNCHANGED <<app, writing, sum, resets>>

GetInfo(n) == phase = "reading" /\ n \in 1 .. Len(wire) - pos /\ GetFrameInfo(n)
              /\ UNCHANGED <<app, writing, sum, resets>>
RunStage == Stage /\ UNCHANGED <<app, writing, sum, resets>>
Return(stableDst) ==
  /\ EndCall(stableDst) /\ sum' = XXH64_update(sum, SubSeq(got', Len(got) + 1, Len(got')))
  /\ UNCHANGED <<app, writing, resets>>

(* LZ4F_resetDecompressionContext, to give up a frame and read frame k. *)
Abandon(k) ==
  /\ phase = "reading" /\ call = <<>> /\ ~failed /\ resets < app.resets /\ pos \notin Ends \cup {0}
  /\ d' = Reset(d) /\ resets' = resets + 1
  /\ pos' = (IF k = 1 THEN 0 ELSE frames[k - 1].end) /\ got' = Through(k - 1)
  /\ sum' = XXH64_update(XXH64_reset(1), got')
  /\ hint' = NULL /\ UNCHANGED <<app, writing, mem, call, failed>>

Write_ ==
  \/ \E p \in app.prefs : Begin(p) \/ \E n \in {0, Len(app.content)} : CompressFrame(p, n)
  \/ \E n \in app.updates : \E mode \in {"compressed", "uncompressed"} :
       \E stableSrc \in BOOLEAN : Update(n, mode, stableSrc)
  \/ Flush \/ End \/ (\E n \in app.users : SkippableFrame(n)) \/ StartReading(0)

Read_ ==
  \/ \E n \in app.portions \cup {Len(wire) - pos} : GetInfo(n) \/ \E room \in app.rooms : Decompress(n, room)
  \/ RunStage \/ Return(~app.window)
  \/ \E k \in DOMAIN frames : Abandon(k)

Next == Write_ \/ Read_
Spec == Init /\ [][Next]_vars

(***************************************************************************)
(* Properties of writing.                                                  *)
(***************************************************************************)
(* While linked blocks are written, the bytes that the next block may refer   *)
(* to are the last ones of the content, wherever the context keeps them:      *)
(* in a stable source, in tmpBuff before tmpIn, or saved there when a source  *)
(* goes away; and tmpIn has what is not compressed yet, and room for a block.  *)
KeepsHistory ==
  LET c_ == w.c
      done == SubSeq(content, 1, Len(content) - c_.tmpInSize)
      history == LastOf(Bytes(w.mem, c_.stream.dictionary, c_.stream.dictSize), KB64)
  IN phase = "writing" =>
       /\ Bytes(w.mem, c_.tmpIn, c_.tmpInSize) = LastOf(content, c_.tmpInSize)
       /\ ~c_.prefs.autoFlush => ~W!TmpIsFull(c_)
       /\ c_.prefs.linked => history = LastOf(done, Len(history)) /\ (done # <<>> => history # <<>>)

(* No call writes more than LZ4F_compressBound_internal allows for, which is  *)
(* the room that LZ4F_compressUpdate insists on; with a size of 0 it is the    *)
(* room for LZ4F_flush and LZ4F_compressEnd; a frame in one call no more than  *)
(* LZ4F_compressFrameBound.  Without a change between LZ4F_compressUpdate and   *)
(* LZ4F_uncompressedUpdate that finds bytes in tmpIn.                         *)
Switches == w.c.blockCompression # w'.c.blockCompression /\ w.c.tmpInSize > 0
InOneCall == phase = "ready" /\ phase' \in {"ready", "refused"} /\ w'.c # w.c
Written == Len(w'.out) - Len(w.out)
WithinBound ==
  [][/\ phase = "writing" /\ ~Switches =>
          Written <= W!compressBound_internal(Len(content') - Len(content), w.c.prefs, w.c.tmpInSize)
     /\ InOneCall => Written <= W!compressFrameBound(Len(content'), w'.c.prefs)]_vars

(* A checksum that is kept up is the checksum of the whole, however it was cut *)
(* into updates: the frame's of its content, and the one with which the tests   *)
(* of the library compare what came back (frametest.c, line 951).              *)
DigestIsOneShot ==
  /\ phase = "writing" /\ w.c.prefs.contentChecksum = 1 => XXH32_digest(w.c.xxh) = XXH32(content, 0)
  /\ phase = "reading" => XXH64_digest(sum) = XXH64(got, 1)

(***************************************************************************)
(* Properties of reading.                                                  *)
(***************************************************************************)
(* The content comes back, whatever the portions and the room, whether the    *)
(* output of earlier calls is still there or not, and from the start after a   *)
(* frame was given up.  No call fails on a frame that was written whole.       *)
RoundTrips == ~failed /\ IsPrefix(got, Expected)

(* A call returns 0 exactly when it has come to the end of a frame and has     *)
(* given all of its content.                                                 *)
ZeroMeansDone ==
  app.by # "command" /\ phase = "reading" /\ call = <<>> /\ hint # NULL =>
    (hint = 0 <=> \E k \in DOMAIN frames : pos = frames[k].end /\ got = Through(k))

(* A call with input and with room takes some of the one or gives some of the *)
(* other: an application that goes on calling comes to the end.               *)
Progresses ==
  call # <<>> /\ ~c.more /\ c.dst # NULL /\ c.srcEnd > c.from => pos > c.from \/ c.dstPtr > c.dst
=============================================================================
