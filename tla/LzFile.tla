------------------------------- MODULE LzFile -------------------------------
(***************************************************************************)
(* lz4-1.9.4/lib/lz4file.c, the frame interface as a file: LZ4F_write cuts    *)
(* what it is given into updates of a block at most, and LZ4F_read calls       *)
(* LZ4F_decompress with what is in its buffer until there is as much as was    *)
(* asked for.  The applications by "file" use it.                             *)
(***************************************************************************)
EXTENDS LzFrame

VARIABLE file     \* remain, what a running LZ4F_write has left; size and next,
                  \* what a running LZ4F_read is to give and has given; srcEnd,
                  \* the end of what is in srcBuf; short, whether the last
                  \* LZ4F_read gave less than it was asked for

fileVars == <<vars, file>>
FileInit ==
  Init /\ file = [remain |-> 0, size |-> 0, next |-> 0, srcEnd |-> 0, short |-> FALSE]

(***************************************************************************)
(* Writing.                                                                *)
(***************************************************************************)
WriteOpen(p) == Begin(p) /\ UNCHANGED file
maxWriteSize == getBlockSize(w.c.prefs.blockSizeID)

(* What LZ4F_writeOpen allocates. *)
dstBufMaxSize == W!compressBound(maxWriteSize, w.c.prefs)

FWrite(n) ==
  /\ phase = "writing" /\ file.remain = 0 /\ Len(content) + n <= Len(app.content)
  /\ file' = [file EXCEPT !.remain = n] /\ UNCHANGED vars

WriteChunk ==
  LET chunk == Min({maxWriteSize, file.remain})
  IN /\ file.remain > 0 /\ Update(chunk, "compressed", FALSE)
     /\ file' = [file EXCEPT !.remain = @ - chunk]

WriteClose == file.remain = 0 /\ End /\ UNCHANGED file

(***************************************************************************)
(* Reading.                                                                *)
(***************************************************************************)
(* LZ4F_readOpen takes the largest header there is, and fails without it. *)
ReadOpen ==
  /\ phase = "reading" /\ file.srcEnd = 0
  /\ IF Len(wire) >= maxFHSize
     THEN GetInfo(maxFHSize) /\ file' = [file EXCEPT !.srcEnd = maxFHSize]
     ELSE /\ phase' = "refused" /\ UNCHANGED file
          /\ UNCHANGED <<app, w, content, frames, sum, updates, resets, wire, reader>>

srcBufMaxSize == getBlockSize(d.info.blockSizeID)
Reads == phase = "reading" /\ file.srcEnd > 0 /\ call = <<>> /\ ~failed

FRead(n) ==
  /\ Reads /\ file.next = file.size /\ ~file.short
  /\ file' = [file EXCEPT !.size = n, !.next = 0] /\ UNCHANGED vars

(* fread into srcBuf when it is used up, then LZ4F_decompress. *)
ReadMore ==
  LET end == IF file.srcEnd > pos THEN file.srcEnd ELSE Min({pos + srcBufMaxSize, Len(wire)})
  IN /\ Reads /\ file.next < file.size
     /\ IF end = pos
        THEN file' = [file EXCEPT !.short = TRUE, !.size = file.next] /\ UNCHANGED vars
        ELSE /\ BeginCall(end - pos, Dst + file.next, file.size - file.next, FALSE, FALSE)
             /\ file' = [file EXCEPT !.srcEnd = end] /\ UNCHANGED <<app, writing, sum, resets>>

ReadReturn ==
  Return(FALSE) /\ file' = [file EXCEPT !.next = @ + Len(got') - Len(got)]

FileStep ==
  \/ \E p \in app.prefs : WriteOpen(p)
  \/ \E n \in app.updates : FWrite(n)
  \/ WriteChunk \/ WriteClose \/ (StartReading(0) /\ UNCHANGED file)
  \/ ReadOpen \/ (\E n \in app.rooms : FRead(n))
  \/ ReadMore \/ (RunStage /\ UNCHANGED file) \/ ReadReturn

FileNext == (app.by = "file" /\ FileStep) \/ (app.by = "calls" /\ Next /\ UNCHANGED file)

(* LZ4F_read gives less than it was asked for only when there is no more. *)
ReadIsWhole == file.short => got = Expected

(* Nothing gets stuck: a call of LZ4F_decompress with input and with room      *)
(* takes some of the one or gives some of the other, so that the loop of        *)
(* LZ4F_read ends; and what LZ4F_writeOpen has allocated is always the room     *)
(* that LZ4F_compressUpdate insists on for the next chunk of LZ4F_write, and    *)
(* that LZ4F_compressEnd needs.  With autoFlush the room has no place for bytes  *)
(* that are buffered: no update may have left any.                           *)
GoesOn ==
  /\ Progresses
  /\ app.by = "file" /\ phase = "writing" =>
       \A n \in 0 .. maxWriteSize :
         W!compressBound_internal(n, w.c.prefs, w.c.tmpInSize) <= dstBufMaxSize
=============================================================================
