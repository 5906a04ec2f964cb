------------------------------ MODULE MCFrame ------------------------------
(***************************************************************************)
(* Frames of up to eight bytes, with a window of 2 bytes for 64 KB, blocks   *)
(* of 2 and of 4 bytes, and a hash of 8 bits.                                *)
(***************************************************************************)
EXTENDS LzCommand

MCPrime == <<177, 119, 61, 47, 177>>
MCBlockSizes == <<2, 4>>
MCDictionary == <<1, 2, 1>>
MCContent == <<3, 4, 5, 6, 7, 8, 9, 10>>
Plain_ == [linked |-> TRUE, blockChecksum |-> 0, contentChecksum |-> 0, contentSize |-> 0, dictID |-> 0,
           blockSizeID |-> 4, autoFlush |-> FALSE, cdict |-> FALSE]

Window == [by |-> "calls", content |-> MCContent, frames |-> 1, most |-> 3, resets |-> 1,
           window |-> TRUE, dict |-> FALSE, skip |-> FALSE, users |-> {}, updates |-> {3, 5},
           portions |-> {1, 3}, rooms |-> {1, 4},
           prefs |-> {Plain_, [Plain_ EXCEPT !.blockSizeID = 5, !.contentChecksum = 1]}]
File == [Window EXCEPT !.by = "file", !.most = Len(MCContent), !.rooms = {1, 3, 8}]
Command == [Window EXCEPT !.by = "command", !.content = <<4, 4, 4, 4, 7, 4, 4, 4>>, !.frames = 2, !.most = 8]
             @@ [sources |-> <<>>, cuts |-> {0}, sparse |-> TRUE, passThrough |-> FALSE, rm |-> FALSE]
Source(format, n) == [format |-> format, n |-> n]
MCApplications ==
  {Window,
   [Window EXCEPT !.window = FALSE, !.dict = TRUE, !.updates = {1, 5}, !.rooms = {4},
                  !.prefs = {[Plain_ EXCEPT !.cdict = TRUE, !.dictID = 7, !.autoFlush = TRUE]}],
   [Window EXCEPT !.window = FALSE,
                  !.prefs = {[Plain_ EXCEPT !.blockSizeID = 5, !.autoFlush = TRUE,
                                            !.blockChecksum = 1, !.contentSize = 8]}],
   [Window EXCEPT !.skip = TRUE, !.users = {2}, !.updates = {3, 5}, !.rooms = {0, 4},
                  !.prefs = {[Plain_ EXCEPT !.blockSizeID = 0, !.linked = FALSE,
                                            !.blockChecksum = 1, !.contentChecksum = 1]}],
   [Window EXCEPT !.dict = TRUE, !.updates = {5},
                  !.prefs = {[Plain_ EXCEPT !.cdict = TRUE, !.linked = x, !.blockSizeID = 5] :
                               x \in BOOLEAN}],
   [File EXCEPT !.prefs = {Plain_,
                           [Plain_ EXCEPT !.blockSizeID = 5, !.autoFlush = TRUE, !.contentSize = 8],
                           [Plain_ EXCEPT !.linked = FALSE, !.blockChecksum = 1, !.contentChecksum = 1]}],
   [Command EXCEPT !.sources = <<Source("frame", 8), Source("user", 1), Source("frame", 3)>>,
                   !.cuts = {0, 1, 2, 4, 5},
                   !.prefs = {[Plain_ EXCEPT !.contentChecksum = 1],
                              [Plain_ EXCEPT !.blockSizeID = 5, !.linked = FALSE, !.contentSize = 8],
                              [Plain_ EXCEPT !.blockSizeID = 5, !.blockChecksum = 1, !.contentChecksum = 1]}],
   [Command EXCEPT !.sources = <<Source("legacy", 7), Source("frame", 4), Source("junk", 3)>>,
                   !.prefs = {[Plain_ EXCEPT !.cdict = TRUE]}, !.dict = TRUE, !.skip = TRUE],
   [Command EXCEPT !.sources = <<Source("user", 2), Source("legacy", 3)>>, !.cuts = {0, 1, 4}, !.sparse = FALSE],
   [Command EXCEPT !.sources = <<Source("frame", 1), Source("broken", 1)>>,
                   !.prefs = {Plain_, [Plain_ EXCEPT !.blockChecksum = 1, !.contentChecksum = 1]}],
   [Command EXCEPT !.sources = <<Source("plain", 8)>>, !.passThrough = TRUE],
   [Command EXCEPT !.sources = <<Source("plain", 5)>>, !.cuts = {0, 4}]}

(* Two frames, of which one declares its size, and an application that may     *)
(* give up the first for the second: lz4frame.h, line 491, says that            *)
(* LZ4F_resetDecompressionContext can "abruptly stop any unfinished             *)
(* decompression, and start a new one using same context resources".           *)
MCTwoFrames ==
  {[Window EXCEPT !.frames = 2, !.most = 0, !.updates = {}, !.rooms = {4},
                  !.prefs = {Plain_, [Plain_ EXCEPT !.contentSize = 8]}]}

(* Two files compressed with checksums of their blocks and none of their       *)
(* content, one behind the other as lz4.1.md, line 66, allows, and decoded with  *)
(* --rm.  A block is larger than the buffer that it is read into.             *)
MCLargeBlocks == <<2, 8>>
MCTwoFiles ==
  {[Command EXCEPT !.sources = <<Source("frame", 8), Source("frame", 3)>>,
                   !.content = <<4, 4, 4, 4, 5, 4, 4, 4>>, !.rm = TRUE,
                   !.prefs = {[Plain_ EXCEPT !.blockSizeID = 5, !.linked = FALSE, !.blockChecksum = 1]}]}
=============================================================================
