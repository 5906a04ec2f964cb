------------------------------- MODULE MCRing -------------------------------
(***************************************************************************)
(* A long buffer at the encoder and, at the decoder, a ring of the size      *)
(* that LZ4_decoderRingBufferSize gives (lz4.h:419).  The first block fills  *)
(* it so far that the second starts again at its beginning; the second has a *)
(* run of literals and then a match at the largest distance.                 *)
(***************************************************************************)
EXTENDS LzStream

Letters == 0 .. 9
MCHash == [b \in [1 .. 2 -> Letters] \cup [1 .. 3 -> Letters] |-> ((b[1] * 3) + (b[2] * 5)) % 23]
MCMessages == {<<0, 1, 2, 3, 4, 5, 6, 7, 8, 9, 0, 2, 4, 6, 8, 1, 3, 5, 7, 9>>,
               <<9, 8, 7, 6, 5, 4, 3, 2, 1, 8, 1, 3, 5, 7, 0>>}
MCAlone == {}
MCDictionary == <<1, 1, 1, 1>>
MCLevels == <<[optimal |-> FALSE, nbSearches |-> 1, targetLength |-> 1]>>
MCLayouts == {<<"flat", "ring", "safe", [level |-> 0, favor |-> FALSE]>>}
=============================================================================
