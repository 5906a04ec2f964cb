------------------------------ MODULE MCBlock ------------------------------
(***************************************************************************)
(* Streams of LZ4 blocks over two letters, with a window of 32 bytes for    *)
(* 64 KB and a format whose lengths are scaled down with it.                *)
(***************************************************************************)
EXTENDS LzStream

Letters == {0, 1}
MCHash == [b \in [1 .. 2 -> Letters] \cup [1 .. 3 -> Letters] |->
             IF Len(b) = 2 THEN b[1] + b[2] ELSE (b[1] + (2 * b[2]) + b[3]) % 4]

MCMessages == {<<0, 1, 0, 0, 1, 1, 0>>, <<0, 1, 1, 0, 0, 1, 0, 0, 1, 1>>,
               <<1, 1, 1, 1, 1, 1, 1, 1, 1, 1, 0, 0>>, <<1>>}
MCAlone == {<<0, 0, 0, 0, 0, 0, 0, 0, 0, 0, 0, 0, 0, 0, 0>>,
            <<0, 1, 1, 1, 1, 1, 0, 1, 1, 1, 1, 1, 1, 1, 1, 1, 0, 1, 1, 1, 1>>,
            <<0, 1, 1, 0, 1, 1, 0, 1, 1, 1, 0, 1, 1, 0, 1, 1, 0, 1, 1, 0, 1>>,
            <<0, 1, 1, 1, 1, 1, 0, 1, 1, 1, 1, 1, 1, 1, 1, 1, 1, 0, 1, 1, 0>>}
MCDictionary == <<1, 1, 0, 0, 1, 1, 0, 1>>

(* Two levels of each parser, below and above PATTERN, and lz4.c itself. *)
Levels == <<[optimal |-> FALSE, nbSearches |-> 3, targetLength |-> 4],
            [optimal |-> FALSE, nbSearches |-> 12, targetLength |-> 4],
            [optimal |-> TRUE, nbSearches |-> 6, targetLength |-> 6],
            [optimal |-> TRUE, nbSearches |-> 20, targetLength |-> 10]>>
At(level) == [level |-> level, favor |-> FALSE]
MCLayouts ==
  {<<"flat", "flat", "fast", At(0)>>, <<"ring", "ring", "safe", At(0)>>, <<"ring", "same", "safe", At(0)>>,
   <<"double", "flat", "safe", At(0)>>, <<"saved", "ring", "fast", At(0)>>, <<"flat", "saved", "safe", At(0)>>,
   <<"flat", "flat", "fast", At(1)>>, <<"ring", "ring", "safe", At(2)>>, <<"ring", "same", "safe", At(3)>>,
   <<"double", "flat", "safe", At(4)>>, <<"saved", "ring", "fast", At(2)>>,
   <<"flat", "saved", "safe", [level |-> 4, favor |-> TRUE]>>}
=============================================================================
