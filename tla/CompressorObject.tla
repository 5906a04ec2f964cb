-------------------------- MODULE CompressorObject --------------------------
(***************************************************************************)
(* An object of class AthCompressor (src/AthCompressor.h) and its callers: *)
(* data are added, and compressed by compress or by compress2, as often    *)
(* and in whatever order the interface allows.  main makes an object for   *)
(* every batch and calls compress once.                                    *)
(***************************************************************************)
EXTENDS AthCompressor

CONSTANTS Data,         \* the integers added
          MaxData,      \* bounds how many
          MaxCalls      \* bounds the calls of compress and compress2

ASSUME ObjectAssumption ==
  /\ {MaxData, MaxCalls} \subseteq Nat
  /\ Data \subseteq (-(2^(IntBits - 1)))..(2^(IntBits - 1) - 1)

VARIABLES dataList, output, valid,
          comData,   \* what the last call left and returned; << >> before
          last,      \* the last call: "none", "addData", "compress" or "compress2"
          calls, mixed  \* history: calls of the two; data added after one of them

vars == <<dataList, output, valid, comData, last, calls, mixed>>

Init == /\ dataList = << >> /\ output = << >> /\ valid = FALSE
        /\ comData = << >> /\ last = "none" /\ calls = 0 /\ mixed = FALSE

addData ==
  /\ Len(dataList) < MaxData
  /\ \E datum \in Data : dataList' = Append(dataList, datum)
  /\ last' = "addData" /\ mixed' = (calls > 0)
  /\ UNCHANGED <<output, valid, comData, calls>>

\* valid is set and never reset.
Called(name, object) ==
  /\ dataList # << >> /\ calls < MaxCalls
  /\ output' = object.output
  /\ valid' = (valid \/ object.valid)
  /\ comData' = object
  /\ last' = name /\ calls' = calls + 1
  /\ UNCHANGED <<dataList, mixed>>

Compress  == Called("compress", compressAfter(output, dataList))
Compress2 == Called("compress2", compress2After(output, dataList, CheckTables))

Next == addData \/ Compress \/ Compress2

Spec == Init /\ [][Next]_vars

----------------------------------------------------------------------------
Compressed == last \in {"compress", "compress2"}

\* The object after a call: one difference at least for every datum, and a string of bytes.
TypeOK ==
  /\ dataList \in Seq(Data) /\ Len(dataList) <= MaxData /\ calls \in 0..MaxCalls
  /\ Compressed => /\ Len(output) >= Len(dataList)
                   /\ comData.result \in Seq(Byte) /\ comData.mode \in 0..7

\* How far the next codeword of compress2 is: the two bytes that suffice, or all of it.
ShortLength(found, table, memory) ==
  LET state == EntryFor(Get(table, memory[1], NewNode), memory)
  IN  IF ~Get(table, memory[1], NewNode).end /\ state.end
        THEN Min({2, found.usedLength}) ELSE found.usedLength

\* The values of a string of compress2, found by the lookup of main but moving on by the
\* bytes that were kept; << >> where the lookup does not find one value.
LookedUp(n, d, mode, table, memory) ==
  LET at[i \in 0..n] ==
        IF i = 0 THEN [values |-> << >>, ptr |-> 0]
        ELSE LET rest  == SubSeq(memory, at[i - 1].ptr + 1, Len(memory))
                 found == Lookup(table, rest, d, mode)
             IN  IF Cardinality(found) # 1 THEN at[i - 1]
                 ELSE LET one == CHOOSE f \in found : TRUE
                      IN  [values |-> Append(at[i - 1].values, one.value),
                           ptr    |-> at[i - 1].ptr + ShortLength(one, table, rest)]
  IN  at[n]

\* Where there is a table, compress2 writes strings that can be decoded: the bytes it cuts
\* off are told by none of the codewords, and the string is used up to its last byte.
ShortIsDecodable ==
  last = "compress2" /\ ~mixed /\ comData.datumBit \in TableWidths =>
    \A tail \in Tails :
      LookedUp(Len(dataList), comData.datumBit, comData.mode,
               CheckTables[comData.mode][comData.datumBit], comData.result \o tail)
        = [values |-> Output(dataList), ptr |-> Len(comData.result)]

\* Calling compress again, though it appends the differences to those of the first call,
\* chooses the same width and mode and returns the same string.
Repeatable ==
  [][last = "compress" /\ last' = "compress" /\ ~mixed /\ calls' # calls =>
       [comData' EXCEPT !.output = << >>] = [comData EXCEPT !.output = << >>]]_vars
=============================================================================
