-------------------------- MODULE IntegerConvertor --------------------------
(***************************************************************************)
(* main of src/IntegerConvertor.cpp: the columns of a data set are         *)
(* compressed batch by batch; a batch that the coder made smaller is       *)
(* decoded again at once, value by value, by AthDecoding and by the lookup *)
(* in the table of its width and mode; at the end the speeds are reported. *)
(***************************************************************************)
EXTENDS AthCompressor

CONSTANTS
  DataSets,     \* the columns read from the input file: sequences of equally long columns
  BatchSize,    \* --BatchSize
  Durations     \* what a timed call may take, in microseconds: 0, or 1 for "at least 1"

\* What main needs: a batch has a row (Startup has what becomes of --BatchSize=0), a column is
\* as long as every other and holds integers of the machine, and three bytes that may be read
\* follow every string.
ASSUME MainAssumption ==
  /\ BatchSize \in Nat \ {0} /\ Durations \subseteq {0, 1}
  /\ \A tail \in Tails : tail \in Seq(Byte) /\ Len(tail) >= 3
  /\ \A data \in DataSets :
       /\ data \in Seq(Seq((-(2^(IntBits - 1)))..(2^(IntBits - 1) - 1))) /\ data # << >>
       /\ \A c \in DOMAIN data : Len(data[c]) = Len(data[1])

VARIABLES
  columns,    \* data
  behind,     \* what lies behind result in memory
  phase,      \* "compress", "decode", "done", "aborted" (an assert) or "killed" (a signal)
  batchNo, columnNo, valueNo,  \* i, j and k (columns are counted from 1)
  batch,      \* athCompressor and result
  ptr,        \* ptr - result.data()
  recovered,  \* history: the values of "recover" for this batch
  comDataTotal,
  compressionCost, decompressionCost, decompressionCost2  \* 0, or 1 for more than that

mainVars == <<columns, behind, phase, batchNo, columnNo, valueNo, batch, ptr, recovered, comDataTotal,
          compressionCost, decompressionCost, decompressionCost2>>

costs == <<compressionCost, decompressionCost, decompressionCost2>>

Count    == Len(columns[1])
BatchNum == Count \div BatchSize

\* The values of a batch: those of its BatchSize rows that exist.
Rows(column, n) == SubSeq(column, n * BatchSize + 1, Min({Count, (n + 1) * BatchSize}))

----------------------------------------------------------------------------
MainInit == /\ columns \in DataSets
        /\ behind \in Tails
        /\ phase = "compress"
        /\ batchNo = 0 /\ columnNo = 1 /\ valueNo = 0
        /\ batch = compress(<<0>>)   \* no object yet: overwritten before it is read
        /\ ptr = 0
        /\ recovered = << >>
        /\ comDataTotal = [naive |-> 0, ath |-> 0]
        /\ compressionCost = 0 /\ decompressionCost = 0 /\ decompressionCost2 = 0

\* "j++", and "i++" after the last column.
NextBatch == /\ phase' = "compress"
             /\ columnNo' = IF columnNo = Len(columns) THEN 1 ELSE columnNo + 1
             /\ batchNo' = IF columnNo = Len(columns) THEN batchNo + 1 ELSE batchNo

CompressBatch ==
  /\ phase = "compress"
  /\ batchNo < BatchNum
  /\ batch' = compress(Rows(columns[columnNo], batchNo))
  /\ comDataTotal' = [naive |-> comDataTotal.naive + batch'.naive,
                      ath   |-> comDataTotal.ath + Len(batch'.result)]
  /\ \E t \in Durations : compressionCost' = Max({compressionCost, t})
  /\ valueNo' = 0 /\ ptr' = 0 /\ recovered' = << >>
  /\ IF batch'.valid THEN phase' = "decode" /\ UNCHANGED <<batchNo, columnNo>> ELSE NextBatch
  /\ UNCHANGED <<columns, behind, decompressionCost, decompressionCost2>>

\* The memory ptr points into.
Memory == SubSeq(batch.result, ptr + 1, Len(batch.result)) \o behind

\* checkTableList[mode][datumBit]: an empty table when none has been loaded.
TableInUse == Get(CheckTables[batch.mode], batch.datumBit, Empty)

\* One value of a batch, with the assertions that the lookup agrees with AthDecoding.
DecodeValue ==
  /\ phase = "decode"
  /\ valueNo < Len(batch.dataList)
  /\ LET decoded == AthDecoding(Memory, batch.datumBit, batch.mode)
     IN  IF Lookup(TableInUse, Memory, batch.datumBit, batch.mode) = {decoded}
           THEN /\ ptr' = ptr + decoded.usedLength
                /\ recovered' = Append(recovered, Signed(batch.deltaMin + decoded.value))
                /\ valueNo' = valueNo + 1
                /\ IF valueNo' = Len(batch.dataList)
                     THEN NextBatch ELSE UNCHANGED <<phase, batchNo, columnNo>>
           ELSE /\ phase' = "aborted"
                /\ UNCHANGED <<ptr, recovered, valueNo, batchNo, columnNo>>
  /\ \E t, u \in Durations : /\ decompressionCost' = Max({decompressionCost, t})
                             /\ decompressionCost2' = Max({decompressionCost2, u})
  /\ UNCHANGED <<columns, behind, batch, comDataTotal, compressionCost>>

\* The three divisions by the times measured, in the integers: by zero they are a signal.
Report ==
  /\ phase = "compress"
  /\ batchNo >= BatchNum
  /\ phase' = IF 0 \in {compressionCost, decompressionCost, decompressionCost2}
                THEN "killed" ELSE "done"
  /\ UNCHANGED <<columns, behind, batchNo, columnNo, valueNo, batch, ptr, recovered,
                 comDataTotal, costs>>

MainNext == CompressBatch \/ DecodeValue \/ Report

MainSpec == MainInit /\ [][MainNext]_mainVars

----------------------------------------------------------------------------
(* Properties *)

\* Every codeword of the batch can be ended (the run lost shows one that cannot).
Ended(b) == \A n \in DOMAIN b.dataList : Ends(b.output[n], b.datumBit, b.mode)

\* The differences from the smallest value fit in an int64_t.
Fits(b) == Max(ToSet(b.dataList)) - b.deltaMin < 2^(IntBits - 1)

\* The variables stay in the ranges of the code's; ptr never points behind the string.
MainTypeOK == /\ \A c \in DOMAIN columns : Len(columns[c]) = Count
              /\ behind \in Tails
              /\ phase \in {"compress", "decode", "done", "aborted", "killed"}
              /\ batchNo \in 0..BatchNum
              /\ columnNo \in DOMAIN columns
              /\ valueNo \in 0..BatchSize
              /\ batch.datumBit \in 1..(IntBits - 1)
              /\ batch.mode \in 0..7
              /\ batch.result \in Seq(Byte)
              /\ batch.valid /\ Ended(batch) => ptr \in 0..Len(batch.result)
              /\ {compressionCost, decompressionCost, decompressionCost2} \subseteq {0, 1}

\* The assertions of main, that the lookup in the table returns what AthDecoding returns,
\* value and length, hold for every codeword of a batch whose width has a table, and fail at
\* the first codeword of a batch that is too wide for one (27 bits and more): the decoder that
\* starts from a State of zeros does not come upon the value and the length by chance.
LookupAgrees ==
  /\ phase = "aborted" => batch.datumBit \notin TableWidths
  /\ batch.valid /\ batch.datumBit \notin TableWidths => recovered = << >>

\* "recover != data[j][index]" never holds: what is decoded are the rows, in their order.
RowsDecoded == batch.valid => IsPrefix(recovered, batch.dataList)

\* The last value of a batch ends where the string ends: ptr has gone over every byte of
\* it once, though nothing in the string says where a codeword ends.
StringUsedUp == (batch.valid /\ valueNo = Len(batch.dataList)) => ptr = Len(batch.result)

\* A batch that is stored as it is keeps every bit of its differences.
RawIsWhole ==
  ~batch.valid =>
    \A n \in DOMAIN batch.dataList :
      LET first == (n - 1) * batch.datumLength
          value[b \in 0..batch.datumLength] ==
            IF b = 0 THEN 0 ELSE value[b - 1] + batch.result[first + b] * Base^(b - 1)
      IN  batch.deltaMin + value[batch.datumLength] = batch.dataList[n]

\* What main compresses can be recovered from the string, in one of the two forms and
\* byte for byte, unless a batch spans more than an int64_t can hold or a codeword of it
\* is lost.
RecoversTheRows ==
  /\ Ended(batch) => StringUsedUp /\ (Fits(batch) => RowsDecoded)
  /\ Fits(batch) => RawIsWhole

\* However the values are spread, the coded batches are never longer than the naive ones
\* without their headers of 12 bytes each.
NeverLarger ==
  LET open    == IF phase \in {"decode", "aborted"} THEN 1 ELSE 0
      batches == batchNo * Len(columns) + (columnNo - 1) + open
  IN  comDataTotal.ath + 12 * batches <= comDataTotal.naive

=============================================================================
