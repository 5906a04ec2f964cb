--------------------------- MODULE AthCompressor ---------------------------
(***************************************************************************)
(* class AthCompressor (src/AthCompressor.h): one batch of integers is     *)
(* reduced to its differences from the smallest, whose bits decide the     *)
(* width and the mode they are coded with.  The object lives for one call  *)
(* of compress: here it is the record that compress leaves behind.         *)
(***************************************************************************)
EXTENDS CheckTable

CONSTANTS
  ByteBits,     \* bits of a byte: 8
  IntBits,      \* bits of int64_t: 64
  TableWidths,  \* the widths whose tables have been made: 9 to 26
  Tails         \* what lies behind a string in memory

ASSUME WidthsAssumption == ByteBits \in Nat \ {0} /\ Base = 2^ByteBits /\ IntBits \in 2..64

\* checkTableList[mode][datumBit], loaded at the start of main.
CheckTables == [mode \in 0..7 |-> [d \in TableWidths |-> TableOf(d, mode)]]

Unsigned(v) == v % 2^IntBits
Signed(v)   == LET u == Unsigned(v) IN IF u < 2^(IntBits - 1) THEN u ELSE u - 2^IntBits

----------------------------------------------------------------------------
(* minMax.  A difference that int64_t cannot hold is undefined behaviour;  *)
(* the subtraction of the machine wraps it.                                *)

DeltaMin(dataList) == Min(ToSet(dataList))
Deltas(dataList)   == [i \in DOMAIN dataList |-> Signed(dataList[i] - DeltaMin(dataList))]
DeltaMax(dataList) == Max(ToSet(Deltas(dataList)))

\* output: the differences as uint64_t.
Output(dataList) == [i \in DOMAIN dataList |-> Unsigned(Deltas(dataList)[i])]

\* Mutant of DatumBit: one bit less.
DatumBit_Less(dataList) ==
  Max({1} \cup {l \in 1..(IntBits - 1) : DeltaMax(dataList) \div 2^l # 0})

\* calculateDatumSize: the bits of the largest difference (at least one), and its bytes.
DatumBit(dataList) == Max({1} \cup {l \in 1..(IntBits - 1) : DeltaMax(dataList) \div 2^(l - 1) # 0})

DatumLength(bits)  == bits \div ByteBits + (IF bits % ByteBits = 0 THEN 0 ELSE 1)

\* The powers that the widths of integers are made of.
ASSUME PowersAssumption ==
  /\ 2^0 = 1 /\ \A n \in 1..(ByteBits * DatumLength(IntBits)) : 2^n = 2 * 2^(n - 1)
  /\ Base^0 = 1 /\ \A n \in 1..DatumLength(IntBits) : Base^n = Base * Base^(n - 1)

----------------------------------------------------------------------------
(* getMode of AthEncoding.h *)

\* Mutant of MostlyOnes: the number of data is left out of the total.
MostlyOnes_Absolute(data, first, last) ==
  LET ones == Cardinality({p \in (DOMAIN data) \X (first..(last - 1)) :
                             (data[p[1]] \div 2^p[2]) % 2 = 1})
  IN  ones * 2 > last - first

\* The bits first to last - 1 of the data are ones more often than not.
MostlyOnes(data, first, last) ==
  LET ones == Cardinality({p \in (DOMAIN data) \X (first..(last - 1)) :
                             (data[p[1]] \div 2^p[2]) % 2 = 1})
  IN  ones * 2 > (last - first) * Len(data)

\* The bit of a segment is shifted in at the bottom, the first segment's first: it ends
\* up at the top.
getMode(data, d) ==
  LET seg == SegSize(d)
      one(first, last) == IF MostlyOnes(data, first, last) THEN 1 ELSE 0
  IN  4 * one(0, seg) + 2 * one(seg, 2 * seg) + one(2 * seg, d)

----------------------------------------------------------------------------
(* compress *)

\* The datumLength lowest bytes of each difference, the lowest first.
Raw(data, datumLength) ==
  FlattenSeq([i \in DOMAIN data |-> [b \in 1..datumLength |-> (data[i] \div Base^(b - 1)) % Base]])

AthStr(data, d, mode) == FlattenSeq([i \in DOMAIN data |-> AthEncoding(data[i], d, mode)])

\* Mutant of Coded: the codewords are kept however long they are.
Coded_Always(data, d, mode) ==
  IF d <= 8 THEN [result |-> Raw(data, DatumLength(d)), valid |-> FALSE]
  ELSE [result |-> AthStr(data, d, mode), valid |-> TRUE]

\* athEncodeWithoutMask keeps the codewords only if they are not longer than the bytes.
Coded(data, d, mode) ==
  LET raw    == Raw(data, DatumLength(d))
      athStr == AthStr(data, d, mode)
  IN  IF d <= 8 THEN [result |-> raw, valid |-> FALSE]
      ELSE IF Len(athStr) > Len(raw) THEN [result |-> raw, valid |-> FALSE]
      ELSE [result |-> athStr, valid |-> TRUE]

\* naiveEncode: length, deltaMin, and the bytes of the differences.
NaiveSize(data, d) == 4 + 8 + DatumLength(d) * Len(data)

\* Mutant of Shortened: also codewords that share their two bytes with others.
Shortened_Always(code, table) == SubSeq(code, 1, Min({2, Len(code)}))

\* athEncodeWithoutMask2: of a codeword that its first two bytes tell from all others,
\* these two are kept.
Shortened(code, table) ==
  LET node  == Get(table, code[1], NewNode)
      state == EntryFor(node, code \o <<0>>)
  IN  IF ~node.end /\ state.end /\ state.length > 2 THEN SubSeq(code, 1, 2) ELSE code

Coded2(data, d, mode, table) ==
  [result |-> FlattenSeq([i \in DOMAIN data |-> Shortened(AthEncoding(data[i], d, mode), table)]),
   valid  |-> TRUE]

\* minMax appends the differences to those of earlier calls.
Outputs(earlier, dataList) == earlier \o Output(dataList)

\* What both calls compute before they encode, in an object that holds the differences of
\* earlier calls.
Measured(earlier, dataList) ==
  LET output == Outputs(earlier, dataList)
      d      == DatumBit(dataList)
  IN  [dataList |-> dataList, output |-> output, deltaMin |-> DeltaMin(dataList),
       deltaMax |-> DeltaMax(dataList), datumBit |-> d, datumLength |-> DatumLength(d),
       mode |-> getMode(output, d), naive |-> NaiveSize(dataList, d)]

\* The differences that are encoded: the first ones, not the last.
Encoded(m) == SubSeq(m.output, 1, Len(m.dataList))

\* The object, with what the call returns.
Returned(m, coded) ==
  [dataList |-> m.dataList, output |-> m.output, deltaMin |-> m.deltaMin, deltaMax |-> m.deltaMax,
   datumBit |-> m.datumBit, datumLength |-> m.datumLength, mode |-> m.mode, naive |-> m.naive,
   result |-> coded.result, valid |-> coded.valid]

compressAfter(earlier, dataList) ==
  LET m == Measured(earlier, dataList) IN Returned(m, Coded(Encoded(m), m.datumBit, m.mode))

compress2After(earlier, dataList, tables) ==
  LET m == Measured(earlier, dataList)
  IN  Returned(m, Coded2(Encoded(m), m.datumBit, m.mode, Get(tables[m.mode], m.datumBit, Empty)))

compress(dataList) == compressAfter(<< >>, dataList)
=============================================================================
