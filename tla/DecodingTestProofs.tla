-------------------------- MODULE DecodingTestProofs --------------------------
(***************************************************************************)
(* The generator of the tables, for every width, set of modes, table of    *)
(* probabilities and whatever stands in memory behind a codeword: if the   *)
(* table of a mode is usable, none of the program's assertions fails, and  *)
(* what it builds, one Result after the other, saves and loads is that     *)
(* table, in which the fast decoder finds what AthDecoding returns.        *)
(*                                                                         *)
(* The argument.  A head node is at every moment what the values that have *)
(* been put into it make of it (NodeWith).  A value of a byte for codeword *)
(* has its head node to itself, as no codeword begins with another         *)
(* (PrefixFree).  The values of a cell agree on the bits up to the limit   *)
(* that is computed for it, so that each of them leads prebuild to the     *)
(* same State (PrebuildShared): none changes what another has left.  When  *)
(* all have been put there, the table is TableOf of the width and mode; it *)
(* is loaded as it was saved (LoadInvertsSave) and serves every codeword   *)
(* (TableDecodes).                                                         *)
(***************************************************************************)
EXTENDS DecodingTest, AthCallsProofs, TableStoreProofs

----------------------------------------------------------------------------
(* Values, and the cells of their codewords *)

Values == 0..(MaxValue - 1)
Code(v, m) == AthEncoding(v, DatumSize, m)

\* The values whose codewords begin with h, and those whose codewords go on with s.
ValuesOf(h, m)  == {v \in Values : Code(v, m)[1] = h}
CellOf(h, s, m) == {v \in ValuesOf(h, m) : Code(v, m)[2] = s}
OneByte(h, m)   == \E v \in ValuesOf(h, m) : Len(Code(v, m)) = 1

Coded(vs, m) == {[value |-> v, code |-> Code(v, m)] : v \in vs}
EntryAt(h, s, m) == EntryOf(Coded(CellOf(h, s, m), m), DatumSize, m)

LEMMA Width ==
  /\ DatumSize \in 1..64 /\ DatumSize \in Nat /\ Powers(DatumSize)
  /\ MaxValue \in Nat \ {0} /\ Values = 0..(2^DatumSize - 1)
<1>1. DatumSize \in 1..30
  BY TableAssumption
<1>2. DatumSize \in 1..64 /\ DatumSize \in Nat /\ DatumSize \in 0..DatumSize
  BY <1>1
<1>3. Powers(DatumSize)
  BY PowersAssumption DEF Powers
<1>4. 2^DatumSize \in Nat \ {0}
  BY <1>2, <1>3, PowersNatural
<1> QED
  BY <1>2, <1>3, <1>4 DEF MaxValue, Values

\* A value and its codeword.
Sound1(v, m) ==
  /\ v \in Nat /\ FitsIn(v, DatumSize) /\ Ends(v, DatumSize, m)
  /\ Code(v, m) \in Seq(Byte) /\ Len(Code(v, m)) \in Nat /\ Len(Code(v, m)) > 0
  /\ Code(v, m)[1] \in Byte

LEMMA ValueFacts ==
  ASSUME NEW m, Usable(DatumSize, m)
  PROVE  \A v \in Values : Sound1(v, m)
<1> SUFFICES ASSUME NEW v \in Values PROVE Sound1(v, m)
  OBVIOUS
<1>1. v \in Nat /\ v < 2^DatumSize
  <2>1. MaxValue \in Nat /\ v \in 0..(MaxValue - 1) /\ MaxValue = 2^DatumSize
    BY Width DEF Values, MaxValue
  <2> HIDE DEF MaxValue
  <2>2. v \in Nat /\ v < MaxValue
    BY <2>1
  <2> QED
    BY <2>1, <2>2
<1>2. FitsIn(v, DatumSize)
  BY <1>1, Width, FitsBelow
<1>3. Ends(v, DatumSize, m)
  BY Width DEF Usable
<1>4. Code(v, m) \in Seq(Byte) /\ Len(Code(v, m)) \in Nat /\ Len(Code(v, m)) > 0
  BY <1>1, <1>3, Width, CodewordType DEF Code
<1> DEFINE code == Code(v, m)
<1>5. code[1] \in Byte
  <2>1. code \in Seq(Byte) /\ Len(code) \in Nat /\ Len(code) > 0
    BY <1>4
  <2> HIDE DEF code
  <2>2. 1 \in 1..Len(code)
    BY <2>1
  <2> QED
    BY <2>1, <2>2
<1> QED
  BY <1>1, <1>2, <1>3, <1>4, <1>5 DEF Sound1

\* A value whose codeword is one byte has that byte to itself.
LEMMA AloneWithByte ==
  ASSUME NEW m, Usable(DatumSize, m), NEW h, NEW v \in ValuesOf(h, m), Len(Code(v, m)) = 1
  PROVE  \A w \in ValuesOf(h, m) : w = v
<1> SUFFICES ASSUME NEW w \in ValuesOf(h, m) PROVE v = w
  OBVIOUS
<1>1. v \in Values /\ w \in Values /\ Code(v, m)[1] = h /\ Code(w, m)[1] = h
  BY DEF ValuesOf
<1>2. Sound1(v, m) /\ Sound1(w, m)
  BY <1>1, ValueFacts
<1>3. Len(Code(v, m)) <= Len(Code(w, m))
  <2>1. \A l \in Nat : l > 0 => 1 <= l
    OBVIOUS
  <2> QED
    BY <1>2, <2>1 DEF Sound1
<1>4. Begins(Code(w, m), Code(v, m))
  BY <1>1 DEF Begins
<1> QED
  BY <1>2, <1>3, <1>4, Width, PrefixFree DEF Sound1, Code

\* The Results of values are these, with their codewords.
LEMMA CodedMembers ==
  ASSUME NEW m, NEW vs
  PROVE  /\ \A v \in vs : \E q \in Coded(vs, m) : q.value = v /\ q.code = Code(v, m)
         /\ \A q \in Coded(vs, m) : q.value \in vs /\ q.code = Code(q.value, m)
<1>1. ASSUME NEW v \in vs PROVE \E q \in Coded(vs, m) : q.value = v /\ q.code = Code(v, m)
  <2>1. [value |-> v, code |-> Code(v, m)] \in Coded(vs, m)
    BY DEF Coded
  <2>2. /\ [value |-> v, code |-> Code(v, m)].value = v
        /\ [value |-> v, code |-> Code(v, m)].code = Code(v, m)
    OBVIOUS
  <2> QED
    BY <2>1, <2>2
<1>2. ASSUME NEW q \in Coded(vs, m) PROVE q.value \in vs /\ q.code = Code(q.value, m)
  BY DEF Coded
<1> QED
  BY <1>1, <1>2

\* The Results of a head byte and of a cell are the values with their codewords.
LEMMA CellsCoded ==
  ASSUME NEW m, NEW h
  PROVE  /\ WithByte(Results(DatumSize, m), 1, h) = Coded(ValuesOf(h, m), m)
         /\ \A s : WithByte(Coded(ValuesOf(h, m), m), 2, s) = Coded(CellOf(h, s, m), m)
         /\ \A vs : {q.value : q \in Coded(vs, m)} = vs
<1>1. Results(DatumSize, m) = {[value |-> v, code |-> Code(v, m)] : v \in Values}
  BY Width DEF Results, Code
<1>2. WithByte(Results(DatumSize, m), 1, h) = Coded(ValuesOf(h, m), m)
  BY <1>1 DEF WithByte, Coded, ValuesOf
<1>3. ASSUME NEW s PROVE WithByte(Coded(ValuesOf(h, m), m), 2, s) = Coded(CellOf(h, s, m), m)
  BY DEF WithByte, Coded, CellOf
<1>4. ASSUME NEW vs PROVE {q.value : q \in Coded(vs, m)} = vs
  <2>1. \A v \in vs : \E q \in Coded(vs, m) : q.value = v
    BY CodedMembers
  <2>2. \A q \in Coded(vs, m) : q.value \in vs
    BY CodedMembers
  <2> QED
    BY <2>1, <2>2
<1> QED
  BY <1>2, <1>3, <1>4

\* A cell of several values: they agree up to the limit that is computed for them, which is
\* not 0, and the cell keeps a decoder.
Shared(h, s, m) ==
  LET cell  == CellOf(h, s, m)
      limit == CommonLength(cell, DatumSize)
  IN  /\ limit \in 0..(DatumSize - 1) /\ limit # 0
      /\ \A v, w \in cell : Agree(v, w, DatumSize, limit)
      /\ ~EntryAt(h, s, m).end

LEMMA CellShares ==
  ASSUME NEW m, Usable(DatumSize, m), NEW h, ~OneByte(h, m), NEW s,
         NEW v \in CellOf(h, s, m), NEW w \in CellOf(h, s, m), v # w
  PROVE  Shared(h, s, m)
<1> DEFINE ofHead == Coded(ValuesOf(h, m), m)
           cell == CellOf(h, s, m)
           limit == CommonLength(cell, DatumSize)
           entry == EntryAt(h, s, m)
<1>1. DatumSize \in 1..64 /\ DatumSize \in Nat /\ Powers(DatumSize)
  BY Width
<1>2. cell \in SUBSET Nat /\ \A x \in cell : Sound1(x, m)
  <2>1. \A x \in cell : x \in Values
    BY DEF CellOf, ValuesOf
  <2>2. \A x \in cell : Sound1(x, m)
    BY <2>1, ValueFacts
  <2> QED
    BY <2>2 DEF Sound1
<1>3. ~entry.end
  <2> DEFINE results == Coded(cell, m)
  <2>1. \E a, b \in results : a # b
    <3>1. \E a \in results : a.value = v
      BY CodedMembers
    <3>2. \E b \in results : b.value = w
      BY CodedMembers
    <3> QED
      BY <3>1, <3>2
  <2>2. entry = EntryOf(results, DatumSize, m)
    BY DEF EntryAt
  <2> HIDE DEF results, entry
  <2>3. \A r : results # {r}
    BY <2>1
  <2> QED
    BY <2>2, <2>3 DEF EntryOf
<1>4. Serves(Coded(cell, m), DatumSize, m)
  <2>1. WithByte(Results(DatumSize, m), 1, h) = ofHead /\ WithByte(ofHead, 2, s) = Coded(cell, m)
    BY CellsCoded
  <2> DEFINE x == [value |-> v, code |-> Code(v, m)]
  <2>2. x \in ofHead /\ x.code[1] = h /\ x.code[2] = s
    BY DEF Coded, CellOf, ValuesOf
  <2>3. x \in Results(DatumSize, m)
    BY Width DEF Results, CellOf, ValuesOf, Code
  <2>4. \A q \in ofHead : Len(q.code) # 1
    BY DEF OneByte, Coded
  <2> HIDE DEF x, ofHead, cell
  <2>5. h \in {q.code[1] : q \in Results(DatumSize, m)} /\ s \in {q.code[2] : q \in ofHead}
    BY <2>2, <2>3
  <2> QED
    BY <2>1, <2>4, <2>5 DEF Usable
<1>5. \A x, y \in cell : x % 2 = y % 2
  <2>1. EntryOf(Coded(cell, m), DatumSize, m) = entry
    BY DEF EntryAt
  <2> HIDE DEF cell, entry
  <2>2. \A q, r \in Coded(cell, m) : q.value % 2 = r.value % 2
    BY <1>3, <1>4, <2>1 DEF Serves
  <2>3. \A x \in cell : \E q \in Coded(cell, m) : q.value = x
    BY CodedMembers
  <2> QED
    BY <2>2, <2>3
<1>6. limit \in 0..(DatumSize - 1) /\ \A x, y \in cell : \A k \in 1..limit : BitsOf(x, DatumSize)[k] = BitsOf(y, DatumSize)[k]
  <2> HIDE DEF cell
  <2> QED
    BY <1>1, <1>2, <1>5, CommonBits
<1>7. limit # 0
  <2> SUFFICES ASSUME limit = 0 PROVE FALSE
    OBVIOUS
  <2> DEFINE differing == {i \in 1..(DatumSize - 1) : \E x, y \in cell : (x \div 2^i) % 2 # (y \div 2^i) % 2}
  <2>1. limit = IF differing = {} THEN 0 ELSE Min(differing)
    BY DEF CommonLength
  <2>2. differing = {}
    <3> SUFFICES ASSUME differing # {} PROVE FALSE
      OBVIOUS
    <3>1. differing \in SUBSET Nat /\ \A i \in differing : i # 0
      BY <1>1
    <3> HIDE DEF differing
    <3>2. \E i \in differing : \A j \in differing : i <= j
      BY <3>1, LeastElement
    <3>3. Min(differing) \in differing
      BY <3>2 DEF Min
    <3> QED
      BY <2>1, <3>1, <3>3
  <2>3. \A i \in 1..(DatumSize - 1) : (v \div 2^i) % 2 = (w \div 2^i) % 2
    BY <2>2
  <2> HIDE DEF cell, limit
  <2>4. v \in Nat /\ w \in Nat /\ FitsIn(v, DatumSize) /\ FitsIn(w, DatumSize) /\ v % 2 = w % 2
    <3>1. v \in cell /\ w \in cell
      BY DEF cell
    <3> QED
      BY <1>2, <1>5, <3>1 DEF Sound1
  <2>5. ASSUME NEW k \in 1..DatumSize PROVE BitsOf(v, DatumSize)[k] = BitsOf(w, DatumSize)[k]
    <3>1. BitsOf(v, DatumSize)[k] = (v \div 2^(k - 1)) % 2 /\ BitsOf(w, DatumSize)[k] = (w \div 2^(k - 1)) % 2
      BY <1>1, <2>4, BitsAt
    <3>2. CASE k = 1
      <4>1. 2^(k - 1) = 1
        BY <1>1, <3>2 DEF Powers
      <4>2. v \div 1 = v /\ w \div 1 = w
        BY <2>4
      <4> QED
        BY <2>4, <3>1, <4>1, <4>2, Zenon
    <3>3. CASE k # 1
      <4>1. k - 1 \in 1..(DatumSize - 1)
        BY <1>1, <3>3
      <4>2. (v \div 2^(k - 1)) % 2 = (w \div 2^(k - 1)) % 2
        BY <2>3, <4>1
      <4> QED
        BY <3>1, <4>2, Zenon
    <3> QED
      BY <3>2, <3>3
  <2>6. BitsOf(v, DatumSize) = BitsOf(w, DatumSize)
    <3> DEFINE a == BitsOf(v, DatumSize)
               b == BitsOf(w, DatumSize)
    <3>1. a \in [1..DatumSize -> {0, 1}] /\ b \in [1..DatumSize -> {0, 1}]
      BY <1>1, <2>4, BitsUnfold
    <3>2. \A k \in 1..DatumSize : a[k] = b[k]
      BY <2>5
    <3> HIDE DEF a, b
    <3>3. a = [k \in 1..DatumSize |-> a[k]] /\ b = [k \in 1..DatumSize |-> b[k]]
      BY <3>1
    <3>4. [k \in 1..DatumSize |-> a[k]] = [k \in 1..DatumSize |-> b[k]]
      BY <3>2
    <3> QED
      BY <3>3, <3>4 DEF a, b
  <2>7. ValueOf(BitsOf(v, DatumSize)) = v /\ ValueOf(BitsOf(w, DatumSize)) = w
    BY <1>1, <2>4, ValueIsBack
  <2> QED
    BY <2>6, <2>7
<1> HIDE DEF limit, entry, cell
<1> QED
  BY <1>3, <1>6, <1>7 DEF Shared, Agree, limit, cell, entry

\* The State of a cell, and what AthDecoding_prebuild returns for each of its values.
LEMMA CellOfMany ==
  ASSUME NEW m, Usable(DatumSize, m), NEW h, ~OneByte(h, m), NEW s,
         NEW v \in CellOf(h, s, m), NEW w \in CellOf(h, s, m), v # w, NEW memory, Starts(memory, v, DatumSize, m)
  PROVE  {[end |-> FALSE, prebuildState |-> p] :
            p \in AthDecoding_prebuild(memory, DatumSize, 2, CommonLength(CellOf(h, s, m), DatumSize), m)}
           = {EntryAt(h, s, m)}
<1> DEFINE cell == CellOf(h, s, m)
           limit == CommonLength(cell, DatumSize)
           results == Coded(cell, m)
           r == CHOOSE q \in results : TRUE
           zeros == <<0, 0, 0, 0>>
           states == AthDecoding_prebuild(r.code \o zeros, DatumSize, 2, limit, m)
           own == AthDecoding_prebuild(memory, DatumSize, 2, limit, m)
           entry == EntryAt(h, s, m)
           u == r.value
<1>1. DatumSize \in 1..64 /\ DatumSize \in Nat
  BY Width
<1>2. Shared(h, s, m)
  BY CellShares
<1>3. limit \in 0..(DatumSize - 1) /\ (\A x, y \in cell : Agree(x, y, DatumSize, limit)) /\ ~entry.end
  BY <1>2 DEF Shared
<1>4. r \in results
  <2>1. \E q : q \in results
    BY CodedMembers
  <2> HIDE DEF results
  <2> QED
    BY <2>1
<1>5. u \in cell /\ r.code = Code(u, m)
  <2> HIDE DEF r
  <2> QED
    BY <1>4, CodedMembers
<1>6. {q.value : q \in results} = cell
  BY CellsCoded
<1>7. entry = IF results = {r} THEN [end |-> TRUE, value |-> r.value, length |-> Len(r.code)]
              ELSE [end |-> FALSE, prebuildState |-> CHOOSE p \in states : TRUE]
  BY <1>6 DEF EntryAt, EntryOf
<1>8. Sound1(u, m) /\ Sound1(v, m)
  <2>1. \A x \in cell : x \in Values
    BY DEF CellOf, ValuesOf
  <2> HIDE DEF u
  <2> QED
    BY <1>5, <2>1, ValueFacts
<1>9. Starts(r.code \o zeros, u, DatumSize, m)
  <2> DEFINE code == Code(u, m)
  <2>1. 0 \in Byte
    BY Sizes DEF Byte
  <2>2. zeros \in Seq(Byte) /\ Len(zeros) = 4
    BY <2>1
  <2>3. code \in Seq(Byte)
    BY <1>8 DEF Sound1
  <2>4. r.code \o zeros = code \o zeros
    BY <1>5
  <2> HIDE DEF code, zeros
  <2>5. /\ code \o zeros \in Seq(Byte) /\ Begins(code \o zeros, code)
        /\ Len(code \o zeros) = Len(code) + 4 /\ Len(code) \in Nat
    BY <2>2, <2>3, BehindCodeword
  <2>6. Len(code) + 4 >= Len(code) + 3
    BY <2>5
  <2> QED
    BY <2>4, <2>5, <2>6 DEF Starts, code, Code
<1>10. SameState(states, own)
  <2>1. Agree(u, v, DatumSize, limit) /\ Ends(u, DatumSize, m) /\ Ends(v, DatumSize, m) /\ u \in Nat /\ v \in Nat
    BY <1>3, <1>5, <1>8 DEF Sound1
  <2>2. Starts(memory, v, DatumSize, m)
    OBVIOUS
  <2> DEFINE mine == r.code \o zeros
  <2>3. Starts(mine, u, DatumSize, m)
    BY <1>9
  <2> HIDE DEF u, limit, mine
  <2>4. SameState(AthDecoding_prebuild(mine, DatumSize, 2, limit, m), AthDecoding_prebuild(memory, DatumSize, 2, limit, m))
    BY <1>1, <1>3, <2>1, <2>2, <2>3, PrebuildShared
  <2> QED
    BY <2>4 DEF mine
<1> HIDE DEF states, own, entry, r, results
<1>11. entry = [end |-> FALSE, prebuildState |-> CHOOSE p \in states : TRUE]
  BY <1>3, <1>7
<1>12. states = own /\ \E p : states = {p}
  BY <1>10 DEF SameState
<1>13. {[end |-> FALSE, prebuildState |-> p] : p \in own} = {entry}
  BY <1>11, <1>12
<1> QED
  BY <1>13 DEF own, entry

LEMMA CellOfOne ==
  ASSUME NEW m, NEW h, NEW s, NEW v, CellOf(h, s, m) = {v}
  PROVE  EntryAt(h, s, m) = [end |-> TRUE, value |-> v, length |-> Len(Code(v, m))]
<1> DEFINE r == [value |-> v, code |-> Code(v, m)]
<1>1. Coded(CellOf(h, s, m), m) = {r}
  BY DEF Coded
<1>2. (CHOOSE q \in {r} : TRUE) = r
  OBVIOUS
<1>3. r.value = v /\ r.code = Code(v, m)
  OBVIOUS
<1> HIDE DEF r
<1> QED
  BY <1>1, <1>2, <1>3 DEF EntryAt, EntryOf
----------------------------------------------------------------------------
(* What the loops compute of one value *)

LEMMA ResultFacts ==
  ASSUME NEW v \in Values, Usable(DatumSize, mode), garbage \in Garbage
  PROVE  /\ ResultOf(v).value = v /\ ResultOf(v).length = Len(Code(v, mode))
         /\ ResultOf(v).encode[1] = Code(v, mode)[1]
         /\ Len(Code(v, mode)) # 1 => Len(Code(v, mode)) > 1 /\ ResultOf(v).encode[2] = Code(v, mode)[2]
         /\ Starts(ResultOf(v).encode, v, DatumSize, mode)
<1> DEFINE code == Code(v, mode)
           memory == code \o garbage
<1>1. code \in Seq(Byte) /\ Len(code) \in Nat /\ Len(code) > 0
  BY ValueFacts DEF Sound1
<1>2. garbage \in Seq(Byte) /\ Len(garbage) >= 8
  BY TableAssumption
<1>3. ResultOf(v) = [value |-> v, length |-> Len(code), encode |-> memory]
  BY DEF ResultOf, Code
<1>4. code = AthEncoding(v, DatumSize, mode)
  BY DEF Code
<1> HIDE DEF code
<1>5. /\ memory \in Seq(Byte) /\ Begins(memory, code) /\ Len(memory) = Len(code) + Len(garbage)
      /\ Len(garbage) \in Nat
  BY <1>1, <1>2, BehindCodeword
<1> HIDE DEF memory
<1>6. 1 \in 1..Len(code) /\ (Len(code) # 1 => Len(code) > 1 /\ 2 \in 1..Len(code))
  <2>1. \A l \in Nat : l > 0 => 1 \in 1..l /\ (l # 1 => l > 1 /\ 2 \in 1..l)
    OBVIOUS
  <2> QED
    BY <1>1, <2>1
<1>7. memory[1] = code[1] /\ (Len(code) # 1 => memory[2] = code[2])
  BY <1>5, <1>6 DEF Begins
<1>8. Len(memory) >= Len(code) + 3
  BY <1>1, <1>2, <1>5
<1>9. Starts(memory, v, DatumSize, mode)
  BY <1>4, <1>5, <1>8 DEF Starts
<1> QED
  BY <1>3, <1>6, <1>7, <1>9 DEF code

\* The buffer of zeros that the first loop and the last one encode into.
LEMMA BufferStarts ==
  ASSUME NEW v \in Values, Usable(DatumSize, mode)
  PROVE  Starts(Buffer(v), v, DatumSize, mode) /\ Buffer(v)[1] = Code(v, mode)[1]
<1> DEFINE code == Code(v, mode)
           zeros == <<0, 0, 0, 0, 0, 0, 0, 0>>
           memory == code \o zeros
<1>1. code \in Seq(Byte) /\ Len(code) \in Nat /\ Len(code) > 0
  BY ValueFacts DEF Sound1
<1>2. zeros \in Seq(Byte) /\ Len(zeros) = 8
  <2>1. 0 \in Byte
    BY Sizes DEF Byte
  <2> QED
    BY <2>1
<1>3. Buffer(v) = memory /\ code = AthEncoding(v, DatumSize, mode)
  BY DEF Buffer, Code
<1> HIDE DEF code, zeros
<1>4. memory \in Seq(Byte) /\ Begins(memory, code) /\ Len(memory) = Len(code) + 8
  BY <1>1, <1>2, BehindCodeword
<1> HIDE DEF memory
<1>5. 1 \in 1..Len(code) /\ Len(memory) >= Len(code) + 3
  BY <1>1, <1>4
<1> QED
  BY <1>3, <1>4, <1>5 DEF Starts, Begins, code

\* The list of the values of a head byte that no value has to itself: every cell is in it.
ListedAs(list, h, m) ==
  /\ DOMAIN list = {Code(v, m)[2] : v \in ValuesOf(h, m)}
  /\ \A s \in DOMAIN list :
       list[s] = [values |-> CellOf(h, s, m),
                  commonLength |-> IF Cardinality(CellOf(h, s, m)) > 1
                                     THEN CommonLength(CellOf(h, s, m), DatumSize) ELSE 0]

LEMMA Listed ==
  ASSUME NEW h, Usable(DatumSize, mode), garbage \in Garbage
  PROVE  /\ ~OneByte(h, mode) => ListedAs(ValueList(ValuesOf(h, mode)), h, mode)
         /\ OneByte(h, mode) => DOMAIN ValueList(ValuesOf(h, mode)) = {}
<1> DEFINE values == ValuesOf(h, mode)
           longer == {r \in {ResultOf(v) : v \in values} : r.length > 1}
           of(s) == {r.value : r \in {q \in longer : q.encode[2] = s}}
           entry(vs) == [values |-> vs,
                         commonLength |-> IF Cardinality(vs) > 1 THEN CommonLength(vs, DatumSize) ELSE 0]
           list == ValueList(values)
<1>1. list = [s \in {r.encode[2] : r \in longer} |-> entry(of(s))]
  BY DEF ValueList
<1>2. \A v \in values : v \in Values
  BY DEF ValuesOf
<1>3. \A v \in values :
        /\ ResultOf(v).value = v /\ ResultOf(v).length = Len(Code(v, mode))
        /\ Len(Code(v, mode)) # 1 => Len(Code(v, mode)) > 1 /\ ResultOf(v).encode[2] = Code(v, mode)[2]
  BY <1>2, ResultFacts
<1>4. CASE OneByte(h, mode)
  <2>1. PICK v \in values : Len(Code(v, mode)) = 1
    BY <1>4 DEF OneByte
  <2>2. \A w \in values : w = v
    BY <2>1, AloneWithByte
  <2>3. \A w \in values : ~(ResultOf(w).length > 1)
    <3> DEFINE short == ResultOf(v).length
    <3>1. short = 1
      BY <1>3, <2>1
    <3> HIDE DEF short
    <3>2. ~(short > 1)
      BY <3>1
    <3>3. ~(ResultOf(v).length > 1)
      BY <3>2 DEF short
    <3> HIDE DEF values
    <3> QED
      BY <2>2, <3>3, Zenon
  <2> HIDE DEF values
  <2>4. longer = {}
    BY <2>3
  <2> HIDE DEF longer, list
  <2>5. DOMAIN list = {}
    BY <1>1, <2>4
  <2> QED
    BY <1>4, <2>5 DEF list, values
<1>5. CASE ~OneByte(h, mode)
  <2>1. \A v \in values : /\ Len(Code(v, mode)) > 1 /\ ResultOf(v).length > 1
                          /\ ResultOf(v).encode[2] = Code(v, mode)[2] /\ ResultOf(v).value = v
    BY <1>3, <1>5 DEF OneByte
  <2>2. longer = {ResultOf(v) : v \in values}
    <3> HIDE DEF values
    <3> QED
      BY <2>1
  <2>3. {r.encode[2] : r \in longer} = {Code(v, mode)[2] : v \in values}
    <3> HIDE DEF values, longer
    <3> QED
      BY <2>1, <2>2
  <2>4. ASSUME NEW s PROVE of(s) = CellOf(h, s, mode)
    <3>1. CellOf(h, s, mode) = {v \in values : Code(v, mode)[2] = s}
      BY DEF CellOf
    <3>2. \A v \in values : ResultOf(v) \in longer
      BY <2>2
    <3>3. \A r \in longer : \E v \in values : r = ResultOf(v)
      BY <2>2
    <3> HIDE DEF values, longer
    <3>4. \A v \in values : Code(v, mode)[2] = s => v \in of(s)
      BY <2>1, <3>2
    <3>5. \A v \in of(s) : v \in values /\ Code(v, mode)[2] = s
      BY <2>1, <3>3
    <3> QED
      BY <3>1, <3>4, <3>5
  <2>5. \A s : entry(of(s)) = [values |-> CellOf(h, s, mode),
                               commonLength |-> IF Cardinality(CellOf(h, s, mode)) > 1
                                                  THEN CommonLength(CellOf(h, s, mode), DatumSize) ELSE 0]
    BY <2>4
  <2> HIDE DEF list, longer, of, entry
  <2>6. ListedAs(list, h, mode)
    BY <1>1, <2>3, <2>5 DEF ListedAs
  <2> QED
    BY <1>5, <2>6 DEF list
<1> QED
  BY <1>4, <1>5

\* A set of values has more than one iff two of them differ.
LEMMA CellSize ==
  ASSUME NEW vs \in SUBSET Values
  PROVE  /\ Cardinality(vs) > 1 => \E v, w \in vs : v # w
         /\ \A v \in vs : ~(Cardinality(vs) > 1) => vs = {v}
<1>1. IsFiniteSet(vs)
  <2>1. 0 \in Int /\ MaxValue - 1 \in Int
    BY Width
  <2>2. IsFiniteSet(Values)
    BY <2>1, FS_Interval DEF Values
  <2> QED
    BY <2>2, FS_Subset
<1>2. Cardinality(vs) \in Nat
  BY <1>1, FS_CardinalityType
<1>3. Cardinality(vs) > 1 => \E v, w \in vs : v # w
  <2> SUFFICES ASSUME Cardinality(vs) > 1, \A v, w \in vs : v = w PROVE FALSE
    OBVIOUS
  <2>1. CASE vs = {}
    BY <2>1, FS_EmptySet
  <2>2. CASE vs # {}
    <3>1. PICK v \in vs : vs = {v}
      BY <2>2
    <3>2. Cardinality(vs) = 1
      BY <3>1, FS_Singleton
    <3> QED
      BY <3>2
  <2> QED
    BY <2>1, <2>2
<1>4. ASSUME NEW v \in vs, ~(Cardinality(vs) > 1) PROVE vs = {v}
  <2> SUFFICES ASSUME NEW w \in vs, w # v PROVE FALSE
    OBVIOUS
  <2>1. /\ IsFiniteSet(vs \ {v}) /\ Cardinality(vs \ {v}) = Cardinality(vs) - 1
    BY <1>1, FS_RemoveElement
  <2>2. /\ IsFiniteSet((vs \ {v}) \ {w}) /\ Cardinality((vs \ {v}) \ {w}) = Cardinality(vs \ {v}) - 1
    BY <2>1, FS_RemoveElement
  <2>3. Cardinality((vs \ {v}) \ {w}) \in Nat
    BY <2>2, FS_CardinalityType
  <2> QED
    BY <1>2, <1>4, <2>1, <2>2, <2>3
<1> QED
  BY <1>3, <1>4

\* "assert(commonLength != 0)" holds for every head byte.
LEMMA LimitsFound ==
  ASSUME NEW h, Usable(DatumSize, mode), garbage \in Garbage
  PROVE  \A s \in DOMAIN ValueList(ValuesOf(h, mode)) :
           Cardinality(ValueList(ValuesOf(h, mode))[s].values) > 1
             => ValueList(ValuesOf(h, mode))[s].commonLength # 0
<1> DEFINE list == ValueList(ValuesOf(h, mode))
<1> SUFFICES ASSUME NEW s \in DOMAIN list, Cardinality(list[s].values) > 1
             PROVE  list[s].commonLength # 0
  OBVIOUS
<1>1. ~OneByte(h, mode) /\ ListedAs(list, h, mode)
  BY Listed
<1> HIDE DEF list
<1> DEFINE cell == CellOf(h, s, mode)
<1>2. list[s] = [values |-> cell, commonLength |-> IF Cardinality(cell) > 1 THEN CommonLength(cell, DatumSize) ELSE 0]
  BY <1>1 DEF ListedAs
<1>3. Cardinality(cell) > 1 /\ list[s].commonLength = CommonLength(cell, DatumSize)
  BY <1>2
<1>4. cell \in SUBSET Values
  BY DEF CellOf, ValuesOf
<1>5. PICK v, w \in cell : v # w
  BY <1>3, <1>4, CellSize
<1>6. Shared(h, s, mode)
  BY <1>1, <1>5, CellShares
<1> QED
  BY <1>3, <1>6 DEF Shared

\* The State of a Result is that of its cell, whichever value of the cell it is of.
LEMMA StateOfCell ==
  ASSUME NEW v \in ValuesOf(head, mode), Usable(DatumSize, mode), garbage \in Garbage,
         ~OneByte(head, mode), valueList = ValueList(ValuesOf(head, mode))
  PROVE  StateFor(ResultOf(v)) = {EntryAt(head, Code(v, mode)[2], mode)}
<1> DEFINE r == ResultOf(v)
           s == Code(v, mode)[2]
           cell == CellOf(head, s, mode)
           entry == Get(valueList, r.encode[2], [values |-> {}, commonLength |-> 0])
<1>1. v \in Values /\ Len(Code(v, mode)) # 1
  BY DEF ValuesOf, OneByte
<1>2. /\ r.value = v /\ r.encode[2] = s /\ Starts(r.encode, v, DatumSize, mode)
  BY <1>1, ResultFacts
<1>3. ListedAs(valueList, head, mode)
  BY Listed
<1>4. s \in {Code(w, mode)[2] : w \in ValuesOf(head, mode)} /\ v \in cell /\ cell \in SUBSET Values
  BY DEF CellOf, ValuesOf
<1>5. entry = [values |-> cell, commonLength |-> IF Cardinality(cell) > 1 THEN CommonLength(cell, DatumSize) ELSE 0]
  BY <1>2, <1>3, <1>4 DEF ListedAs, Get
<1>6. StateFor(r) =
        IF Cardinality(entry.values) > 1
          THEN {[end |-> FALSE, prebuildState |-> p] :
                  p \in AthDecoding_prebuild(r.encode, DatumSize, 2, entry.commonLength, mode)}
          ELSE {[end |-> TRUE, value |-> r.value,
                 length |-> AthDecoding(r.encode, DatumSize, mode).usedLength]}
  BY DEF StateFor
<1> HIDE DEF entry, r
<1>7. CASE Cardinality(cell) > 1
  <2>1. PICK x, y \in cell : x # y
    BY <1>4, <1>7, CellSize
  <2>2. PICK w \in cell : v # w
    BY <2>1
  <2>3. StateFor(r) = {[end |-> FALSE, prebuildState |-> p] :
                         p \in AthDecoding_prebuild(r.encode, DatumSize, 2, CommonLength(cell, DatumSize), mode)}
    BY <1>5, <1>6, <1>7
  <2>4. {[end |-> FALSE, prebuildState |-> p] :
            p \in AthDecoding_prebuild(r.encode, DatumSize, 2, CommonLength(cell, DatumSize), mode)}
           = {EntryAt(head, s, mode)}
    BY <1>2, <1>4, <2>2, CellOfMany
  <2> QED
    BY <2>3, <2>4 DEF r
<1>8. CASE ~(Cardinality(cell) > 1)
  <2>1. cell = {v}
    BY <1>4, <1>8, CellSize
  <2>2. StateFor(r) = {[end |-> TRUE, value |-> v,
                        length |-> AthDecoding(r.encode, DatumSize, mode).usedLength]}
    BY <1>2, <1>5, <1>6, <1>8
  <2>3. AthDecoding(r.encode, DatumSize, mode) = [value |-> v, usedLength |-> Len(Code(v, mode))]
    <3> DEFINE B == r.encode
    <3>1. v \in Nat /\ FitsIn(v, DatumSize) /\ Ends(v, DatumSize, mode)
      BY <1>1, ValueFacts DEF Sound1
    <3>2. B \in Seq(Byte) /\ Begins(B, AthEncoding(v, DatumSize, mode))
            /\ Len(B) >= Len(AthEncoding(v, DatumSize, mode)) + 3
      BY <1>2 DEF Starts
    <3>3. DatumSize \in 1..64
      BY Width
    <3> HIDE DEF B
    <3>4. AthDecoding(B, DatumSize, mode) = [value |-> v, usedLength |-> Len(AthEncoding(v, DatumSize, mode))]
      BY ONLY <3>1, <3>2, <3>3, CallsRoundTrip
    <3> QED
      BY <3>4 DEF B, Code
  <2>4. EntryAt(head, s, mode) = [end |-> TRUE, value |-> v, length |-> Len(Code(v, mode))]
    BY <2>1, CellOfOne
  <2> QED
    BY <2>2, <2>3, <2>4 DEF r
<1> QED
  BY <1>7, <1>8
----------------------------------------------------------------------------
(* What the values that have been put into a head node make of it *)

Seconds(vs, m)  == {Code(v, m)[2] : v \in vs}
Cells(h, vs, m) == [s \in Seconds(vs, m) |-> EntryAt(h, s, m)]

NodeWith(h, vs, m) ==
  IF \E v \in vs : Len(Code(v, m)) = 1
    THEN [NewNode EXCEPT !.end = TRUE, !.value = CHOOSE v \in vs : TRUE]
    ELSE [NewNode EXCEPT !.table = Cells(h, vs, m)]

NodeRec(end, value, table) == [end |-> end, value |-> value, table |-> table]
Updates(a, y, g, e, x, f) ==
  /\ [NodeRec(a, y, g) EXCEPT !.end = e, !.value = x] = NodeRec(e, x, g)
  /\ [NodeRec(a, y, g) EXCEPT !.end = e, !.table = f] = NodeRec(e, y, f)
  /\ [NodeRec(a, y, g) EXCEPT !.table = f] = NodeRec(a, y, f)
  /\ NodeRec(a, y, g).end = a /\ NodeRec(a, y, g).value = y /\ NodeRec(a, y, g).table = g

LEMMA NodeRecUpdates ==
  ASSUME NEW a, NEW y, NEW g, NEW e, NEW x, NEW f
  PROVE  Updates(a, y, g, e, x, f)
<1>1. [NodeRec(a, y, g) EXCEPT !.end = e] = NodeRec(e, y, g)
  BY DEF NodeRec
<1>2. [NodeRec(e, y, g) EXCEPT !.value = x] = NodeRec(e, x, g)
  BY DEF NodeRec
<1>3. [NodeRec(e, y, g) EXCEPT !.table = f] = NodeRec(e, y, f)
  BY DEF NodeRec
<1>4. [NodeRec(a, y, g) EXCEPT !.table = f] = NodeRec(a, y, f)
  BY DEF NodeRec
<1>5. NodeRec(a, y, g).end = a /\ NodeRec(a, y, g).value = y /\ NodeRec(a, y, g).table = g
  BY DEF NodeRec
<1>6. [NodeRec(a, y, g) EXCEPT !.end = e, !.value = x] = NodeRec(e, x, g)
  BY <1>1, <1>2, Zenon
<1>7. [NodeRec(a, y, g) EXCEPT !.end = e, !.table = f] = NodeRec(e, y, f)
  BY <1>1, <1>3, Zenon
<1> QED
  BY <1>4, <1>5, <1>6, <1>7 DEF Updates

\* The node of a value whose codeword is one byte.
LEMMA NodeOfByte ==
  ASSUME NEW m, NEW h, NEW v, Len(Code(v, m)) = 1
  PROVE  NodeWith(h, {v}, m) = NodeRec(TRUE, v, Empty)
<1>1. (CHOOSE w \in {v} : TRUE) = v
  OBVIOUS
<1>2. NodeWith(h, {v}, m) = [NewNode EXCEPT !.end = TRUE, !.value = v]
  BY <1>1 DEF NodeWith
<1>3. NewNode = NodeRec(FALSE, 0, Empty)
  BY DEF NewNode, NodeRec
<1>4. Updates(FALSE, 0, Empty, TRUE, v, Empty)
  BY NodeRecUpdates
<1> QED
  BY <1>2, <1>3, <1>4, Zenon DEF Updates

\* The node of values whose codewords are longer.
LEMMA NodeOfCells ==
  ASSUME NEW m, NEW h, NEW vs, \A v \in vs : Len(Code(v, m)) # 1
  PROVE  NodeWith(h, vs, m) = NodeRec(FALSE, 0, Cells(h, vs, m))
<1>1. NodeWith(h, vs, m) = [NewNode EXCEPT !.table = Cells(h, vs, m)]
  BY DEF NodeWith
<1>2. NewNode = NodeRec(FALSE, 0, Empty)
  BY DEF NewNode, NodeRec
<1>3. Updates(FALSE, 0, Empty, TRUE, 0, Cells(h, vs, m))
  BY NodeRecUpdates
<1> QED
  BY <1>1, <1>2, <1>3, Zenon DEF Updates

\* A node that nothing has been put into is the node that operator[] makes.
LEMMA NodeAtFirst ==
  ASSUME NEW m, NEW h
  PROVE  NodeWith(h, {}, m) = NewNode
<1>1. NodeWith(h, {}, m) = NodeRec(FALSE, 0, Cells(h, {}, m))
  BY NodeOfCells
<1>2. Seconds({}, m) = {}
  BY DEF Seconds
<1>3. Cells(h, {}, m) = Empty
  BY <1>2 DEF Empty, Cells
<1> QED
  BY <1>1, <1>3 DEF NewNode, NodeRec

\* A value whose codeword is longer than a byte shares that byte only with such values.
LEMMA NoneWithByte ==
  ASSUME NEW m, Usable(DatumSize, m), NEW h, NEW v \in ValuesOf(h, m), Len(Code(v, m)) # 1
  PROVE  \A w \in ValuesOf(h, m) : Len(Code(w, m)) # 1
<1> SUFFICES ASSUME NEW w \in ValuesOf(h, m), Len(Code(w, m)) = 1 PROVE FALSE
  OBVIOUS
<1>1. v = w
  BY AloneWithByte
<1> QED
  BY <1>1

\* A value that is put into the node of its head byte.
Grown(h, vs, v, m) ==
  /\ Len(Code(v, m)) = 1 =>
       [NodeWith(h, vs, m) EXCEPT !.end = TRUE, !.value = v] = NodeWith(h, vs \cup {v}, m)
  /\ Len(Code(v, m)) # 1 =>
       [NodeWith(h, vs, m) EXCEPT !.end = FALSE,
                                  !.table = Put(@, Code(v, m)[2], EntryAt(h, Code(v, m)[2], m))]
       = NodeWith(h, vs \cup {v}, m)

LEMMA NodeGrows ==
  ASSUME NEW m, Usable(DatumSize, m), NEW h, NEW v \in ValuesOf(h, m), NEW vs \in SUBSET ValuesOf(h, m)
  PROVE  Grown(h, vs, v, m)
<1> DEFINE all == vs \cup {v}
           node == NodeWith(h, vs, m)
<1>1. CASE Len(Code(v, m)) = 1
  <2>1. \A w \in ValuesOf(h, m) : w = v
    BY <1>1, AloneWithByte
  <2>2. all = {v} /\ (vs = {} \/ vs = {v})
    BY <2>1
  <2>3. NodeWith(h, {v}, m) = NodeRec(TRUE, v, Empty)
    BY <1>1, NodeOfByte
  <2>4. NodeWith(h, {}, m) = NodeRec(FALSE, 0, Empty)
    BY NodeAtFirst DEF NewNode, NodeRec
  <2>5. node = NodeRec(FALSE, 0, Empty) \/ node = NodeRec(TRUE, v, Empty)
    BY <2>2, <2>3, <2>4
  <2> HIDE DEF node, all
  <2>6. [node EXCEPT !.end = TRUE, !.value = v] = NodeRec(TRUE, v, Empty)
    <3>1. Updates(FALSE, 0, Empty, TRUE, v, Empty) /\ Updates(TRUE, v, Empty, TRUE, v, Empty)
      BY NodeRecUpdates
    <3> QED
      BY <2>5, <3>1, Zenon DEF Updates
  <2> QED
    BY <1>1, <2>2, <2>3, <2>6 DEF node, all, Grown
<1>2. CASE Len(Code(v, m)) # 1
  <2>1. \A w \in ValuesOf(h, m) : Len(Code(w, m)) # 1
    BY <1>2, NoneWithByte
  <2> DEFINE s == Code(v, m)[2]
             entry == EntryAt(h, s, m)
             f == Cells(h, vs, m)
             g == Cells(h, all, m)
             grown == Put(f, s, entry)
  <2>2. node = NodeRec(FALSE, 0, f)
    <3>1. \A w \in vs : Len(Code(w, m)) # 1
      BY <2>1
    <3> QED
      BY <3>1, NodeOfCells
  <2>3. NodeWith(h, all, m) = NodeRec(FALSE, 0, g)
    <3>1. \A w \in all : Len(Code(w, m)) # 1
      BY <2>1
    <3> HIDE DEF all
    <3> QED
      BY <3>1, NodeOfCells
  <2>4. grown = g
    <3>1. Seconds(all, m) = Seconds(vs, m) \cup {s}
      BY DEF Seconds
    <3> HIDE DEF s, all
    <3>2. grown = [t \in DOMAIN f \cup {s} |-> IF t = s THEN entry ELSE f[t]]
      BY DEF Put
    <3>3. DOMAIN f = Seconds(vs, m) /\ \A t \in DOMAIN f : f[t] = EntryAt(h, t, m)
      BY DEF Cells
    <3>4. g = [t \in Seconds(all, m) |-> EntryAt(h, t, m)]
      BY DEF Cells
    <3> HIDE DEF f, g, grown
    <3> QED
      BY <3>1, <3>2, <3>3, <3>4
  <2>5. node.table = f
    <3>1. Updates(FALSE, 0, f, FALSE, 0, f)
      BY NodeRecUpdates
    <3> HIDE DEF node, f
    <3> QED
      BY <2>2, <3>1, Zenon DEF Updates
  <2> HIDE DEF f, g, node, s, all, entry
  <2>6. Put(node.table, s, entry) = grown
    BY <2>5
  <2> HIDE DEF grown
  <2>7. [node EXCEPT !.end = FALSE, !.table = grown] = NodeRec(FALSE, 0, grown)
    <3>1. Updates(FALSE, 0, f, FALSE, 0, grown)
      BY NodeRecUpdates
    <3> QED
      BY <2>2, <3>1, Zenon DEF Updates
  <2>8. [node EXCEPT !.end = FALSE, !.table = Put(@, s, entry)] = NodeWith(h, all, m)
    BY <2>3, <2>4, <2>6, <2>7
  <2> QED
    BY <1>2, <2>8 DEF node, s, all, entry, Grown
<1> QED
  BY <1>1, <1>2

\* The node of all values of a head byte is the one of the table, which has no others.
LEMMA NodeOfAll ==
  ASSUME NEW m, Usable(DatumSize, m), NEW h
  PROVE  NodeOf(WithByte(Results(DatumSize, m), 1, h), DatumSize, m) = NodeWith(h, ValuesOf(h, m), m)
<1> DEFINE values == ValuesOf(h, m)
           results == Coded(values, m)
<1>1. WithByte(Results(DatumSize, m), 1, h) = results
  BY CellsCoded
<1>2. /\ \A v \in values : \E r \in results : r.value = v /\ r.code = Code(v, m)
      /\ \A r \in results : r.value \in values /\ r.code = Code(r.value, m)
  BY CodedMembers
<1>3. (\E r \in results : Len(r.code) = 1) <=> OneByte(h, m)
  <2> HIDE DEF results
  <2> QED
    BY <1>2 DEF OneByte
<1>4. CASE OneByte(h, m)
  <2>1. PICK v \in values : Len(Code(v, m)) = 1
    BY <1>4 DEF OneByte
  <2>2. values = {v}
    BY <2>1, AloneWithByte
  <2> HIDE DEF results
  <2>3. (CHOOSE r \in results : TRUE) \in results
    BY <1>2, <2>1
  <2>4. (CHOOSE r \in results : TRUE).value = v
    BY <1>2, <2>2, <2>3
  <2>5. (CHOOSE w \in values : TRUE) = v
    BY <2>2
  <2> HIDE DEF values
  <2> QED
    BY <1>1, <1>3, <1>4, <2>1, <2>4, <2>5 DEF NodeOf, NodeWith, OneByte, values
<1>5. CASE ~OneByte(h, m)
  <2>1. {r.code[2] : r \in results} = Seconds(values, m)
    <3> HIDE DEF results, values
    <3> QED
      BY <1>2 DEF Seconds
  <2>2. \A s : EntryOf(WithByte(results, 2, s), DatumSize, m) = EntryAt(h, s, m)
    BY CellsCoded DEF EntryAt
  <2>3. ~\E v \in values : Len(Code(v, m)) = 1
    BY <1>5 DEF OneByte
  <2> HIDE DEF results, values
  <2>4. NodeOf(results, DatumSize, m) =
          [NewNode EXCEPT !.table = [s \in {r.code[2] : r \in results} |-> EntryOf(WithByte(results, 2, s), DatumSize, m)]]
    BY <1>3, <1>5 DEF NodeOf
  <2>5. NodeWith(h, values, m) = [NewNode EXCEPT !.table = [s \in Seconds(values, m) |-> EntryAt(h, s, m)]]
    BY <2>3 DEF NodeWith, Cells
  <2>6. NodeOf(results, DatumSize, m) = NodeWith(h, values, m)
    BY <2>1, <2>2, <2>4, <2>5
  <2> QED
    BY <1>1, <2>6 DEF values
<1> QED
  BY <1>4, <1>5

LEMMA WholeTableIs ==
  ASSUME NEW m, Usable(DatumSize, m)
  PROVE  TableOf(DatumSize, m) = [h \in {Code(v, m)[1] : v \in Values} |-> NodeWith(h, ValuesOf(h, m), m)]
<1> DEFINE results == Results(DatumSize, m)
<1>1. {r.code[1] : r \in results} = {Code(v, m)[1] : v \in Values}
  <2>1. results = Coded(Values, m)
    BY Width DEF Results, Code, Coded
  <2>2. /\ \A v \in Values : \E r \in results : r.value = v /\ r.code = Code(v, m)
        /\ \A r \in results : r.value \in Values /\ r.code = Code(r.value, m)
    BY <2>1, CodedMembers
  <2> HIDE DEF results
  <2> QED
    BY <2>2
<1>2. \A h : NodeOf(WithByte(results, 1, h), DatumSize, m) = NodeWith(h, ValuesOf(h, m), m)
  BY NodeOfAll
<1>3. TableOf(DatumSize, m) = [h \in {r.code[1] : r \in results} |-> NodeOf(WithByte(results, 1, h), DatumSize, m)]
  BY DEF TableOf
<1> HIDE DEF results
<1> QED
  BY <1>1, <1>2, <1>3

LEMMA FiniteImage ==
  ASSUME NEW S, IsFiniteSet(S), NEW f
  PROVE  IsFiniteSet({f[x] : x \in S})
<1> DEFINE T == {f[x] : x \in S}
           g == [x \in S |-> f[x]]
<1>1. g \in Surjection(S, T)
  BY DEF Surjection
<1> QED
  BY <1>1, FS_Surjection

\* The table of a width and mode is loaded as it was saved.
LEMMA TableReloads ==
  ASSUME NEW m, Usable(DatumSize, m)
  PROVE  LoadCheckTable(SaveCheckTable(TableOf(DatumSize, m))) = TableOf(DatumSize, m)
<1> DEFINE heads == {Code(v, m)[1] : v \in Values}
           seconds == {Code(v, m)[2] : v \in Values}
           F == Nat \cup BOOLEAN \cup seconds \cup UNION {{EntryAt(h, s, m) : s \in seconds} : h \in heads}
           t == [h \in heads |-> NodeWith(h, ValuesOf(h, m), m)]
<1>1. TableOf(DatumSize, m) = t
  BY WholeTableIs
<1>2. IsFiniteSet(Values)
  <2>1. 0 \in Int /\ MaxValue - 1 \in Int
    BY Width
  <2> QED
    BY <2>1, FS_Interval DEF Values
<1>3. IsFiniteSet(heads)
  <2> DEFINE f == [v \in Values |-> Code(v, m)[1]]
  <2>1. IsFiniteSet({f[v] : v \in Values})
    <3> HIDE DEF f
    <3> QED
      BY <1>2, FiniteImage
  <2>2. \A v \in Values : f[v] = Code(v, m)[1]
    OBVIOUS
  <2> HIDE DEF f
  <2>3. {f[v] : v \in Values} = heads
    BY <2>2
  <2> QED
    BY <2>1, <2>3
<1>4. heads \subseteq Nat
  BY ValueFacts, Sizes DEF Sound1, Byte
<1>5. ASSUME NEW h \in heads
      PROVE  LET node == NodeWith(h, ValuesOf(h, m), m)
             IN  /\ node = [end |-> node.end, value |-> node.value, table |-> node.table]
                 /\ node.end \in F /\ node.value \in F
                 /\ IsFiniteSet(DOMAIN node.table) /\ DOMAIN node.table \subseteq F
                 /\ node.table = [s \in DOMAIN node.table |-> node.table[s]]
                 /\ \A s \in DOMAIN node.table : node.table[s] \in F
  <2> DEFINE values == ValuesOf(h, m)
             node == NodeWith(h, values, m)
  <2>1. \A v \in values : v \in Values
    BY DEF ValuesOf
  <2>2. CASE OneByte(h, m)
    <3>1. PICK v \in values : Len(Code(v, m)) = 1
      BY <2>2 DEF OneByte
    <3>2. values = {v}
      BY <3>1, AloneWithByte
    <3>3. node = NodeRec(TRUE, v, Empty)
      BY <3>1, <3>2, NodeOfByte
    <3>4. v \in Nat
      BY <2>1, ValueFacts DEF Sound1
    <3>5. v \in F /\ TRUE \in F
      BY <3>4
    <3>6. IsFiniteSet({}) /\ DOMAIN Empty = {} /\ Empty = [s \in DOMAIN Empty |-> Empty[s]]
      BY FS_EmptySet DEF Empty
    <3>7. node.end = TRUE /\ node.value = v /\ node.table = Empty /\ node = [end |-> TRUE, value |-> v, table |-> Empty]
      BY <3>3 DEF NodeRec
    <3> HIDE DEF F, values, node
    <3>8. node = [end |-> node.end, value |-> node.value, table |-> node.table]
      BY <3>7
    <3> QED
      BY <3>5, <3>6, <3>7, <3>8 DEF node, values
  <2>3. CASE ~OneByte(h, m)
    <3> DEFINE table == Cells(h, values, m)
    <3>1. node = NodeRec(FALSE, 0, table)
      <4>1. \A v \in values : Len(Code(v, m)) # 1
        BY <2>3 DEF OneByte
      <4> QED
        BY <4>1, NodeOfCells
    <3>2. node.end = FALSE /\ node.value = 0 /\ node.table = table /\ node = [end |-> FALSE, value |-> 0, table |-> table]
      BY <3>1 DEF NodeRec
    <3>3. DOMAIN table = Seconds(values, m) /\ table = [s \in Seconds(values, m) |-> EntryAt(h, s, m)]
      BY DEF Cells
    <3>4. Seconds(values, m) \subseteq seconds
      BY <2>1 DEF Seconds
    <3>5. IsFiniteSet(values)
      <4>1. values \in SUBSET Values
        BY <2>1
      <4> QED
        BY <1>2, <4>1, FS_Subset
    <3>6. IsFiniteSet(Seconds(values, m))
      <4> DEFINE f == [v \in values |-> Code(v, m)[2]]
      <4>1. IsFiniteSet({f[v] : v \in values})
        <5> HIDE DEF f, values
        <5> QED
          BY <3>5, FiniteImage
      <4>2. \A v \in values : f[v] = Code(v, m)[2]
        OBVIOUS
      <4> HIDE DEF f, values
      <4>3. {f[v] : v \in values} = Seconds(values, m)
        BY <4>2 DEF Seconds
      <4> QED
        BY <4>1, <4>3
    <3>7. FALSE \in F /\ 0 \in F /\ seconds \subseteq F
      OBVIOUS
    <3>8. \A s \in seconds : EntryAt(h, s, m) \in F
      OBVIOUS
    <3> HIDE DEF F, values, node, table, seconds
    <3>9. \A s \in DOMAIN table : table[s] \in F
      BY <3>3, <3>4, <3>8
    <3>10. table = [s \in DOMAIN table |-> table[s]]
      BY <3>3
    <3>11. DOMAIN table \subseteq F /\ IsFiniteSet(DOMAIN table)
      BY <3>3, <3>4, <3>6, <3>7
    <3>12. node = [end |-> node.end, value |-> node.value, table |-> node.table]
      BY <3>2
    <3>13. node.end \in F /\ node.value \in F
      BY <3>2, <3>7
    <3> QED
      BY <3>2, <3>9, <3>10, <3>11, <3>12, <3>13 DEF node, values
  <2> QED
    BY <2>2, <2>3
<1>6. TableOver(t, F)
  <2>1. Nat \subseteq F /\ DOMAIN t = heads
    OBVIOUS
  <2>2. \A h \in heads : t[h] = NodeWith(h, ValuesOf(h, m), m)
    OBVIOUS
  <2>3. t = [h \in DOMAIN t |-> t[h]]
    OBVIOUS
  <2> HIDE DEF F, t, heads
  <2>4. heads \subseteq F
    BY <1>4, <2>1
  <2> QED
    BY <1>3, <1>5, <2>1, <2>2, <2>3, <2>4 DEF TableOver
<1>7. LoadCheckTable(SaveCheckTable(t)) = t
  <2> HIDE DEF F, t
  <2> QED
    BY <1>6, LoadInvertsSave
<1> QED
  BY <1>1, <1>7
----------------------------------------------------------------------------
(* The invariant *)

\* The values below n of a head byte, and the values below n filed by their head bytes.
Below(n, h, m) == {v \in 0..(n - 1) : Code(v, m)[1] = h}
FiledIn(results, n, m) ==
  /\ DOMAIN results = {Code(v, m)[1] : v \in 0..(n - 1)}
  /\ \A h \in DOMAIN results : results[h] \in Seq(Values) /\ ToSet(results[h]) = Below(n, h, m)

\* The list of the values of a cell, as a function of what it is computed from.
ListFrom(values, m, behind) ==
  LET resultOf(v) == [value |-> v, length |-> Len(AthEncoding(v, DatumSize, m)),
                    encode |-> AthEncoding(v, DatumSize, m) \o behind]
      longer    == {r \in {resultOf(v) : v \in values} : r.length > 1}
      of(s)     == {r.value : r \in {q \in longer : q.encode[2] = s}}
      entry(vs) == [values |-> vs,
                    commonLength |-> IF Cardinality(vs) > 1 THEN CommonLength(vs, DatumSize) ELSE 0]
  IN  [s \in {r.encode[2] : r \in longer} |-> entry(of(s))]

LEMMA ListsAgree ==
  ASSUME NEW values
  PROVE  ValueList(values) = ListFrom(values, mode, garbage)
BY DEF ValueList, ListFrom, ResultOf

\* The values that have been put into the nodes of the head bytes iterated over so far.
Handled == [h \in built |-> IF phase = "build" /\ h = head THEN {tables[h][i] : i \in 1..(item - 1)}
                            ELSE ToSet(tables[h])]

\* The nodes that these make, and no others.
TableWith(handled, m) ==
  [h \in {g \in DOMAIN handled : handled[g] # {}} |-> NodeWith(h, handled[h], m)]

BuildInv ==
  /\ mode \in Modes /\ garbage \in Garbage
  /\ phase \in {"encode", "group", "build", "check", "done"}
  /\ phase \in {"encode", "check"} => testValue \in Values
  /\ phase = "encode" => FiledIn(tables, testValue, mode) /\ built = {}
  /\ phase # "encode" => FiledIn(tables, MaxValue, mode)
  /\ built \subseteq DOMAIN tables
  /\ phase = "build" => /\ head \in built /\ item \in 1..Len(tables[head])
                        /\ valueList = ListFrom(ValuesOf(head, mode), mode, garbage)
  /\ checkTable = TableWith(Handled, mode)
  /\ phase \in {"check", "done"} => checkTable2 = TableOf(DatumSize, mode)

\* What nothing in the code makes sure of, and the theorems suppose: see CheckTable.
AllUsable == \A m \in Modes : Usable(DatumSize, m)

\* When all values are filed, each head byte has the values of its codewords.
LEMMA AllFiled ==
  ASSUME NEW m, NEW results, FiledIn(results, MaxValue, m)
  PROVE  /\ DOMAIN results = {Code(v, m)[1] : v \in Values}
         /\ \A h \in DOMAIN results : /\ results[h] \in Seq(Values) /\ ToSet(results[h]) = ValuesOf(h, m)
                                      /\ ValuesOf(h, m) # {} /\ Len(results[h]) \in Nat \ {0}
<1>1. DOMAIN results = {Code(v, m)[1] : v \in Values}
  BY DEF FiledIn, Values
<1>2. ASSUME NEW h \in DOMAIN results
      PROVE  /\ results[h] \in Seq(Values) /\ ToSet(results[h]) = ValuesOf(h, m)
             /\ ValuesOf(h, m) # {} /\ Len(results[h]) \in Nat \ {0}
  <2> DEFINE w == results[h]
  <2>1. w \in Seq(Values) /\ ToSet(w) = ValuesOf(h, m)
    BY DEF FiledIn, Below, ValuesOf, Values
  <2>2. ValuesOf(h, m) # {}
    BY <1>1 DEF ValuesOf
  <2> HIDE DEF w
  <2>3. Len(w) \in Nat /\ DOMAIN w = 1..Len(w)
    BY <2>1
  <2>4. Len(w) # 0
    BY <2>1, <2>2, <2>3 DEF ToSet
  <2> QED
    BY <2>1, <2>2, <2>3, <2>4 DEF w
<1> QED
  BY <1>1, <1>2

\* One more value is filed under the first byte of its codeword.
LEMMA FiledGrows ==
  ASSUME NEW m, NEW n \in Values, NEW results, FiledIn(results, n, m)
  PROVE  FiledIn(Put(results, Code(n, m)[1], Append(Get(results, Code(n, m)[1], << >>), n)), n + 1, m)
<1> DEFINE first == Code(n, m)[1]
           old == Get(results, first, << >>)
           new == Put(results, first, Append(old, n))
<1>1. n \in Nat /\ 0..((n + 1) - 1) = 0..(n - 1) \cup {n} /\ n \notin 0..(n - 1)
  <2>1. n \in Nat
    BY Width DEF Values
  <2>2. \A k \in Nat : 0..((k + 1) - 1) = 0..(k - 1) \cup {k} /\ k \notin 0..(k - 1)
    OBVIOUS
  <2> QED
    BY <2>1, <2>2
<1>2. DOMAIN new = DOMAIN results \cup {first} /\ new[first] = Append(old, n)
      /\ \A h \in DOMAIN results \ {first} : new[h] = results[h]
  <2> HIDE DEF first, old
  <2> QED
    BY DEF Put
<1>3. DOMAIN new = {Code(v, m)[1] : v \in 0..((n + 1) - 1)}
  <2>1. DOMAIN results = {Code(v, m)[1] : v \in 0..(n - 1)}
    BY DEF FiledIn
  <2> HIDE DEF new
  <2> QED
    BY <1>1, <1>2, <2>1
<1>4. old \in Seq(Values) /\ ToSet(old) = Below(n, first, m)
  <2>1. CASE first \in DOMAIN results
    <3>1. old = results[first]
      BY <2>1 DEF Get
    <3> HIDE DEF first, old
    <3> QED
      BY <2>1, <3>1 DEF FiledIn
  <2>2. CASE first \notin DOMAIN results
    <3>1. old = << >>
      BY <2>2 DEF Get
    <3>2. Below(n, first, m) = {}
      BY <2>2 DEF FiledIn, Below
    <3> HIDE DEF old, first
    <3> QED
      BY <3>1, <3>2 DEF ToSet
  <2> QED
    BY <2>1, <2>2
<1>5. Append(old, n) \in Seq(Values) /\ ToSet(Append(old, n)) = Below(n, first, m) \cup {n}
  <2> HIDE DEF old, first
  <2>1. Append(old, n) \in Seq(Values)
    BY <1>4
  <2>2. /\ Len(Append(old, n)) = Len(old) + 1 /\ Append(old, n)[Len(old) + 1] = n
        /\ \A i \in 1..Len(old) : Append(old, n)[i] = old[i]
    BY <1>4
  <2> DEFINE w == Append(old, n)
             l == Len(old)
  <2>3. DOMAIN w = 1..(l + 1) /\ DOMAIN old = 1..l /\ l \in Nat
    BY <1>4, <2>1, <2>2
  <2>4. w[l + 1] = n /\ \A i \in 1..l : w[i] = old[i]
    BY <2>2
  <2> HIDE DEF w, l
  <2>5. 1..(l + 1) = 1..l \cup {l + 1}
    BY <2>3
  <2>6. ToSet(w) = ToSet(old) \cup {n}
    BY <2>3, <2>4, <2>5 DEF ToSet
  <2> QED
    BY <1>4, <2>1, <2>6 DEF w
<1>6. ASSUME NEW h PROVE Below(n + 1, h, m) = IF h = first THEN Below(n, h, m) \cup {n} ELSE Below(n, h, m)
  BY <1>1 DEF Below
<1>7. ASSUME NEW h \in DOMAIN new PROVE new[h] \in Seq(Values) /\ ToSet(new[h]) = Below(n + 1, h, m)
  <2> HIDE DEF new, first, old
  <2>1. CASE h = first
    <3>1. new[h] = Append(old, n)
      BY <1>2, <2>1
    <3>2. Below(n + 1, h, m) = Below(n, h, m) \cup {n}
      BY <1>6, <2>1
    <3> QED
      BY <1>5, <2>1, <3>1, <3>2
  <2>2. CASE h # first
    <3>1. h \in DOMAIN results /\ new[h] = results[h]
      BY <1>2, <2>2
    <3>2. Below(n + 1, h, m) = Below(n, h, m)
      BY <1>6, <2>2
    <3> QED
      BY <3>1, <3>2 DEF FiledIn
  <2> QED
    BY <2>1, <2>2
<1> HIDE DEF new
<1>8. FiledIn(new, n + 1, m)
  BY <1>3, <1>7 DEF FiledIn
<1> QED
  BY <1>8 DEF new

\* Another value in the node of a head byte: the other nodes stay as they are.
LEMMA TableGrows ==
  ASSUME NEW m, NEW handled, NEW grown, NEW h, NEW vs,
         grown = [g \in DOMAIN handled |-> IF g = h THEN vs ELSE handled[g]], h \in DOMAIN handled, vs # {}
  PROVE  TableWith(grown, m) = Put(TableWith(handled, m), h, NodeWith(h, vs, m))
<1> DEFINE keys == {g \in DOMAIN handled : handled[g] # {}}
           old == TableWith(handled, m)
<1>1. DOMAIN grown = DOMAIN handled /\ grown[h] = vs /\ \A g \in DOMAIN handled : g # h => grown[g] = handled[g]
  OBVIOUS
<1>2. {g \in DOMAIN grown : grown[g] # {}} = keys \cup {h}
  BY <1>1
<1>3. DOMAIN old = keys /\ \A g \in keys : old[g] = NodeWith(g, handled[g], m)
  BY DEF TableWith
<1>4. TableWith(grown, m) = [g \in keys \cup {h} |-> NodeWith(g, grown[g], m)]
  BY <1>2 DEF TableWith
<1>5. Put(old, h, NodeWith(h, vs, m)) = [g \in keys \cup {h} |-> IF g = h THEN NodeWith(h, vs, m) ELSE old[g]]
  BY <1>3 DEF Put
<1>6. \A g \in keys \cup {h} : NodeWith(g, grown[g], m) = IF g = h THEN NodeWith(h, vs, m) ELSE old[g]
  BY <1>1, <1>3
<1> HIDE DEF old, keys
<1>7. TableWith(grown, m) = Put(old, h, NodeWith(h, vs, m))
  BY <1>4, <1>5, <1>6
<1> QED
  BY <1>7 DEF old

\* The node of a head byte, whether the table has it already or operator[] makes it.
LEMMA NodeSoFar ==
  ASSUME NEW m, NEW handled, NEW h \in DOMAIN handled
  PROVE  Get(TableWith(handled, m), h, NewNode) = NodeWith(h, handled[h], m)
<1> DEFINE t == TableWith(handled, m)
<1>1. DOMAIN t = {g \in DOMAIN handled : handled[g] # {}} /\ \A g \in DOMAIN t : t[g] = NodeWith(g, handled[g], m)
  BY DEF TableWith
<1>2. NodeWith(h, {}, m) = NewNode
  BY NodeAtFirst
<1> HIDE DEF t
<1>3. Get(t, h, NewNode) = NodeWith(h, handled[h], m)
  BY <1>1, <1>2 DEF Get
<1> QED
  BY <1>3 DEF t
----------------------------------------------------------------------------
(* The steps *)

LEMMA MainStarts ==
  ASSUME AllUsable, MainInit
  PROVE  BuildInv
<1>1. mode \in Modes /\ garbage \in Garbage /\ phase = "encode" /\ testValue = 0 /\ tables = Empty
      /\ built = {} /\ checkTable = Empty
  BY DEF MainInit
<1>2. 0 \in Values
  <2>1. \A k \in Nat \ {0} : 0 \in 0..(k - 1)
    OBVIOUS
  <2> QED
    BY <2>1, Width DEF Values
<1>3. FiledIn(Empty, 0, mode)
  <2>1. 0..(0 - 1) = {} /\ DOMAIN Empty = {}
    BY DEF Empty
  <2> QED
    BY <2>1 DEF FiledIn
<1>4. checkTable = TableWith(Handled, mode)
  <2>1. DOMAIN Handled = {}
    BY <1>1 DEF Handled
  <2>2. {g \in DOMAIN Handled : Handled[g] # {}} = {}
    BY <2>1
  <2>3. TableWith(Handled, mode) = [h \in {} |-> NodeWith(h, Handled[h], mode)]
    BY <2>2 DEF TableWith
  <2>4. [h \in {} |-> NodeWith(h, Handled[h], mode)] = Empty
    BY DEF Empty
  <2> QED
    BY <1>1, <2>3, <2>4
<1> QED
  BY <1>1, <1>2, <1>3, <1>4 DEF BuildInv

LEMMA EncodeKeeps ==
  ASSUME AllUsable, BuildInv, EncodeValue
  PROVE  BuildInv'
<1>1. /\ phase = "encode" /\ testValue' = testValue + 1
      /\ phase' = IF testValue' = MaxValue THEN "group" ELSE "encode"
      /\ mode' = mode /\ garbage' = garbage /\ built' = built /\ head' = head /\ valueList' = valueList
      /\ item' = item /\ checkTable' = checkTable /\ checkTable2' = checkTable2
  BY DEF EncodeValue
<1>2. /\ mode \in Modes /\ garbage \in Garbage /\ testValue \in Values
      /\ FiledIn(tables, testValue, mode) /\ built = {} /\ checkTable = TableWith(Handled, mode)
  BY <1>1 DEF BuildInv
<1>3. Usable(DatumSize, mode)
  BY <1>2 DEF AllUsable
<1>4. Buffer(testValue)[1] = Code(testValue, mode)[1]
  BY <1>2, <1>3, BufferStarts
<1>5. tables' = Put(tables, Code(testValue, mode)[1],
                    Append(Get(tables, Code(testValue, mode)[1], << >>), testValue))
  BY <1>4 DEF EncodeValue
<1>6. FiledIn(tables', testValue', mode')
  BY <1>1, <1>2, <1>5, FiledGrows
<1>7. testValue' # MaxValue => testValue' \in Values
  <2>1. \A k \in Nat \ {0} : \A n \in 0..(k - 1) : n + 1 # k => n + 1 \in 0..(k - 1)
    OBVIOUS
  <2> QED
    BY <1>1, <1>2, <2>1, Width DEF Values
<1>8. Handled' = Handled
  <2>1. Handled = [h \in {} |-> Handled[h]] /\ Handled' = [h \in {} |-> Handled'[h]]
    BY <1>1, <1>2 DEF Handled
  <2> QED
    BY <2>1
<1>9. checkTable' = TableWith(Handled', mode')
  BY <1>1, <1>2, <1>8
<1>10. phase' = "encode" \/ (phase' = "group" /\ testValue' = MaxValue)
  BY <1>1
<1>11. phase' = "encode" => testValue' # MaxValue
  BY <1>1
<1>12. built' = {}
  BY <1>1, <1>2
<1> QED
  BY <1>1, <1>2, <1>6, <1>7, <1>9, <1>10, <1>11, <1>12 DEF BuildInv

LEMMA GroupKeeps ==
  ASSUME AllUsable, BuildInv, Group
  PROVE  BuildInv'
<1>1. /\ phase = "group" /\ DOMAIN tables # built /\ head' = Min(DOMAIN tables \ built)
      /\ built' = built \cup {head'} /\ valueList' = ValueList(ToSet(tables[head'])) /\ item' = 1
      /\ mode' = mode /\ garbage' = garbage /\ testValue' = testValue /\ tables' = tables
      /\ checkTable' = checkTable /\ checkTable2' = checkTable2
  BY DEF Group
<1>2. /\ mode \in Modes /\ garbage \in Garbage /\ built \subseteq DOMAIN tables
      /\ FiledIn(tables, MaxValue, mode) /\ checkTable = TableWith(Handled, mode)
  BY <1>1 DEF BuildInv
<1>3. Usable(DatumSize, mode)
  BY <1>2 DEF AllUsable
<1>4. head' \in DOMAIN tables /\ head' \notin built
  <2> DEFINE T == DOMAIN tables \ built
  <2>1. T \in SUBSET Nat
    <3>1. \A v \in Values : Code(v, mode)[1] \in Nat
      BY <1>3, ValueFacts, Sizes DEF Sound1, Byte
    <3>2. DOMAIN tables = {Code(v, mode)[1] : v \in Values}
      BY <1>2, AllFiled
    <3> QED
      BY <3>1, <3>2
  <2>2. T # {}
    BY <1>1, <1>2
  <2> HIDE DEF T
  <2>3. \E x \in T : \A y \in T : x <= y
    BY <2>1, <2>2, LeastElement
  <2>4. Min(T) \in T
    BY <2>3 DEF Min
  <2>5. head' \in T
    BY <1>1, <2>4 DEF T
  <2> QED
    BY <2>5 DEF T
<1>5. ToSet(tables[head']) = ValuesOf(head', mode) /\ Len(tables[head']) \in Nat \ {0}
  BY <1>2, <1>4, AllFiled
<1>6. valueList' = ValueList(ValuesOf(head', mode))
  BY <1>1, <1>5
<1>7. phase' = "build"
  <2>1. \A s \in DOMAIN ValueList(ValuesOf(head', mode)) :
          Cardinality(ValueList(ValuesOf(head', mode))[s].values) > 1
            => ValueList(ValuesOf(head', mode))[s].commonLength # 0
    BY <1>2, <1>3, LimitsFound
  <2>2. ~ \E s \in DOMAIN valueList' : /\ Cardinality(valueList'[s].values) > 1
                                       /\ valueList'[s].commonLength = 0
    BY <1>6, <2>1
  <2> QED
    BY <2>2 DEF Group
<1>8. valueList' = ListFrom(ValuesOf(head', mode'), mode', garbage')
  BY <1>1, <1>6, ListsAgree
<1>9. item' \in 1..Len(tables'[head'])
  <2>1. \A l \in Nat \ {0} : 1 \in 1..l
    OBVIOUS
  <2> QED
    BY <1>1, <1>5, <2>1
<1>10. TableWith(Handled', mode') = TableWith(Handled, mode)
  <2>1. DOMAIN Handled = built /\ DOMAIN Handled' = built \cup {head'}
    BY <1>1 DEF Handled
  <2>2. \A h \in built : Handled'[h] = Handled[h]
    BY <1>1, <1>4 DEF Handled
  <2>3. Handled'[head'] = {}
    <3>1. 1..(1 - 1) = {}
      OBVIOUS
    <3>2. head' \in built'
      BY <1>1
    <3>3. Handled'[head'] = {tables'[head'][i] : i \in 1..(item' - 1)}
      BY <1>7, <3>2 DEF Handled
    <3> QED
      BY <1>1, <3>1, <3>3
  <2>4. {g \in DOMAIN Handled' : Handled'[g] # {}} = {g \in DOMAIN Handled : Handled[g] # {}}
    BY <2>1, <2>2, <2>3
  <2> QED
    BY <1>1, <2>1, <2>2, <2>4 DEF TableWith
<1>11. built' \subseteq DOMAIN tables' /\ head' \in built'
  BY <1>1, <1>2, <1>4
<1> QED
  BY <1>1, <1>2, <1>7, <1>8, <1>9, <1>10, <1>11 DEF BuildInv

\* The step of one Result: it is put into the node of its head byte.
Placed(h, vs, v, m) ==
  /\ h \in built /\ vs \in SUBSET ValuesOf(h, m) /\ v \in ValuesOf(h, m)
  /\ Handled[h] = vs
  /\ Handled' = [g \in DOMAIN Handled |-> IF g = h THEN vs \cup {v} ELSE Handled[g]]
  /\ checkTable' = TableWith(Handled', m)

LEMMA BuildPlaces ==
  ASSUME AllUsable, BuildInv, BuildItem
  PROVE  /\ Placed(head, Handled[head], tables[head][item], mode)
         /\ phase' = IF item = Len(tables[head]) THEN "group" ELSE "build"
<1> DEFINE v == tables[head][item]
           r == ResultOf(v)
           vs == Handled[head]
           node == Get(checkTable, r.encode[1], NewNode)
           code == Code(v, mode)
<1>1. phase = "build" /\ item' = item + 1 /\ UNCHANGED <<mode, garbage, testValue, tables, built, head, valueList, checkTable2>>
  BY DEF BuildItem
<1>2. /\ mode \in Modes /\ garbage \in Garbage /\ built \subseteq DOMAIN tables
      /\ FiledIn(tables, MaxValue, mode) /\ checkTable = TableWith(Handled, mode)
      /\ head \in built /\ item \in 1..Len(tables[head])
      /\ valueList = ListFrom(ValuesOf(head, mode), mode, garbage)
  BY <1>1 DEF BuildInv
<1>3. Usable(DatumSize, mode)
  BY <1>2 DEF AllUsable
<1>4. /\ tables[head] \in Seq(Values) /\ ToSet(tables[head]) = ValuesOf(head, mode)
      /\ Len(tables[head]) \in Nat \ {0}
  BY <1>2, AllFiled
<1>5. v \in ValuesOf(head, mode) /\ v \in Values /\ code[1] = head
  <2>1. item \in DOMAIN tables[head]
    BY <1>2, <1>4
  <2>2. v \in ToSet(tables[head])
    BY <2>1 DEF ToSet
  <2> QED
    BY <1>4, <2>2 DEF ValuesOf
<1>6. vs = {tables[head][i] : i \in 1..(item - 1)}
  BY <1>1, <1>2 DEF Handled
<1>7. vs \in SUBSET ValuesOf(head, mode)
  <2>1. \A i \in 1..(item - 1) : i \in DOMAIN tables[head]
    BY <1>2, <1>4
  <2>2. \A i \in 1..(item - 1) : tables[head][i] \in ToSet(tables[head])
    BY <2>1 DEF ToSet
  <2> QED
    BY <1>4, <1>6, <2>2
<1>8. /\ r.value = v /\ r.length = Len(code) /\ r.encode[1] = head
      /\ Len(code) # 1 => r.encode[2] = code[2]
  BY <1>2, <1>3, <1>5, ResultFacts
<1>9. node = NodeWith(head, vs, mode)
  <2>1. head \in DOMAIN Handled
    BY <1>2 DEF Handled
  <2>2. Get(TableWith(Handled, mode), head, NewNode) = NodeWith(head, Handled[head], mode)
    BY <2>1, NodeSoFar
  <2> QED
    BY <1>2, <1>8, <2>2
<1>10. /\ checkTable' = Put(checkTable, head, NodeWith(head, vs \cup {v}, mode))
       /\ phase' = IF item = Len(tables[head]) THEN "group" ELSE "build"
  <2>1. /\ Len(code) = 1 => [NodeWith(head, vs, mode) EXCEPT !.end = TRUE, !.value = v] = NodeWith(head, vs \cup {v}, mode)
        /\ Len(code) # 1 => [NodeWith(head, vs, mode) EXCEPT !.end = FALSE,
                                                             !.table = Put(@, code[2], EntryAt(head, code[2], mode))]
                              = NodeWith(head, vs \cup {v}, mode)
    <3>1. Grown(head, vs, v, mode)
      <4> HIDE DEF vs, v
      <4> QED
        BY <1>3, <1>5, <1>7, NodeGrows
    <3> QED
      BY <3>1 DEF Grown
  <2>2. CASE Len(code) = 1
    <3>1. /\ checkTable' = Put(checkTable, r.encode[1], [node EXCEPT !.end = TRUE, !.value = r.value])
          /\ phase' = IF item = Len(tables[head]) THEN "group" ELSE "build"
      BY <1>8, <2>2 DEF BuildItem
    <3> HIDE DEF r, v, node, vs, code
    <3> QED
      BY <1>8, <1>9, <2>1, <2>2, <3>1, Zenon
  <2>3. CASE Len(code) # 1
    <3>1. ~OneByte(head, mode)
      BY <1>3, <1>5, <2>3, NoneWithByte DEF OneByte
    <3>2. valueList = ValueList(ValuesOf(head, mode))
      BY <1>2, ListsAgree
    <3>3. StateFor(r) = {EntryAt(head, code[2], mode)}
      BY <1>2, <1>3, <1>5, <3>1, <3>2, StateOfCell
    <3>4. /\ \E state \in StateFor(r) :
               checkTable' = Put(checkTable, r.encode[1],
                                 [node EXCEPT !.end = FALSE, !.table = Put(@, r.encode[2], state)])
          /\ phase' = IF item = Len(tables[head]) THEN "group" ELSE "build"
      BY <1>8, <2>3, <3>3 DEF BuildItem
    <3> DEFINE entry == EntryAt(head, code[2], mode)
    <3> HIDE DEF r, v, node, vs, entry, code
    <3>5. checkTable' = Put(checkTable, r.encode[1],
                            [node EXCEPT !.end = FALSE, !.table = Put(@, r.encode[2], entry)])
      BY <3>3, <3>4 DEF entry
    <3>6. r.encode[1] = head /\ r.encode[2] = code[2] /\ node = NodeWith(head, vs, mode)
      BY <1>8, <1>9, <2>3
    <3>7. [NodeWith(head, vs, mode) EXCEPT !.end = FALSE, !.table = Put(@, code[2], entry)]
            = NodeWith(head, vs \cup {v}, mode)
      BY <2>1, <2>3 DEF entry
    <3>8. checkTable' = Put(checkTable, head, NodeWith(head, vs \cup {v}, mode))
      BY <3>5, <3>6, <3>7, Zenon
    <3> QED
      BY <3>4, <3>8
  <2> QED
    BY <2>2, <2>3
<1>11. Handled' = [g \in DOMAIN Handled |-> IF g = head THEN vs \cup {v} ELSE Handled[g]]
  <2>1. DOMAIN Handled = built
    BY DEF Handled
  <2>2. Handled' = [g \in built |-> IF phase' = "build" /\ g = head THEN {tables[head][i] : i \in 1..((item + 1) - 1)}
                                    ELSE ToSet(tables[g])]
    BY <1>1 DEF Handled
  <2>3. \A g \in built : g # head => Handled[g] = ToSet(tables[g])
    BY DEF Handled
  <2> DEFINE w == tables[head]
  <2>4. {w[i] : i \in 1..((item + 1) - 1)} = vs \cup {v}
    <3>1. 1..((item + 1) - 1) = 1..(item - 1) \cup {item}
      BY <1>2, <1>4
    <3> QED
      BY <1>6, <3>1
  <2>5. phase' # "build" => ToSet(w) = {w[i] : i \in 1..((item + 1) - 1)}
    <3> SUFFICES ASSUME phase' # "build" PROVE ToSet(w) = {w[i] : i \in 1..((item + 1) - 1)}
      OBVIOUS
    <3>1. item = Len(w)
      BY <1>10
    <3>2. w \in Seq(Values) /\ Len(w) \in Nat
      BY <1>4
    <3> HIDE DEF w
    <3>3. DOMAIN w = 1..Len(w) /\ 1..((item + 1) - 1) = 1..Len(w)
      BY <3>1, <3>2
    <3> QED
      BY <3>3 DEF ToSet
  <2> HIDE DEF w, vs, v
  <2>6. (IF phase' = "build" THEN {tables[head][i] : i \in 1..((item + 1) - 1)} ELSE ToSet(tables[head])) = vs \cup {v}
    BY <2>4, <2>5 DEF w
  <2> DEFINE now == {tables[head][i] : i \in 1..((item + 1) - 1)}
  <2> HIDE DEF now
  <2>7. \A g \in built : (IF phase' = "build" /\ g = head THEN now ELSE ToSet(tables[g]))
                          = (IF g = head THEN vs \cup {v} ELSE Handled[g])
    BY <2>3, <2>6 DEF now
  <2>8. Handled' = [g \in built |-> IF phase' = "build" /\ g = head THEN now ELSE ToSet(tables[g])]
    BY <2>2 DEF now
  <2> QED
    BY <2>1, <2>7, <2>8
<1>12. checkTable' = TableWith(Handled', mode)
  <2>1. head \in DOMAIN Handled /\ vs \cup {v} # {}
    BY <1>2 DEF Handled
  <2> HIDE DEF vs, v
  <2>2. TableWith(Handled', mode) = Put(TableWith(Handled, mode), head, NodeWith(head, vs \cup {v}, mode))
    BY <1>11, <2>1, TableGrows
  <2> QED
    BY <1>2, <1>10, <2>2
<1> QED
  BY <1>2, <1>5, <1>7, <1>10, <1>11, <1>12 DEF Placed

LEMMA BuildKeeps ==
  ASSUME AllUsable, BuildInv, BuildItem
  PROVE  BuildInv'
<1>1. /\ Placed(head, Handled[head], tables[head][item], mode)
      /\ phase' = IF item = Len(tables[head]) THEN "group" ELSE "build"
  BY BuildPlaces
<1>2. phase = "build" /\ item' = item + 1 /\ UNCHANGED <<mode, garbage, testValue, tables, built, head, valueList, checkTable2>>
  BY DEF BuildItem
<1>3. /\ mode \in Modes /\ garbage \in Garbage /\ built \subseteq DOMAIN tables
      /\ FiledIn(tables, MaxValue, mode)
      /\ head \in built /\ item \in 1..Len(tables[head])
      /\ valueList = ListFrom(ValuesOf(head, mode), mode, garbage)
  BY <1>2 DEF BuildInv
<1>4. checkTable' = TableWith(Handled', mode')
  BY <1>1, <1>2 DEF Placed
<1>5. phase' = "build" => item' \in 1..Len(tables'[head'])
  <2>1. Len(tables[head]) \in Nat \ {0}
    BY <1>3, AllFiled
  <2>2. \A l \in Nat : \A i \in 1..l : i # l => i + 1 \in 1..l
    OBVIOUS
  <2> QED
    BY <1>1, <1>2, <1>3, <2>1, <2>2
<1>6. phase' = "build" \/ phase' = "group"
  BY <1>1
<1> QED
  BY <1>2, <1>3, <1>4, <1>5, <1>6 DEF BuildInv

LEMMA SaveKeeps ==
  ASSUME AllUsable, BuildInv, SaveAndLoad
  PROVE  BuildInv'
<1>1. /\ phase = "group" /\ DOMAIN tables = built /\ testValue' = 0 /\ phase' = "check"
      /\ checkTable2' = LoadCheckTable(SaveCheckTable(checkTable))
      /\ mode' = mode /\ garbage' = garbage /\ tables' = tables /\ built' = built
      /\ checkTable' = checkTable
  BY DEF SaveAndLoad
<1>2. /\ mode \in Modes /\ garbage \in Garbage /\ built \subseteq DOMAIN tables
      /\ FiledIn(tables, MaxValue, mode) /\ checkTable = TableWith(Handled, mode)
  BY <1>1 DEF BuildInv
<1>3. Usable(DatumSize, mode)
  BY <1>2 DEF AllUsable
<1>4. checkTable = TableOf(DatumSize, mode)
  <2> DEFINE heads == {Code(v, mode)[1] : v \in Values}
  <2>1. DOMAIN Handled = heads /\ \A h \in heads : Handled[h] = ValuesOf(h, mode) /\ ValuesOf(h, mode) # {}
    <3>1. DOMAIN tables = heads /\ \A h \in heads : ToSet(tables[h]) = ValuesOf(h, mode) /\ ValuesOf(h, mode) # {}
      BY <1>2, AllFiled
    <3> HIDE DEF heads
    <3> QED
      BY <1>1, <3>1 DEF Handled
  <2>2. TableOf(DatumSize, mode) = [h \in heads |-> NodeWith(h, ValuesOf(h, mode), mode)]
    BY <1>3, WholeTableIs
  <2> HIDE DEF heads
  <2>3. {g \in DOMAIN Handled : Handled[g] # {}} = heads
    BY <2>1
  <2>4. TableWith(Handled, mode) = [h \in heads |-> NodeWith(h, Handled[h], mode)]
    BY <2>3 DEF TableWith
  <2> QED
    BY <1>2, <2>1, <2>2, <2>4
<1>5. checkTable2' = TableOf(DatumSize, mode)
  BY <1>1, <1>3, <1>4, TableReloads
<1>6. checkTable2' = TableOf(DatumSize, mode')
  BY <1>1, <1>5
<1>7. Handled' = Handled
  BY <1>1 DEF Handled
<1>8. checkTable' = TableWith(Handled', mode')
  BY <1>1, <1>2, <1>7
<1>9. testValue' \in Values
  <2>1. \A k \in Nat \ {0} : 0 \in 0..(k - 1)
    OBVIOUS
  <2> QED
    BY <1>1, <2>1, Width DEF Values
<1> QED
  BY <1>1, <1>2, <1>6, <1>8, <1>9 DEF BuildInv

LEMMA CheckKeeps ==
  ASSUME AllUsable, BuildInv, CheckValue
  PROVE  BuildInv'
<1>1. /\ phase = "check" /\ testValue' = testValue + 1
      /\ phase' = IF \E r \in Lookup(checkTable2, Buffer(testValue), DatumSize, mode) : r.value = testValue
                    THEN IF testValue' = MaxValue THEN "done" ELSE "check"
                    ELSE "aborted"
      /\ mode' = mode /\ garbage' = garbage /\ tables' = tables /\ built' = built /\ head' = head
      /\ valueList' = valueList /\ item' = item /\ checkTable' = checkTable /\ checkTable2' = checkTable2
  BY DEF CheckValue
<1>2. /\ mode \in Modes /\ garbage \in Garbage /\ built \subseteq DOMAIN tables /\ testValue \in Values
      /\ FiledIn(tables, MaxValue, mode) /\ checkTable = TableWith(Handled, mode)
      /\ checkTable2 = TableOf(DatumSize, mode)
  BY <1>1 DEF BuildInv
<1>3. Usable(DatumSize, mode)
  BY <1>2 DEF AllUsable
<1>4. \E r \in Lookup(checkTable2, Buffer(testValue), DatumSize, mode) : r.value = testValue
  <2> DEFINE memory == Buffer(testValue)
             answer == AthDecoding(memory, DatumSize, mode)
  <2>1. Starts(memory, testValue, DatumSize, mode)
    BY <1>2, <1>3, BufferStarts
  <2>2. Sound1(testValue, mode)
    BY <1>2, <1>3, ValueFacts
  <2> HIDE DEF memory
  <2>3. Lookup(TableOf(DatumSize, mode), memory, DatumSize, mode) = {answer}
    BY <1>3, <2>1, <2>2, Width, TableDecodes DEF Sound1
  <2>4. answer = [value |-> testValue, usedLength |-> Len(AthEncoding(testValue, DatumSize, mode))]
    BY <2>1, <2>2, Width, CallsRoundTrip DEF Sound1, Starts
  <2>5. answer.value = testValue
    BY <2>4
  <2> HIDE DEF answer
  <2> QED
    BY <1>2, <2>3, <2>5 DEF memory
<1>5. phase' = IF testValue' = MaxValue THEN "done" ELSE "check"
  BY <1>1, <1>4
<1>6. phase' = "check" => testValue' \in Values
  <2>1. \A k \in Nat \ {0} : \A n \in 0..(k - 1) : n + 1 # k => n + 1 \in 0..(k - 1)
    OBVIOUS
  <2> QED
    BY <1>1, <1>2, <1>5, <2>1, Width DEF Values
<1>7. Handled' = Handled
  <2>1. phase # "build" /\ phase' # "build"
    BY <1>1, <1>5
  <2> QED
    BY <1>1, <2>1 DEF Handled
<1>8. checkTable' = TableWith(Handled', mode')
  BY <1>1, <1>2, <1>7
<1>9. checkTable2' = TableOf(DatumSize, mode')
  BY <1>1, <1>2
<1>10. phase' = "check" \/ phase' = "done"
  BY <1>5
<1> QED
  BY <1>1, <1>2, <1>6, <1>8, <1>9, <1>10 DEF BuildInv

LEMMA StutterKeeps ==
  ASSUME BuildInv, UNCHANGED mainVars
  PROVE  BuildInv'
<1>1. UNCHANGED <<mode, garbage, phase, testValue, tables, built, head, valueList, item, checkTable, checkTable2>>
  BY DEF mainVars
<1>2. Handled' = Handled
  BY <1>1 DEF Handled
<1>3. TableWith(Handled', mode') = TableWith(Handled, mode)
  BY <1>1, <1>2
<1> QED
  BY <1>1, <1>3 DEF BuildInv

(* The invariant: at every moment the table under construction is what the values put   *)
(* into it so far make of it, and the loaded table is that of the width and mode.       *)
THEOREM GeneratorInvariant ==
  ASSUME AllUsable
  PROVE  MainSpec => []BuildInv
<1>1. MainInit => BuildInv
  BY MainStarts
<1>2. BuildInv /\ [MainNext]_mainVars => BuildInv'
  <2> SUFFICES ASSUME BuildInv, [MainNext]_mainVars PROVE BuildInv'
    OBVIOUS
  <2>1. CASE EncodeValue
    BY <2>1, EncodeKeeps
  <2>2. CASE Group
    BY <2>2, GroupKeeps
  <2>3. CASE BuildItem
    BY <2>3, BuildKeeps
  <2>4. CASE SaveAndLoad
    BY <2>4, SaveKeeps
  <2>5. CASE CheckValue
    BY <2>5, CheckKeeps
  <2>6. CASE UNCHANGED mainVars
    BY <2>6, StutterKeeps
  <2> QED
    BY <2>1, <2>2, <2>3, <2>4, <2>5, <2>6 DEF MainNext
<1> QED
  BY <1>1, <1>2, PTL DEF MainSpec

(* None of the program's assertions fails: every cell of several values has bits in     *)
(* common, AthDecoding_prebuild stops before it runs out of bits, and the fast decoder  *)
(* returns every value that was encoded.                                                *)
THEOREM AssertionsHold ==
  ASSUME AllUsable
  PROVE  MainSpec => []NeverAborts
<1>1. BuildInv => NeverAborts
  BY DEF BuildInv, NeverAborts
<1> QED
  BY <1>1, GeneratorInvariant, PTL

(* What is built, saved and loaded is the table of the width and mode, with an entry    *)
(* for every codeword and none besides.                                                 *)
THEOREM LoadedTableIsWhole ==
  ASSUME AllUsable
  PROVE  MainSpec => []LoadsTheTable
<1>1. BuildInv => LoadsTheTable
  BY DEF BuildInv, LoadsTheTable
<1> QED
  BY <1>1, GeneratorInvariant, PTL

(* In the loaded table every codeword is looked up as AthDecoding decodes it, whatever  *)
(* bytes follow it in memory.                                                           *)
THEOREM LoadedTableDecodes ==
  ASSUME AllUsable
  PROVE  MainSpec => []LookupIsDecoding
<1>1. BuildInv => LookupIsDecoding
  <2> SUFFICES ASSUME BuildInv, phase = "check", NEW t \in Tails
               PROVE  Lookup(checkTable2, AthEncoding(testValue, DatumSize, mode) \o t, DatumSize, mode)
                        = {AthDecoding(AthEncoding(testValue, DatumSize, mode) \o t, DatumSize, mode)}
    BY DEF LookupIsDecoding
  <2>1. mode \in Modes /\ testValue \in Values /\ checkTable2 = TableOf(DatumSize, mode)
    BY DEF BuildInv
  <2>2. Usable(DatumSize, mode)
    BY <2>1 DEF AllUsable
  <2>3. Sound1(testValue, mode)
    BY <2>1, <2>2, ValueFacts
  <2>4. t \in Seq(Byte) /\ Len(t) >= 8
    BY TableAssumption
  <2> DEFINE code == AthEncoding(testValue, DatumSize, mode)
             memory == code \o t
  <2>5. code \in Seq(Byte)
    BY <2>3 DEF Sound1, Code
  <2> HIDE DEF code
  <2>6. /\ memory \in Seq(Byte) /\ Begins(memory, code) /\ Len(memory) = Len(code) + Len(t)
        /\ Len(t) \in Nat /\ Len(code) \in Nat
    BY <2>4, <2>5, BehindCodeword
  <2> HIDE DEF memory
  <2>7. Len(memory) >= Len(code) + 3
    BY <2>4, <2>6
  <2>8. Starts(memory, testValue, DatumSize, mode)
    BY <2>6, <2>7 DEF Starts, code
  <2>9. Lookup(TableOf(DatumSize, mode), memory, DatumSize, mode) = {AthDecoding(memory, DatumSize, mode)}
    BY <2>2, <2>3, <2>8, Width, TableDecodes DEF Sound1
  <2> QED
    BY <2>1, <2>9 DEF memory, code
<1> QED
  BY <1>1, GeneratorInvariant, PTL

\* An entry of a head node stays as it is when another value is put into the node.
SameEntries(old, new) ==
  /\ new.end = old.end
  /\ \A s \in DOMAIN old.table : new.table[s] = old.table[s]

LEMMA NodeKept ==
  ASSUME NEW m, Usable(DatumSize, m), NEW h, NEW vs \in SUBSET ValuesOf(h, m), vs # {}, NEW v \in ValuesOf(h, m)
  PROVE  SameEntries(NodeWith(h, vs, m), NodeWith(h, vs \cup {v}, m))
<1> DEFINE all == vs \cup {v}
           old == NodeWith(h, vs, m)
           new == NodeWith(h, all, m)
<1>1. CASE OneByte(h, m)
  <2>1. PICK w \in ValuesOf(h, m) : Len(Code(w, m)) = 1
    BY <1>1 DEF OneByte
  <2>2. \A x \in ValuesOf(h, m) : x = w
    BY <2>1, AloneWithByte
  <2>3. all = vs
    BY <2>2
  <2>4. new = old
    BY <2>3
  <2> HIDE DEF new, old
  <2>5. SameEntries(old, new)
    BY <2>4 DEF SameEntries
  <2> QED
    BY <2>5 DEF new, old
<1>2. CASE ~OneByte(h, m)
  <2> DEFINE f == Cells(h, vs, m)
             g == Cells(h, all, m)
  <2>1. \A w \in ValuesOf(h, m) : Len(Code(w, m)) # 1
    BY <1>2 DEF OneByte
  <2>2. old = NodeRec(FALSE, 0, f)
    <3>1. \A w \in vs : Len(Code(w, m)) # 1
      BY <2>1
    <3> QED
      BY <3>1, NodeOfCells
  <2>3. new = NodeRec(FALSE, 0, g)
    <3>1. \A w \in all : Len(Code(w, m)) # 1
      BY <2>1
    <3> HIDE DEF all
    <3> QED
      BY <3>1, NodeOfCells
  <2>4. \A s \in DOMAIN f : s \in DOMAIN g /\ g[s] = f[s]
    <3>1. \A s \in Seconds(vs, m) : s \in Seconds(all, m)
      BY DEF Seconds
    <3> HIDE DEF all
    <3> QED
      BY <3>1 DEF Cells
  <2>5. old.end = FALSE /\ old.table = f /\ new.end = FALSE /\ new.table = g
    BY <2>2, <2>3 DEF NodeRec
  <2> HIDE DEF old, new, f, g
  <2>6. SameEntries(old, new)
    BY <2>4, <2>5 DEF SameEntries
  <2> QED
    BY <2>6 DEF old, new
<1> QED
  BY <1>1, <1>2

(* An entry, once built, is not changed by a later value: every value of a cell leads   *)
(* AthDecoding_prebuild to the same State, and no other value claims the cell.          *)
THEOREM EntriesStay ==
  ASSUME AllUsable
  PROVE  MainSpec => EntriesAreStable
<1> DEFINE Stable == \A h \in DOMAIN checkTable : SameEntries(checkTable[h], checkTable'[h])
<1>1. BuildInv /\ [MainNext]_mainVars => Stable
  <2> SUFFICES ASSUME BuildInv, [MainNext]_mainVars PROVE Stable
    OBVIOUS
  <2>1. CASE checkTable' = checkTable
    BY <2>1 DEF SameEntries
  <2>2. CASE BuildItem
    <3> DEFINE vs == Handled[head]
               v == tables[head][item]
               now == vs \cup {v}
    <3>1. Placed(head, vs, v, mode)
      BY <2>2, BuildPlaces
    <3>2. Usable(DatumSize, mode) /\ checkTable = TableWith(Handled, mode)
      BY DEF BuildInv, AllUsable
    <3> HIDE DEF vs, v
    <3>3. /\ head \in DOMAIN Handled /\ vs \in SUBSET ValuesOf(head, mode) /\ v \in ValuesOf(head, mode)
          /\ Handled[head] = vs
          /\ Handled' = [g \in DOMAIN Handled |-> IF g = head THEN now ELSE Handled[g]]
          /\ checkTable' = TableWith(Handled', mode)
      BY <3>1 DEF Placed, Handled
    <3>4. checkTable' = Put(checkTable, head, NodeWith(head, now, mode))
      <4>1. now # {}
        OBVIOUS
      <4> HIDE DEF now
      <4>2. TableWith(Handled', mode) = Put(TableWith(Handled, mode), head, NodeWith(head, now, mode))
        BY <3>3, <4>1, TableGrows
      <4> QED
        BY <3>2, <3>3, <4>2
    <3>5. \A g \in DOMAIN checkTable : checkTable'[g] = IF g = head THEN NodeWith(head, now, mode) ELSE checkTable[g]
      <4> HIDE DEF now
      <4> QED
        BY <3>4 DEF Put
    <3> SUFFICES ASSUME NEW h \in DOMAIN checkTable PROVE SameEntries(checkTable[h], checkTable'[h])
      OBVIOUS
    <3>6. CASE h = head
      <4>1. checkTable[head] = NodeWith(head, vs, mode) /\ vs # {}
        <5>1. head \in DOMAIN checkTable
          BY <3>6
        <5> QED
          BY <3>2, <3>3, <5>1 DEF TableWith
      <4>2. SameEntries(NodeWith(head, vs, mode), NodeWith(head, now, mode))
        BY <3>2, <3>3, <4>1, NodeKept
      <4> QED
        BY <3>5, <3>6, <4>1, <4>2
    <3>7. CASE h # head
      BY <3>5, <3>7 DEF SameEntries
    <3> QED
      BY <3>6, <3>7
  <2>3. CASE UNCHANGED mainVars
    BY <2>1, <2>3 DEF mainVars
  <2> QED
    BY <2>1, <2>2, <2>3 DEF MainNext, EncodeValue, Group, SaveAndLoad, CheckValue
<1>2. Stable => \A h \in DOMAIN checkTable :
                  /\ checkTable'[h].end = checkTable[h].end
                  /\ \A s \in DOMAIN checkTable[h].table : checkTable'[h].table[s] = checkTable[h].table[s]
  BY DEF SameEntries
<1> HIDE DEF Stable
<1> QED
  BY <1>1, <1>2, GeneratorInvariant, PTL DEF MainSpec, EntriesAreStable
=============================================================================
