---------------------------- MODULE DecodingTest ----------------------------
(***************************************************************************)
(* src/DecodingTest.cpp: the program that generates the table (DST) of one *)
(* width and mode, by encoding every value, saves it, loads it again and   *)
(* checks the fast decoder on every value.                                 *)
(***************************************************************************)
EXTENDS CheckTable, TableFile

CONSTANTS
  DatumSize,  \* --DatumSize: bits of a value
  Modes,      \* --Mode
  Garbage,    \* what a Result holds behind its codeword: encode[8] has no initialiser
  Tails       \* what main may find in memory behind a codeword

ASSUME TableAssumption ==
  /\ DatumSize \in 1..30
  /\ Modes \subseteq 0..7
  /\ \A s \in Garbage \cup Tails : s \in Seq(Byte) /\ Len(s) >= 8

\* The powers of two that the values of a width are counted by.
ASSUME PowersAssumption == 2^0 = 1 /\ \A n \in 1..DatumSize : 2^n = 2 * 2^(n - 1)

VARIABLES
  mode,
  garbage,
  phase,       \* "encode", "group", "build", "check", "done" or "aborted"
  testValue,   \* the next value to encode or to check
  tables,      \* head byte -> its Results, in their order, each known by its value
  built,       \* the head bytes already iterated over
  head,        \* tt.first
  valueList,   \* second byte -> [values, commonLength]
  item,        \* index of the next Result of tables[head]
  checkTable,  \* the table under construction
  checkTable2  \* the table loaded from the file

mainVars == <<mode, garbage, phase, testValue, tables, built, head, valueList, item,
          checkTable, checkTable2>>

MaxValue == 2^DatumSize

\* EncodeOutput.output: the codeword in a buffer of zeros.
Buffer(v) == AthEncoding(v, DatumSize, mode) \o <<0, 0, 0, 0, 0, 0, 0, 0>>

\* The Result of a value: the codeword is copied into bytes that nobody has cleared.
ResultOf(v) ==
  LET code == AthEncoding(v, DatumSize, mode)
  IN  [value |-> v, length |-> Len(code), encode |-> code \o garbage]

----------------------------------------------------------------------------
MainInit ==
  /\ mode \in Modes
  /\ garbage \in Garbage
  /\ phase = "encode"
  /\ testValue = 0
  /\ tables = Empty
  /\ built = {}
  /\ head = 0
  /\ valueList = Empty
  /\ item = 1
  /\ checkTable = Empty
  /\ checkTable2 = Empty

\* The first loop: value -> codeword, filed under the first byte of the buffer.
EncodeValue ==
  /\ phase = "encode"
  /\ LET first == Buffer(testValue)[1]
     IN  tables' = Put(tables, first, Append(Get(tables, first, << >>), testValue))
  /\ testValue' = testValue + 1
  /\ phase' = IF testValue' = MaxValue THEN "group" ELSE "encode"
  /\ UNCHANGED <<mode, garbage, built, head, valueList, item, checkTable, checkTable2>>

\* valueList: the values whose codewords are longer than a byte, by their second byte.
ValueList(values) ==
  LET longer    == {r \in {ResultOf(v) : v \in values} : r.length > 1}
      by(s)     == {r.value : r \in {q \in longer : q.encode[2] = s}}
      entry(vs) == [values |-> vs,
                    commonLength |-> IF Cardinality(vs) > 1 THEN CommonLength(vs, DatumSize) ELSE 0]
  IN  [s \in {r.encode[2] : r \in longer} |-> entry(by(s))]

\* The next head byte of the ordered map, with "assert(commonLength != 0)".
Group ==
  /\ phase = "group"
  /\ DOMAIN tables # built
  /\ head' = Min(DOMAIN tables \ built)
  /\ built' = built \cup {head'}
  /\ valueList' = ValueList(ToSet(tables[head']))
  /\ item' = 1
  /\ phase' = IF \E s \in DOMAIN valueList' : /\ Cardinality(valueList'[s].values) > 1
                                              /\ valueList'[s].commonLength = 0
                THEN "aborted" ELSE "build"
  /\ UNCHANGED <<mode, garbage, testValue, tables, checkTable, checkTable2>>

\* The State of the Results that share r's two first bytes; {} when prebuild asserts.
StateFor(r) ==
  LET entry == Get(valueList, r.encode[2], [values |-> {}, commonLength |-> 0])
  IN  IF Cardinality(entry.values) > 1
        THEN {[end |-> FALSE, prebuildState |-> p] :
                p \in AthDecoding_prebuild(r.encode, DatumSize, 2, entry.commonLength, mode)}
        ELSE {[end |-> TRUE, value |-> r.value,
               length |-> AthDecoding(r.encode, DatumSize, mode).usedLength]}

\* The body of the loop that builds the table: one Result.
BuildItem ==
  /\ phase = "build"
  /\ LET r    == ResultOf(tables[head][item])
         node == Get(checkTable, r.encode[1], NewNode)
     IN  IF r.length = 1
           THEN /\ checkTable' = Put(checkTable, r.encode[1],
                                     [node EXCEPT !.end = TRUE, !.value = r.value])
                /\ phase' = IF item = Len(tables[head]) THEN "group" ELSE "build"
           ELSE IF StateFor(r) = {}
             THEN /\ phase' = "aborted"
                  /\ UNCHANGED checkTable
             ELSE /\ \E state \in StateFor(r) :
                       checkTable' = Put(checkTable, r.encode[1],
                                         [node EXCEPT !.end = FALSE,
                                                      !.table = Put(@, r.encode[2], state)])
                  /\ phase' = IF item = Len(tables[head]) THEN "group" ELSE "build"
  /\ item' = item + 1
  /\ UNCHANGED <<mode, garbage, testValue, tables, built, head, valueList, checkTable2>>

\* The table is written to its file and read back.
SaveAndLoad ==
  /\ phase = "group"
  /\ DOMAIN tables = built
  /\ checkTable2' = LoadCheckTable(SaveCheckTable(checkTable))
  /\ testValue' = 0
  /\ phase' = "check"
  /\ UNCHANGED <<mode, garbage, tables, built, head, valueList, item, checkTable>>

\* The last loop, with "assert(result == testValue)".
CheckValue ==
  /\ phase = "check"
  /\ testValue' = testValue + 1
  /\ phase' = IF \E r \in Lookup(checkTable2, Buffer(testValue), DatumSize, mode) : r.value = testValue
                THEN IF testValue' = MaxValue THEN "done" ELSE "check"
                ELSE "aborted"
  /\ UNCHANGED <<mode, garbage, tables, built, head, valueList, item, checkTable, checkTable2>>

MainNext == EncodeValue \/ Group \/ BuildItem \/ SaveAndLoad \/ CheckValue

MainSpec == MainInit /\ [][MainNext]_mainVars

----------------------------------------------------------------------------
(* Properties *)

\* The variables have the types of the code's, and the loops stop where they should.
MainTypeOK == /\ mode \in Modes
          /\ garbage \in Garbage
          /\ phase \in {"encode", "group", "build", "check", "done", "aborted"}
          /\ testValue \in 0..MaxValue
          /\ DOMAIN tables \subseteq Byte
          /\ built \subseteq DOMAIN tables
          /\ head \in Byte
          /\ DOMAIN valueList \subseteq Byte
          /\ phase = "build" => item \in DOMAIN tables[head]
          /\ DOMAIN checkTable \subseteq Byte
          /\ DOMAIN checkTable2 \subseteq Byte

\* The program's own assertions hold: every cell of several values has bits in common,
\* prebuild stops before it runs out of bits, and the fast decoder returns every value.
NeverAborts == phase # "aborted"

\* An entry, once built, is never changed by a later value that shares its bytes: every
\* value of a cell leads prebuild to the same state, and no other value claims the cell.
EntriesAreStable ==
  [][\A h \in DOMAIN checkTable :
       /\ checkTable'[h].end = checkTable[h].end
       /\ \A s \in DOMAIN checkTable[h].table :
            checkTable'[h].table[s] = checkTable[h].table[s]]_mainVars

\* main's "assert(result_fast == value)" and "assert(length == decodeOutput.usedLength)":
\* the lookup and AthDecoding agree on every codeword, whatever follows it in memory.
LookupIsDecoding ==
  phase = "check" =>
    \A t \in Tails :
      LET memory == AthEncoding(testValue, DatumSize, mode) \o t
      IN  Lookup(checkTable2, memory, DatumSize, mode) = {AthDecoding(memory, DatumSize, mode)}

\* What the program builds, one Result at a time over three loops, saves and loads again
\* is the table of the width and mode, with an entry for every codeword and none besides.
LoadsTheTable ==
  (phase = "check" /\ testValue = 0) => checkTable2 = TableOf(DatumSize, mode)

\* A State keeps a decoder that is between two bits.  AthDecoding_prebuild may return
\* between two shifts of one bit (outputLimit), but AthDecoding_fast narrows before it
\* shifts: it could not go on from there.
SavedStatesAreSettled ==
  (phase = "check" /\ testValue = 0) =>
    \A h \in DOMAIN checkTable2 : \A s \in DOMAIN checkTable2[h].table :
      LET state == checkTable2[h].table[s]
      IN  ~state.end => ~SameTopByte(state.prebuildState)
=============================================================================
