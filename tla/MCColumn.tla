------------------------------ MODULE MCColumn ------------------------------
(***************************************************************************)
(* What happens to columns of integers, explored one at a time, each with  *)
(* the small instance that suits it: an object of class AthCompressor      *)
(* (CompressorObject), used again and again; one of class IntegerConvertor *)
(* (LinearConvertor); and main, which compresses whole columns batch by    *)
(* batch and decodes them (IntegerConvertor).                              *)
(***************************************************************************)
EXTENDS CompressorObject, IntegerConvertor

VARIABLES compressor,    \* the one that is explored; the state of the second has L before its names
          LPhase, LDataList, LIntermediates, LLinearRefList, LIntervalSize, LLastRefPos,
          LLine, LOutputList, LOrderWidth, LDeltaWidth, LDeltaBase, LString, LRecovered,
          LTarget

linearVars == <<LPhase, LDataList, LIntermediates, LLinearRefList, LIntervalSize, LLastRefPos,
                LLine, LOutputList, LOrderWidth, LDeltaWidth, LDeltaBase, LString, LRecovered,
                LTarget>>

(* Differences of 1 to 10 bits. *)
SomeData == {-1000, -999, -744, -243}
AllTails == {[b \in 1..16 |-> Base - 1], [b \in 1..16 |-> 0],
             [b \in 1..16 |-> IF b % 2 = 1 THEN 0 ELSE Base \div 2]}

(* Data near a line, far from it, and equal; widths that four data outgrow. *)
SomeValues == {-80, 1, 2, 7, 17, 60}
Linear == INSTANCE LinearConvertor
            WITH Values <- SomeValues, ByteBits <- 4, IntBits <- 8, BaseBits <- 6, WidthBits <- 2,
                 phase <- LPhase, dataList <- LDataList, intermediates <- LIntermediates,
                 linearRefList <- LLinearRefList, intervalSize <- LIntervalSize, lastRefPos
                 <- LLastRefPos, line <- LLine, outputList <- LOutputList, orderWidth <-
                 LOrderWidth, deltaWidth <- LDeltaWidth, deltaBase <- LDeltaBase, string <-
                 LString, recovered <- LRecovered, target <- LTarget

(* Differences of 9 and 10 bits, of 11, for which there is no table, and more than 12-bit    *)
(* integers can hold: batches of three are shorter, just as long and longer when coded, and  *)
(* codewords of one, two and more bytes are decoded.  Two columns of two batches, one of     *)
(* them ascending, and a row left.                                                           *)
Batches == [1 .. 3 -> {-1000, -744, -242, 1100}]
Ascending == {b \in Batches : b[1] <= b[2] /\ b[2] <= b[3]}
TwoColumns == {<<a \o b \o <<0>>, b \o a \o <<0>>>> : a \in Batches, b \in Ascending}
SomeDurations == {1}

(* Every table main loads can be relied on: the premise of the theorem LookupsAgree holds.   *)
ASSUME TablesUsable == \A d \in TableWidths, mode \in 0..7 : Usable(d, mode)

(* So can those of the instance of MCDecodingTest, which has the same constants: the premise *)
(* AllUsable of the theorems about the generator holds there.                                *)
ASSUME GeneratedUsable == \A mode \in {0, 2, 5} : Usable(11, mode)

(* One of the three is explored; the others keep one initial state. *)
InitColumn ==
  /\ compressor \in {"Ath", "linear", "main"} /\ Init /\ Linear!Init /\ MainInit
  /\ compressor # "main" =>
       columns = (CHOOSE c \in TwoColumns : TRUE) /\ behind = (CHOOSE t \in AllTails : TRUE)

ObjectStep == compressor = "Ath" /\ Next /\ UNCHANGED <<compressor, linearVars, mainVars>>
LinearStep == compressor = "linear" /\ Linear!Next /\ UNCHANGED <<compressor, vars, mainVars>>
MainStep == compressor = "main" /\ MainNext /\ UNCHANGED <<compressor, vars, linearVars>>
NextColumn == ObjectStep \/ LinearStep \/ MainStep

(* convert, toString and toData follow one another and wait for nothing. *)
SpecColumn ==
  InitColumn /\ [][NextColumn]_<<compressor, vars, linearVars, mainVars>> /\ WF_linearVars(LinearStep)

(* The line is always drawn through one reference at least (checkLinearRef). *)
ReferenceLeft == Linear!ReferenceLeft
(* toData returns what was added, in the order of addition. *)
RoundTrip == Linear!RoundTrip
(* The loop of checkLinearRef that drops references ends. *)
Converts == Linear!Converts
=============================================================================
