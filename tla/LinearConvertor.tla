-------------------------- MODULE LinearConvertor --------------------------
(***************************************************************************)
(* class IntegerConvertor of src/IntegerConvertor.h: integers are sorted   *)
(* and replaced by their distances from a line through some of them, the   *)
(* references; toString packs position on the line and distance into a     *)
(* few bytes each, toData computes the integers again.                     *)
(* Floating-point numbers are exact fractions here: the code rounds k and  *)
(* b to floats, but both directions compute with the same two floats.      *)
(***************************************************************************)
EXTENDS Integers, Sequences, SequencesExt, FiniteSetsExt

CONSTANTS
  Values,     \* the integers added
  MaxData,    \* bounds how many are added
  ByteBits,   \* bits of a byte: 8
  IntBits,    \* bits of int64_t: 64
  BaseBits,   \* bits of int32_t, for deltaBase: 32
  WidthBits   \* bits of the field orderLength of Info: 4 (datumLength, at most 12, fits its own)

Wrap(v, bits) == LET u == v % 2^bits IN IF u < 2^(bits - 1) THEN u ELSE u - 2^bits
Magnitude(v)  == IF v < 0 THEN -v ELSE v
Lowest        == -(2^(IntBits - 1))
Highest       == 2^(IntBits - 1) - 1

VARIABLES
  phase,          \* "add", "refs", "solve", "string", "data", "done", "refused", "overrun" or "hangs"
  dataList,
  intermediates,  \* the data with their places in dataList (from 1), sorted
  linearRefList,  \* which of them are references
  intervalSize, lastRefPos,
  line,           \* k and b
  outputList, orderWidth, deltaWidth, deltaBase,
  string,         \* what toString returns
  recovered,      \* what toData returns
  target          \* the bytes that getSize has found; 0 before

vars == <<phase, dataList, intermediates, linearRefList, intervalSize, lastRefPos,
          line, outputList, orderWidth, deltaWidth, deltaBase, string, recovered, target>>
loopVars   == <<intermediates, linearRefList, intervalSize, lastRefPos>>
outputVars == <<line, outputList, orderWidth, deltaWidth, deltaBase>>
results    == <<string, recovered, target>>

----------------------------------------------------------------------------
(* LinearSolver.  A line is <<n, m, d>>: it is (n * x + m) / d at x; the   *)
(* line through no reference is 0 / 0.                                     *)

Sum(f, S) == MapThenSumSet(LAMBDA i : f[i], S)

LinearSolver(list, refs) ==
  LET R     == {i \in DOMAIN list : refs[i]}
      count == Cardinality(R)
      x     == [i \in R |-> i - 1]
      sumx2 == Sum([i \in R |-> x[i] * x[i]], R)
      sumxy == Sum([i \in R |-> list[i].data * x[i]], R)
      sumx  == Sum(x, R)
      sumy  == Sum([i \in R |-> list[i].data], R)
      below == count * sumx2 - sumx * sumx
      slope == count * sumxy - sumx * sumy
  IN  IF count = 1 THEN <<sumy, 0, 1>>   \* "para_b = 0; para_k = ..."
      ELSE <<slope * count, sumy * below - slope * sumx, below * count>>

\* lround(predict(x)): halves away from zero; not a number becomes the lowest integer.
Predicted(l, x) ==
  LET above   == l[1] * x + l[2]
      rounded == (2 * Magnitude(above) + l[3]) \div (2 * l[3])
  IN  IF l[3] = 0 THEN Lowest ELSE IF above < 0 THEN -rounded ELSE rounded

\* The distance of a datum from the line at x.
Delta(datum, l, x) == Wrap(datum - Predicted(l, x), IntBits)

\* index when the loop is at i: the references before.
Index(refs, i) == Cardinality({j \in 1..(i - 1) : refs[j]})

----------------------------------------------------------------------------
Init ==
  /\ phase = "add" /\ dataList = << >>
  /\ intermediates = << >> /\ linearRefList = << >>
  /\ intervalSize = Highest /\ lastRefPos = 0
  /\ line = <<0, 0, 1>> /\ outputList = << >>
  /\ orderWidth = 0 /\ deltaWidth = 0 /\ deltaBase = 0
  /\ string = << >> /\ recovered = << >> /\ target = 0

addData ==
  /\ phase = "add" /\ Len(dataList) < MaxData
  /\ \E datum \in Values : dataList' = Append(dataList, datum)
  /\ UNCHANGED <<phase, loopVars, outputVars, results>>

\* std::sort: equal data in any order.
Sorted(data) ==
  {[i \in DOMAIN data |-> [data |-> data[p[i]], order |-> p[i]]] :
     p \in {q \in [DOMAIN data -> DOMAIN data] :
              /\ IsInjective(q)
              /\ \A i \in 1..(Len(data) - 1) : data[q[i]] <= data[q[i + 1]]}}

\* convert up to the loop of checkLinearRef: of equal data the first is a reference.
convert ==
  /\ phase = "add"
  /\ IF Len(dataList) <= 1
       THEN phase' = "refused" /\ UNCHANGED <<intermediates, linearRefList>>
       ELSE /\ phase' = "refs"
            /\ intermediates' \in Sorted(dataList)
            /\ linearRefList' = [i \in DOMAIN dataList |->
                 i = 1 \/ intermediates'[i].data # intermediates'[i - 1].data]
  /\ UNCHANGED <<dataList, intervalSize, lastRefPos, outputVars, results>>

\* The distances that the loop of checkLinearRef compares.
RefDeltas(l) ==
  [i \in DOMAIN intermediates |->
     LET at(x) == Delta(intermediates[i].data, l, x)
         index == Index(linearRefList, i)
     IN  IF linearRefList[i] THEN at(index) ELSE Min({at(index), at(index - 1)})]

Spread(deltas) == Wrap(Max(ToSet(deltas)) - Min(ToSet(deltas)), IntBits)

\* The first datum with the largest distance.
Farthest(deltas) ==
  CHOOSE i \in DOMAIN deltas :
    /\ \A j \in DOMAIN deltas : Magnitude(deltas[j]) <= Magnitude(deltas[i])
    /\ \A j \in 1..(i - 1) : Magnitude(deltas[j]) < Magnitude(deltas[i])

\* Mutant of Shrinks: ">=".
Shrinks_Equal(deltas) == intervalSize >= Spread(deltas)

Shrinks(deltas) == intervalSize > Spread(deltas)

\* Mutant of Restored: nothing is put back.
Restored_Not(refs) == refs

Restored(refs) == [refs EXCEPT ![lastRefPos] = TRUE]

\* A turn of the loop.  If the distances spread less than before, the farthest datum
\* is a reference no more; if not, the one dropped last is a reference again.
checkLinearRef ==
  /\ phase = "refs"
  /\ \E l \in {LinearSolver(intermediates, linearRefList)} : \E deltas \in {RefDeltas(l)} :
       IF Shrinks(deltas)
         THEN /\ linearRefList' = [linearRefList EXCEPT ![Farthest(deltas)] = FALSE]
              /\ lastRefPos' = Farthest(deltas) /\ intervalSize' = Spread(deltas)
              /\ UNCHANGED phase
         ELSE /\ linearRefList' = Restored(linearRefList)
              /\ phase' = "solve"
              /\ UNCHANGED <<intervalSize, lastRefPos>>
  /\ UNCHANGED <<dataList, intermediates, outputVars, results>>

\* The bits of an unsigned number, at least one.  The loop that counts them shifts a
\* number of 64 bits by 64, which is undefined; the processor shifts it by nothing, for ever.
bitLength(value) == Max({1} \cup {l \in 1..IntBits : value \div 2^(l - 1) # 0})

Counts(value) == value < 2^(IntBits - 1)

\* getSize, before or after the conversion: the bytes that the differences take.
getSize ==
  /\ dataList # << >> /\ phase \notin {"overrun", "hangs"}
  /\ LET delta == (Max(ToSet(dataList)) - Min(ToSet(dataList))) % 2^IntBits
     IN  IF Counts(delta)
           THEN /\ target' = (bitLength(delta) + ByteBits - 1) \div ByteBits
                /\ UNCHANGED phase
           ELSE phase' = "hangs" /\ UNCHANGED target
  /\ UNCHANGED <<dataList, loopVars, outputVars, string, recovered>>

\* Mutant of Nearer: the reference after the datum is not considered.
Nearer_Before(datum, l, index) ==
  [delta |-> Delta(datum, l, index - 1), order |-> index]

\* What is put out for a datum between two references.
Nearer(datum, l, index) ==
  LET delta1 == Delta(datum, l, index)
      delta2 == Delta(datum, l, index - 1)
  IN  IF Magnitude(delta1) < Magnitude(delta2)
        THEN [delta |-> delta1, order |-> index]
        ELSE [delta |-> delta2, order |-> index - 1]

\* What is put out for the data, in the order they are sorted in.
Outputs(l) ==
  [i \in DOMAIN intermediates |->
     LET index == Index(linearRefList, i)
         datum == intermediates[i].data
     IN  IF linearRefList[i] THEN [delta |-> Delta(datum, l, index), order |-> index]
         ELSE Nearer(datum, l, index)]

linearSolver ==
  /\ phase = "solve"
  /\ \E l \in {LinearSolver(intermediates, linearRefList)} : \E output \in {Outputs(l)} :
       LET deltas == [i \in DOMAIN output |-> output[i].delta]
           min    == Min(ToSet(deltas))
           place  == [i \in DOMAIN intermediates |->
                        CHOOSE p \in DOMAIN intermediates : intermediates[p].order = i]
       IN  /\ phase' = IF Counts(Spread(deltas) % 2^IntBits) THEN "string" ELSE "hangs"
           /\ line' = l
           /\ outputList' = [i \in DOMAIN dataList |->
                [output[place[i]] EXCEPT !.delta = Wrap(@ - min, IntBits)]]
           /\ orderWidth' = bitLength(Index(linearRefList, Len(dataList) + 1))
           /\ deltaWidth' = bitLength(Spread(deltas) % 2^IntBits)
           /\ deltaBase' = Wrap(min, BaseBits)
  /\ UNCHANGED <<dataList, loopVars, results>>

----------------------------------------------------------------------------
DatumLength == (orderWidth + deltaWidth + ByteBits - 1) \div ByteBits

\* An integer of more bytes than temp has is read, and by toData written, past it.
toString ==
  /\ phase = "string"
  /\ phase' = IF DatumLength * ByteBits > IntBits THEN "overrun" ELSE "data"
  /\ string' =
       [k_b |-> line, base |-> deltaBase,
        orderLength |-> orderWidth % 2^WidthBits, datumLength |-> DatumLength,
        data |-> [i \in DOMAIN outputList |->
          (outputList[i].order * 2^(DatumLength * ByteBits - orderWidth) + outputList[i].delta)
            % 2^(DatumLength * ByteBits)]]
  /\ UNCHANGED <<dataList, loopVars, outputVars, recovered, target>>

toData ==
  LET shift == string.datumLength * ByteBits - string.orderLength
  IN  /\ phase = "data" /\ phase' = "done"
      /\ recovered' = [i \in DOMAIN string.data |->
           Wrap((string.data[i] % 2^shift) + string.base
                  + Predicted(string.k_b, string.data[i] \div 2^shift), IntBits)]
      /\ UNCHANGED <<dataList, loopVars, outputVars, string, target>>

Next == addData \/ convert \/ checkLinearRef \/ linearSolver
        \/ toString \/ toData \/ getSize

Spec == Init /\ [][Next]_vars

\* convert, toString and toData are called one after another and wait for nothing.
FairSpec == Spec /\ WF_vars(Next)

----------------------------------------------------------------------------
TypeOK ==
  /\ phase \in {"add", "refs", "solve", "string", "data", "done", "refused", "overrun", "hangs"}
  /\ dataList \in Seq(Values)
  /\ phase \in {"refs", "solve", "string", "data", "done", "overrun"} =>
       /\ DOMAIN linearRefList = DOMAIN dataList
       /\ \A i \in DOMAIN intermediates :
            intermediates[i].data = dataList[intermediates[i].order]
  /\ phase = "solve" => lastRefPos \in DOMAIN dataList

\* However often references are dropped, and whatever a line through none of
\* them predicts, one is left when the line is drawn (one more than the loop
\* found best): linearSolver never divides by zero.
ReferenceLeft == phase = "solve" => \E i \in DOMAIN linearRefList : linearRefList[i]

\* What toString keeps of the solution: a base that an int32_t holds, and a width
\* that the field of Info holds.
Representable ==
  /\ orderWidth < 2^WidthBits
  /\ deltaBase = Min({Delta(dataList[i], line, outputList[i].order) : i \in DOMAIN dataList})

\* toData returns the integers that were added, in the order they were added.
RoundTrip == phase = "done" /\ Representable => recovered = dataList

\* The loop that drops references ends: the spread shrinks every time.  So do the
\* others, unless 64 bits are counted.
Converts == phase = "refs" ~> phase \in {"done", "overrun", "hangs"}
=============================================================================
