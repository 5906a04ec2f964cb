---------------------------- MODULE StartupProofs ----------------------------
(***************************************************************************)
(* Theorems about Startup: the flags hold what is of their type, whatever  *)
(* texts and calls set them; when main begins with the batches it has the  *)
(* columns it was asked for; and ReadFlagsFromString takes back what it    *)
(* did before an error.  For all arguments, flagfiles, environment         *)
(* variables and input files.                                              *)
(***************************************************************************)
EXTENDS Startup, FoldFacts

----------------------------------------------------------------------------
(* A finite set of integers in order.                                      *)

Rank(numbers, c) == Cardinality({d \in numbers : d <= c})

\* Ranks go from 1 to the number of integers.
LEMMA RankBounds ==
  ASSUME NEW numbers \in SUBSET Int, IsFiniteSet(numbers), NEW c \in numbers
  PROVE  /\ IsFiniteSet({d \in numbers : d <= c})
         /\ Rank(numbers, c) \in 1..Cardinality(numbers)
<1> DEFINE upto == {d \in numbers : d <= c}
<1>1. upto \in SUBSET numbers /\ c \in upto
  OBVIOUS
<1>2. IsFiniteSet(upto) /\ Cardinality(upto) <= Cardinality(numbers)
  BY <1>1, FS_Subset
<1>3. Cardinality(upto) \in Nat /\ Cardinality(numbers) \in Nat
  BY <1>2, FS_CardinalityType
<1>4. Cardinality(upto) # 0
  BY <1>1, <1>2, FS_EmptySet
<1> HIDE DEF upto
<1>5. Cardinality(upto) \in 1..Cardinality(numbers)
  BY <1>2, <1>3, <1>4
<1> QED
  BY <1>2, <1>5 DEF Rank, upto

\* The smaller of two integers has the smaller rank.
LEMMA RankGrows ==
  ASSUME NEW numbers \in SUBSET Int, IsFiniteSet(numbers), NEW c \in numbers, NEW d \in numbers, c < d
  PROVE  Rank(numbers, c) < Rank(numbers, d)
<1> DEFINE low  == {e \in numbers : e <= c}
           high == {e \in numbers : e <= d}
<1>1. low \in SUBSET high /\ d \in high /\ d \notin low
  <2>1. c \in Int /\ d \in Int
    OBVIOUS
  <2>2. ASSUME NEW e \in low PROVE e \in high
    <3>1. e \in numbers /\ e \in Int /\ e <= c
      OBVIOUS
    <3>2. e <= d
      BY <2>1, <3>1
    <3> QED
      BY <3>1, <3>2
  <2>3. d <= d /\ ~(d <= c)
    BY <2>1
  <2> HIDE DEF low
  <2>4. low \in SUBSET high
    BY <2>2
  <2> USE DEF low
  <2> QED
    BY <2>3, <2>4
<1>2. IsFiniteSet(low) /\ IsFiniteSet(high)
  BY RankBounds
<1> HIDE DEF low, high
<1>3. Cardinality(low) <= Cardinality(high) /\ Cardinality(low) # Cardinality(high)
  BY <1>1, <1>2, FS_Subset
<1>4. Cardinality(low) \in Nat /\ Cardinality(high) \in Nat
  BY <1>2, FS_CardinalityType
<1>5. Cardinality(low) < Cardinality(high)
  BY <1>3, <1>4
<1> QED
  BY <1>5 DEF Rank, low, high

\* Every place has one integer with its rank, so the integers stand where their ranks say.
LEMMA AscendingIs ==
  ASSUME NEW numbers \in SUBSET Int, IsFiniteSet(numbers)
  PROVE  /\ Cardinality(numbers) \in Nat
         /\ Ascending(numbers) \in [1..Cardinality(numbers) -> numbers]
         /\ \A c \in numbers : /\ Rank(numbers, c) \in 1..Cardinality(numbers)
                               /\ Ascending(numbers)[Rank(numbers, c)] = c
<1> DEFINE n == Cardinality(numbers)
           rank == [c \in numbers |-> Rank(numbers, c)]
<1>1. n \in Nat
  BY FS_CardinalityType
<1>2. rank \in [numbers -> 1..n] /\ \A c \in numbers : rank[c] = Rank(numbers, c)
  BY RankBounds
<1>3. ASSUME NEW c \in numbers, NEW d \in numbers, Rank(numbers, c) = Rank(numbers, d)
      PROVE  c = d
  <2>1. c \in Int /\ d \in Int
    OBVIOUS
  <2>2. Rank(numbers, c) \in Int /\ Rank(numbers, d) \in Int
    <3>1. Rank(numbers, c) \in 1..n
      BY RankBounds
    <3>2. Rank(numbers, d) \in 1..n
      BY RankBounds
    <3> QED
      BY <1>1, <3>1, <3>2
  <2>3. ~(c < d)
    <3>1. c < d => Rank(numbers, c) < Rank(numbers, d)
      BY RankGrows
    <3> QED
      BY <1>3, <2>2, <3>1
  <2>4. ~(d < c)
    <3>1. d < c => Rank(numbers, d) < Rank(numbers, c)
      BY RankGrows
    <3> QED
      BY <1>3, <2>2, <3>1
  <2> QED
    BY <2>1, <2>3, <2>4
<1> HIDE DEF rank
<1>4. rank \in Injection(numbers, 1..n)
  BY <1>2, <1>3 DEF Injection, IsInjective
<1>5. IsFiniteSet(1..n) /\ Cardinality(1..n) = n
  <2>1. 1 \in Int /\ n \in Int
    BY <1>1
  <2>2. IsFiniteSet(1..n) /\ Cardinality(1..n) = IF 1 > n THEN 0 ELSE n - 1 + 1
    BY <2>1, FS_Interval
  <2> QED
    BY <1>1, <2>2
<1>6. rank \in Surjection(numbers, 1..n)
  BY <1>4, <1>5, FS_Injection
<1>7. ASSUME NEW k \in 1..n
      PROVE  /\ Ascending(numbers)[k] \in numbers
             /\ Rank(numbers, Ascending(numbers)[k]) = k
  <2>1. \E c \in numbers : Cardinality({m \in numbers : m <= c}) = k
    BY <1>2, <1>6 DEF Surjection, Rank
  <2>2. Ascending(numbers)[k] = CHOOSE c \in numbers : Cardinality({m \in numbers : m <= c}) = k
    BY DEF Ascending
  <2> QED
    BY <2>1, <2>2 DEF Rank
<1>8. Ascending(numbers) \in [1..n -> numbers]
  BY <1>7 DEF Ascending
<1>9. ASSUME NEW c \in numbers
      PROVE  Rank(numbers, c) \in 1..n /\ Ascending(numbers)[Rank(numbers, c)] = c
  <2>1. Rank(numbers, c) \in 1..n
    BY RankBounds
  <2>2. /\ Ascending(numbers)[Rank(numbers, c)] \in numbers
        /\ Rank(numbers, Ascending(numbers)[Rank(numbers, c)]) = Rank(numbers, c)
    BY <1>7, <2>1
  <2> QED
    BY <1>3, <2>1, <2>2
<1> QED
  BY <1>1, <1>8, <1>9

----------------------------------------------------------------------------
(* What the flags hold.                                                    *)

Checks    == {NoValidator} \union {v.validator : v \in Validators}
FlagOf(f) == [current : ValuesOf(f), default : ValuesOf(f), modified : BOOLEAN, validator : Checks]

IsRegistry(r) == r = [f \in DOMAIN Types |-> r[f]] /\ \A f \in DOMAIN Types : r[f] \in FlagOf(f)

\* A text that a flag may be given: any, if the flag reads it, and a known one, if it keeps it.
Suits(f, text) == Types[f] = "string" => text \in Texts

LEMMA FindsFlags ==
  ASSUME NEW name
  PROVE  FindFlagLocked(name) \subseteq DOMAIN Types
BY DEF FindFlagLocked

\* What a flag takes for its value is of its type.
LEMMA ParsedIs ==
  ASSUME NEW f \in DOMAIN Types, NEW text, Suits(f, text)
  PROVE  ParseFrom(Types[f], text) \subseteq ValuesOf(f)
<1>1. Types[f] \in {"bool", "string"} \union DOMAIN Integers
  BY FlagAssumption
<1>2. \A t \in DOMAIN Integers : t # "bool" /\ t # "string"
  BY FlagsAssumption
<1>3. CASE Types[f] = "bool"
  BY <1>3 DEF ParseFrom, ValuesOf
<1>4. CASE Types[f] = "string"
  BY <1>4 DEF ParseFrom, ValuesOf, Suits
<1>5. CASE Types[f] \in DOMAIN Integers
  <2>1. Types[f] # "bool" /\ Types[f] # "string"
    BY <1>2, <1>5
  <2>2. ValuesOf(f) = Integers[Types[f]]
    BY <2>1 DEF ValuesOf
  <2>3. ParseFrom(Types[f], text) =
          IF text \in DOMAIN Whole THEN {Whole[text]} \cap Integers[Types[f]] ELSE {}
    BY <2>1 DEF ParseFrom
  <2> QED
    BY <2>2, <2>3
<1> QED
  BY <1>1, <1>3, <1>4, <1>5

\* The flags that an argument or a line sets are there, and the text suits them.
LEMMA SplitIs ==
  ASSUME NEW arg \in DOMAIN Shape
  PROVE  LET split == SplitArgumentLocked(arg)
         IN  /\ split.flag \subseteq DOMAIN Types
             /\ \A f \in split.flag, text \in split.value : Suits(f, text)
<1> DEFINE s        == Shape[arg]
           found    == FindFlagLocked(s.key)
           positive == IF s.key \in DOMAIN Positive
                         THEN {f \in FindFlagLocked(Positive[s.key]) : Types[f] = "bool"} ELSE {}
           split    == SplitArgumentLocked(arg)
<1>1. found \subseteq DOMAIN Types
  BY FindsFlags
<1>2. positive \subseteq DOMAIN Types /\ \A f \in positive : Types[f] = "bool"
  BY FindsFlags
<1>3. s.value \subseteq Texts
  BY FlagsAssumption
<1>4. CASE found # {}
  <2>1. split = [flag |-> found, key |-> s.key,
                 value |-> IF s.value = {} /\ \A f \in found : Types[f] = "bool"
                             THEN {"1"} ELSE s.value]
    BY <1>4 DEF SplitArgumentLocked
  <2>2. CASE s.value = {} /\ \A f \in found : Types[f] = "bool"
    BY <1>1, <2>1, <2>2 DEF Suits
  <2>3. CASE ~(s.value = {} /\ \A f \in found : Types[f] = "bool")
    BY <1>1, <1>3, <2>1, <2>3 DEF Suits
  <2> QED
    BY <2>2, <2>3
<1>5. CASE found = {} /\ positive # {}
  <2>1. split = [flag |-> positive, key |-> Positive[s.key], value |-> {"0"}]
    BY <1>5 DEF SplitArgumentLocked
  <2> QED
    BY <1>2, <2>1 DEF Suits
<1>6. CASE found = {} /\ positive = {}
  <2>1. split = [flag |-> {}, key |-> s.key, value |-> s.value]
    BY <1>6 DEF SplitArgumentLocked
  <2> QED
    BY <2>1
<1> QED
  BY <1>4, <1>5, <1>6

\* Setting one flag of a registry leaves a registry.
LEMMA SetFlagKeeps ==
  ASSUME NEW r, IsRegistry(r), NEW f \in DOMAIN Types, NEW text, Suits(f, text), NEW how
  PROVE  IsRegistry(SetFlagLocked(r, f, text, how).flags)
<1> DEFINE flag == UpdateModifiedBit(r[f])
           new  == TryParseLocked(f, flag, text)
           kept == how = "SET_FLAG_IF_DEFAULT" /\ flag.modified
           v    == CHOOSE value \in new : TRUE
           set  == CASE how = "SET_FLAGS_DEFAULT" ->
                          [flag EXCEPT !.default = v, !.current = IF flag.modified THEN @ ELSE v]
                     [] OTHER -> [flag EXCEPT !.current = v, !.modified = TRUE]
           left == IF kept \/ new = {} THEN flag ELSE set
<1>1. SetFlagLocked(r, f, text, how).flags = [r EXCEPT ![f] = left]
  BY DEF SetFlagLocked
<1>2. r[f] \in FlagOf(f)
  BY DEF IsRegistry
<1>3. flag \in FlagOf(f)
  BY <1>2 DEF UpdateModifiedBit, FlagOf
<1>4. new # {} => v \in ValuesOf(f)
  <2>1. new \subseteq ParseFrom(Types[f], text)
    BY DEF TryParseLocked
  <2>2. new \subseteq ValuesOf(f)
    BY <2>1, ParsedIs
  <2> QED
    BY <2>2
<1> HIDE DEF flag, new, kept, v
<1>5. new # {} => set \in FlagOf(f)
  <2>1. CASE how = "SET_FLAGS_DEFAULT"
    <3>1. set = [flag EXCEPT !.default = v, !.current = IF flag.modified THEN @ ELSE v]
      BY <2>1
    <3> QED
      BY <1>3, <1>4, <3>1 DEF FlagOf
  <2>2. CASE how # "SET_FLAGS_DEFAULT"
    <3>1. set = [flag EXCEPT !.current = v, !.modified = TRUE]
      BY <2>2
    <3> QED
      BY <1>3, <1>4, <3>1 DEF FlagOf
  <2> QED
    BY <2>1, <2>2
<1>6. left \in FlagOf(f)
  BY <1>3, <1>5
<1> HIDE DEF left
<1>7. IsRegistry([r EXCEPT ![f] = left])
  BY <1>6 DEF IsRegistry
<1> QED
  BY <1>1, <1>7

\* What the program assigns, and validate functions, do too.
LEMMA AssignedKeeps ==
  ASSUME NEW r, IsRegistry(r), NEW f \in DOMAIN Types, NEW value \in ValuesOf(f)
  PROVE  IsRegistry(Assigned(r, f, value))
<1>1. r[f] \in FlagOf(f)
  BY DEF IsRegistry
<1> DEFINE new == [r[f] EXCEPT !.current = value]
<1>2. new \in FlagOf(f)
  BY <1>1 DEF FlagOf
<1>3. Assigned(r, f, value) = [r EXCEPT ![f] = new]
  BY DEF Assigned
<1> HIDE DEF new
<1> QED
  BY <1>2, <1>3 DEF IsRegistry

LEMMA ValidatedKeeps ==
  ASSUME NEW r, IsRegistry(r), NEW f, NEW validator \in Checks
  PROVE  IsRegistry(Validated(r, f, validator))
<1> DEFINE new == [r[f] EXCEPT !.validator = validator]
<1>1. CASE f \in DOMAIN Types
  <2>1. r[f] \in FlagOf(f)
    BY <1>1 DEF IsRegistry
  <2>2. new \in FlagOf(f)
    BY <2>1 DEF FlagOf
  <2>3. Validated(r, f, validator) = r \/ Validated(r, f, validator) = [r EXCEPT ![f] = new]
    BY DEF Validated
  <2> HIDE DEF new
  <2> QED
    BY <1>1, <2>2, <2>3 DEF IsRegistry
<1>2. CASE f \notin DOMAIN Types
  <2>1. DOMAIN r = DOMAIN Types
    BY DEF IsRegistry
  <2>2. Validated(r, f, validator) = r \/ Validated(r, f, validator) = [r EXCEPT ![f] = new]
    BY DEF Validated
  <2> HIDE DEF new
  <2>3. [r EXCEPT ![f] = new] = r
    BY <1>2, <2>1 DEF IsRegistry
  <2> QED
    BY <2>2, <2>3
<1> QED
  BY <1>1, <1>2

LEMMA RestoredKeeps ==
  ASSUME NEW r, IsRegistry(r), NEW backup, IsRegistry(backup)
  PROVE  IsRegistry(RestoreToRegistry(r, backup))
<1>1. DOMAIN r = DOMAIN Types
  BY DEF IsRegistry
<1>2. RestoreToRegistry(r, backup) = [f \in DOMAIN Types |-> backup[f]]
  BY <1>1 DEF RestoreToRegistry, CopyFrom
<1> QED
  BY <1>2 DEF IsRegistry

LEMMA RegisteredIs == IsRegistry(Registered)
<1> SUFFICES ASSUME NEW f \in DOMAIN Types
             PROVE  Registered[f] \in FlagOf(f)
  BY DEF IsRegistry, Registered
<1>1. Defaults[f] \in ValuesOf(f)
  BY FlagsAssumption
<1> QED
  BY <1>1 DEF Registered, FlagOf, Checks

----------------------------------------------------------------------------
(* The parser.                                                             *)

AllPieces == UNION {Range(Pieces[t]) : t \in DOMAIN Pieces}
Arguments == DOMAIN Shape \intersect Texts
ListFrames == [is : {"expand", "files", "env"}, flag : Recursive, items : Seq(AllPieces),
               relevant : BOOLEAN, naming : BOOLEAN]
LineFrames == [is : {"lines"}, flag : {""}, items : Seq(DOMAIN Shape),
               relevant : BOOLEAN, naming : BOOLEAN]
FrameSet   == ListFrames \union LineFrames

\* The flags are of their types, now and in what was saved; so is all that is to be read.
FlagsInv == /\ IsRegistry(flags)
            /\ undo # << >> => IsRegistry(undo[1])
TextsInv == /\ argv \in Seq(Arguments) /\ rest \in Seq(Arguments)
            /\ \A f \in DOMAIN files : files[f] \in Seq(DOMAIN Shape)
            /\ \A v \in DOMAIN env : env[v] \in Texts
\* There is something on the stack only within a call.
StackInv == /\ todo \in Seq(FrameSet)
            /\ todo # << >> => pc \in {"arguments", "option", "string"}
ParserInv == FlagsInv /\ TextsInv /\ StackInv

LEMMA StackKeeps ==
  ASSUME NEW frames \in Seq(FrameSet), Stack(frames), pc \in {"arguments", "option", "string"}
  PROVE  StackInv'
<1>1. CASE Len(frames) > MaxDepth
  <2>1. todo' = << >>
    BY <1>1 DEF Stack
  <2> QED
    BY <2>1 DEF StackInv
<1>2. CASE ~(Len(frames) > MaxDepth)
  <2>1. todo' = frames /\ pc' = pc
    BY <1>2 DEF Stack
  <2> QED
    BY <2>1 DEF StackInv
<1> QED
  BY <1>1, <1>2

LEMMA Below ==
  ASSUME NEW S, NEW s \in Seq(S), s # << >>
  PROVE  /\ s[1] \in S /\ Head(s) \in S /\ Tail(s) \in Seq(S)
         /\ \A frame \in S : <<frame>> \o Tail(s) \in Seq(S) /\ [s EXCEPT ![1] = frame] \in Seq(S)
OBVIOUS

LEMMA NotEmpty ==
  ASSUME NEW S, NEW s \in Seq(S), Len(s) >= 1
  PROVE  s # << >>
OBVIOUS

\* The stack when the innermost call has gone on by one item.
LEMMA PoppedIs ==
  ASSUME todo \in Seq(FrameSet), todo # << >>, Top.items # << >>
  PROVE  /\ Top \in FrameSet /\ Popped \in Seq(FrameSet)
         /\ Top.is = "lines" =>
              /\ Head(Top.items) \in DOMAIN Shape
              /\ \A naming \in BOOLEAN, relevant \in BOOLEAN :
                   /\ [Popped EXCEPT ![1].naming = naming] \in Seq(FrameSet)
                   /\ [Popped EXCEPT ![1].naming = naming, ![1].relevant = relevant] \in Seq(FrameSet)
         /\ Top.is \in {"files", "env"} => Head(Top.items) \in AllPieces
<1> DEFINE popped == [Top EXCEPT !.items = Tail(@)]
<1>1. Top \in FrameSet
  BY Below DEF Top
<1>2. /\ popped \in FrameSet
      /\ popped.is = Top.is
      /\ Top.is = "lines" => Head(Top.items) \in DOMAIN Shape
      /\ Top.is \in {"files", "env"} => Head(Top.items) \in AllPieces
  <2>1. CASE Top \in ListFrames
    <3>1. Top.items \in Seq(AllPieces) /\ Top.is # "lines"
      BY <2>1 DEF ListFrames
    <3>2. Tail(Top.items) \in Seq(AllPieces) /\ Head(Top.items) \in AllPieces
      BY <3>1, Below
    <3>3. popped \in ListFrames /\ popped.is = Top.is
      BY <2>1, <3>2 DEF ListFrames
    <3> QED
      BY <3>1, <3>2, <3>3 DEF FrameSet
  <2>2. CASE Top \in LineFrames
    <3>1. Top.items \in Seq(DOMAIN Shape) /\ Top.is = "lines"
      BY <2>2 DEF LineFrames
    <3>2. Tail(Top.items) \in Seq(DOMAIN Shape) /\ Head(Top.items) \in DOMAIN Shape
      BY <3>1, Below
    <3>3. popped \in LineFrames /\ popped.is = Top.is
      BY <2>2, <3>2 DEF LineFrames
    <3> QED
      BY <3>1, <3>2, <3>3 DEF FrameSet
  <2> QED
    BY <1>1, <2>1, <2>2 DEF FrameSet
<1>3. Popped = [todo EXCEPT ![1] = popped]
  BY DEF Popped, Top
<1>4. 1 \in DOMAIN todo
  OBVIOUS
<1> HIDE DEF popped
<1>5. ASSUME NEW naming \in BOOLEAN, NEW relevant \in BOOLEAN
      PROVE  /\ [Popped EXCEPT ![1].naming = naming] \in Seq(FrameSet)
             /\ [Popped EXCEPT ![1].naming = naming, ![1].relevant = relevant] \in Seq(FrameSet)
  <2>1. /\ [popped EXCEPT !.naming = naming] \in FrameSet
        /\ [popped EXCEPT !.naming = naming, !.relevant = relevant] \in FrameSet
    BY <1>2 DEF FrameSet, ListFrames, LineFrames
  <2>2. [Popped EXCEPT ![1].naming = naming] = [todo EXCEPT ![1] = [popped EXCEPT !.naming = naming]]
    BY <1>3, <1>4
  <2>3. [Popped EXCEPT ![1].naming = naming, ![1].relevant = relevant]
          = [todo EXCEPT ![1] = [popped EXCEPT !.naming = naming, !.relevant = relevant]]
    BY <1>3, <1>4
  <2> QED
    BY <2>1, <2>2, <2>3, Below
<1> QED
  BY <1>1, <1>2, <1>3, <1>5, Below

LEMMA FramesAre ==
  /\ \A f \in Recursive : Expand(f) \in FrameSet
  /\ \A lines \in Seq(DOMAIN Shape) : Lines(lines) \in FrameSet
  /\ \A f \in Recursive, pieces \in Seq(AllPieces), is \in {"files", "env"} :
       Frame(is, f, pieces) \in FrameSet
<1>1. << >> \in Seq(AllPieces)
  OBVIOUS
<1> QED
  BY <1>1 DEF Expand, Lines, Frame, FrameSet, ListFrames, LineFrames

LEMMA Pushed ==
  ASSUME NEW frame \in FrameSet, NEW stack \in Seq(FrameSet)
  PROVE  <<frame>> \o stack \in Seq(FrameSet)
OBVIOUS

\* The parser sets a flag, and may have to expand it.
LEMMA OptionKeeps ==
  ASSUME IsRegistry(flags), pc \in {"arguments", "option", "string"},
         NEW f \in DOMAIN Types, NEW text, Suits(f, text), NEW stack \in Seq(FrameSet),
         ProcessSingleOptionLocked(f, text, stack)
  PROVE  IsRegistry(flags)' /\ StackInv'
<1> DEFINE result == SetFlagLocked(flags, f, text, mode)
           frames == IF f \in Recursive /\ ~result.refused THEN <<Expand(f)>> \o stack ELSE stack
<1>1. flags' = result.flags /\ Stack(frames)
  BY DEF ProcessSingleOptionLocked
<1>2. IsRegistry(result.flags)
  BY SetFlagKeeps
<1>3. f \in Recursive => <<Expand(f)>> \o stack \in Seq(FrameSet)
  BY FramesAre, Pushed
<1> HIDE DEF result
<1>4. frames \in Seq(FrameSet)
  BY <1>3
<1> HIDE DEF frames
<1>5. StackInv'
  BY <1>1, <1>4, StackKeeps
<1> QED
  BY <1>1, <1>2, <1>5 DEF IsRegistry

\* The texts stay, and so do the flags that were saved.
LEMMA StillKeeps ==
  ASSUME FlagsInv, TextsInv, Still
  PROVE  /\ IsRegistry(flags)' => FlagsInv'
         /\ UNCHANGED flags => FlagsInv'
         /\ rest' \in Seq(Arguments) => TextsInv'
<1>1. UNCHANGED <<files, env, argv, undo>>
  BY DEF Still
<1>2. IsRegistry(flags)' => FlagsInv'
  BY <1>1 DEF FlagsInv, IsRegistry
<1>3. UNCHANGED flags => IsRegistry(flags)'
  BY DEF FlagsInv, IsRegistry
<1>4. rest' \in Seq(Arguments) => TextsInv'
  BY <1>1 DEF TextsInv
<1> QED
  BY <1>2, <1>3, <1>4

\* The values of a flag that names further texts are texts with known pieces.
LEMMA ExpandedIs ==
  ASSUME IsRegistry(flags), NEW f \in Recursive
  PROVE  /\ flags[f].current \in Texts
         /\ flags[f].current # "" => Pieces[flags[f].current] \in Seq(AllPieces)
<1>1. f \in DOMAIN Types /\ Types[f] = "string"
  BY FlagsAssumption
<1>2. flags[f].current \in ValuesOf(f)
  BY <1>1 DEF IsRegistry, FlagOf
<1>3. ValuesOf(f) = Texts
  BY <1>1 DEF ValuesOf
<1>4. ASSUME NEW text \in DOMAIN Pieces
      PROVE  Pieces[text] \in Seq(AllPieces)
  <2>1. Pieces[text] \in Seq(Range(Pieces[text]))
    BY TextsAssumption
  <2>2. Range(Pieces[text]) \subseteq AllPieces
    BY DEF AllPieces
  <2>3. \A S, T, q : q \in Seq(S) /\ S \subseteq T => q \in Seq(T)
    OBVIOUS
  <2> QED
    BY <2>1, <2>2, <2>3
<1> QED
  BY <1>2, <1>3, <1>4 DEF Texts

LEMMA ExpandFlagKeeps == ASSUME ParserInv, ExpandFlag PROVE ParserInv'
<1> DEFINE text  == flags[Top.flag].current
           frame == Frame(IF Top.flag = "flagfile" THEN "files" ELSE "env", Top.flag, Pieces[text])
<1>1. /\ todo \in Seq(FrameSet) /\ todo # << >> /\ Top.is = "expand"
      /\ pc \in {"arguments", "option", "string"}
  BY DEF ExpandFlag, ParserInv, StackInv
<1>2. Top \in FrameSet /\ Tail(todo) \in Seq(FrameSet)
  BY <1>1, Below DEF Top
<1>3. Top.flag \in Recursive
  BY <1>1, <1>2 DEF FrameSet, ListFrames, LineFrames
<1>4. Stack(Tail(todo)) \/ Exit \/ (text # "" /\ Stack(<<frame>> \o Tail(todo)))
  BY DEF ExpandFlag
<1>5. Stack(Tail(todo)) => StackInv'
  BY <1>1, <1>2, StackKeeps
<1>6. Exit => StackInv'
  BY DEF Exit, StackInv
<1>7. ASSUME text # "", Stack(<<frame>> \o Tail(todo)) PROVE StackInv'
  <2>1. Pieces[text] \in Seq(AllPieces)
    BY <1>3, <1>7, ExpandedIs DEF ParserInv, FlagsInv
  <2>2. frame \in FrameSet
    BY <1>3, <2>1, FramesAre
  <2> HIDE DEF frame
  <2>3. <<frame>> \o Tail(todo) \in Seq(FrameSet)
    BY <1>2, <2>2, Pushed
  <2> QED
    BY <1>1, <1>7, <2>3, StackKeeps
<1>8. StackInv'
  BY <1>4, <1>5, <1>6, <1>7
<1>9. FlagsInv' /\ TextsInv'
  <2>1. Still /\ UNCHANGED <<flags, rest>>
    BY DEF ExpandFlag, Unset
  <2>2. rest' \in Seq(Arguments)
    BY <2>1 DEF ParserInv, TextsInv
  <2> QED
    BY <2>1, <2>2, StillKeeps DEF ParserInv
<1> QED
  BY <1>8, <1>9 DEF ParserInv

LEMMA ReadFileKeeps == ASSUME ParserInv, ReadFile PROVE ParserInv'
<1> DEFINE name == Head(Top.items)
<1>1. /\ todo \in Seq(FrameSet) /\ todo # << >> /\ Top.items # << >>
      /\ pc \in {"arguments", "option", "string"}
  BY DEF ReadFile, ParserInv, StackInv
<1>2. Popped \in Seq(FrameSet)
  BY <1>1, PoppedIs
<1>3. ASSUME name \in DOMAIN files PROVE StackInv'
  <2>1. Stack(<<Lines(files[name])>> \o Popped)
    BY <1>3 DEF ReadFile
  <2>2. Lines(files[name]) \in FrameSet
    BY <1>3, FramesAre DEF ParserInv, TextsInv
  <2>3. <<Lines(files[name])>> \o Popped \in Seq(FrameSet)
    BY <1>2, <2>2, Pushed
  <2> QED
    BY <1>1, <2>1, <2>3, StackKeeps
<1>4. ASSUME name \notin DOMAIN files PROVE StackInv'
  BY <1>4 DEF ReadFile, Exit, StackInv
<1>5. FlagsInv' /\ TextsInv'
  <2>1. Still /\ UNCHANGED <<flags, rest>>
    BY DEF ReadFile, Unset
  <2>2. rest' \in Seq(Arguments)
    BY <2>1 DEF ParserInv, TextsInv
  <2> QED
    BY <2>1, <2>2, StillKeeps DEF ParserInv
<1> QED
  BY <1>3, <1>4, <1>5 DEF ParserInv

LEMMA ReadVariableKeeps == ASSUME ParserInv, ReadVariable PROVE ParserInv'
<1> DEFINE name == Head(Top.items)
           Error == /\ error_flags' = error_flags \union {name}
                    /\ Stack(Popped) /\ UNCHANGED flags
<1>1. /\ todo \in Seq(FrameSet) /\ todo # << >> /\ Top.items # << >>
      /\ pc \in {"arguments", "option", "string"} /\ IsRegistry(flags)
  BY DEF ReadVariable, ParserInv, StackInv, FlagsInv
<1>2. Popped \in Seq(FrameSet)
  BY <1>1, PoppedIs
<1>3. \/ Stack(Popped) /\ UNCHANGED flags
      \/ /\ name \in DOMAIN env
         /\ \E f \in FindFlagLocked(name) : ProcessSingleOptionLocked(f, env[name], Popped)
  BY DEF ReadVariable, Unset
<1>4. Still /\ UNCHANGED rest
  BY DEF ReadVariable
<1>5. rest' \in Seq(Arguments)
  BY <1>4 DEF ParserInv, TextsInv
<1>6. ASSUME Stack(Popped), UNCHANGED flags PROVE ParserInv'
  <2>1. StackInv'
    BY <1>1, <1>2, <1>6, StackKeeps
  <2>2. FlagsInv' /\ TextsInv'
    BY <1>4, <1>5, <1>6, StillKeeps DEF ParserInv
  <2> QED
    BY <2>1, <2>2 DEF ParserInv
<1>7. ASSUME name \in DOMAIN env, NEW f \in FindFlagLocked(name),
             ProcessSingleOptionLocked(f, env[name], Popped)
      PROVE  ParserInv'
  <2>1. f \in DOMAIN Types
    BY <1>7, FindsFlags
  <2>2. Suits(f, env[name])
    BY <1>7 DEF ParserInv, TextsInv, Suits
  <2>3. IsRegistry(flags)' /\ StackInv'
    BY <1>1, <1>2, <1>7, <2>1, <2>2, OptionKeeps
  <2>4. FlagsInv' /\ TextsInv'
    BY <1>4, <1>5, <2>3, StillKeeps DEF ParserInv
  <2> QED
    BY <2>3, <2>4 DEF ParserInv
<1> QED
  BY <1>3, <1>6, <1>7

LEMMA ReadLineKeeps == ASSUME ParserInv, ReadLine PROVE ParserInv'
<1> DEFINE line  == Shape[Head(Top.items)]
           split == SplitArgumentLocked(Head(Top.items))
           Next1 == [Popped EXCEPT ![1].naming = FALSE]
           Next2 == [Popped EXCEPT ![1].naming = TRUE,
                                   ![1].relevant = (Top.naming /\ @) \/ line.is = "program"]
<1>1. /\ todo \in Seq(FrameSet) /\ todo # << >> /\ Top.items # << >> /\ Top.is = "lines"
      /\ pc \in {"arguments", "option", "string"} /\ IsRegistry(flags)
  BY DEF ReadLine, ParserInv, StackInv, FlagsInv
<1>2. /\ Popped \in Seq(FrameSet) /\ Head(Top.items) \in DOMAIN Shape
      /\ \A naming \in BOOLEAN, relevant \in BOOLEAN :
           /\ [Popped EXCEPT ![1].naming = naming] \in Seq(FrameSet)
           /\ [Popped EXCEPT ![1].naming = naming, ![1].relevant = relevant] \in Seq(FrameSet)
  BY <1>1, PoppedIs
<1>3. Next1 \in Seq(FrameSet) /\ Next2 \in Seq(FrameSet)
  <2>1. Next1 \in Seq(FrameSet)
    BY <1>2
  <2> DEFINE relevant == (Top.naming /\ Popped[1].relevant) \/ line.is = "program"
  <2>2. Next2 = [Popped EXCEPT ![1].naming = TRUE, ![1].relevant = relevant]
    OBVIOUS
  <2>3. relevant \in BOOLEAN
    OBVIOUS
  <2> HIDE DEF relevant
  <2> QED
    BY <1>2, <2>1, <2>2, <2>3
<1>4. \/ \E f \in split.flag, text \in split.value : ProcessSingleOptionLocked(f, text, Next1)
      \/ (Stack(Popped) \/ Stack(Next1) \/ Stack(Next2)) /\ UNCHANGED flags
  BY DEF ReadLine, Unset
<1>5. Still /\ UNCHANGED rest
  BY DEF ReadLine
<1>6. rest' \in Seq(Arguments)
  BY <1>5 DEF ParserInv, TextsInv
<1> HIDE DEF Next1, Next2
<1>7. ASSUME NEW frames \in Seq(FrameSet), Stack(frames), UNCHANGED flags PROVE ParserInv'
  <2>1. StackInv'
    BY <1>1, <1>7, StackKeeps
  <2>2. FlagsInv' /\ TextsInv'
    BY <1>5, <1>6, <1>7, StillKeeps DEF ParserInv
  <2> QED
    BY <2>1, <2>2 DEF ParserInv
<1>8. ASSUME NEW f \in split.flag, NEW text \in split.value,
             ProcessSingleOptionLocked(f, text, Next1)
      PROVE  ParserInv'
  <2>1. f \in DOMAIN Types /\ Suits(f, text)
    BY <1>2, <1>8, SplitIs
  <2>2. IsRegistry(flags)' /\ StackInv'
    BY <1>1, <1>3, <1>8, <2>1, OptionKeeps
  <2>3. FlagsInv' /\ TextsInv'
    BY <1>5, <1>6, <2>2, StillKeeps DEF ParserInv
  <2> QED
    BY <2>2, <2>3 DEF ParserInv
<1> QED
  BY <1>2, <1>3, <1>4, <1>7, <1>8

LEMMA ReadFlagKeeps == ASSUME ParserInv, ReadFlag PROVE ParserInv'
<1> DEFINE arg   == Head(rest)
           split == SplitArgumentLocked(arg)
           text  == IF split.value # {} THEN split.value ELSE {rest[i] : i \in {2} \cap DOMAIN rest}
<1>1. /\ todo = << >> /\ pc = "arguments" /\ IsRegistry(flags)
      /\ rest \in Seq(Arguments) /\ rest # << >>
  BY DEF ReadFlag, Argument, ParserInv, StackInv, FlagsInv, TextsInv
<1>2. arg \in Arguments /\ Tail(rest) \in Seq(Arguments)
  BY <1>1, Below
<1>3. split.flag \subseteq DOMAIN Types /\ \A f \in split.flag, t \in split.value : Suits(f, t)
  BY <1>2, SplitIs DEF Arguments
<1>4. \A i \in {2} \cap DOMAIN rest : rest[i] \in Texts
  BY <1>1 DEF Arguments
<1>5. \A f \in split.flag, t \in text : Suits(f, t)
  BY <1>3, <1>4 DEF Suits
<1>6. /\ Still
      /\ rest' \in {Tail(rest), << >>} \/ (split.value = {} /\ text # {} /\ rest' = Tail(Tail(rest)))
      /\ \/ UNCHANGED <<flags, pc, todo>>
         \/ \E f \in split.flag, t \in text : ProcessSingleOptionLocked(f, t, << >>)
  BY DEF ReadFlag
<1>7. rest' \in Seq(Arguments)
  <2>1. << >> \in Seq(Arguments)
    OBVIOUS
  <2>2. split.value = {} /\ text # {} => Tail(Tail(rest)) \in Seq(Arguments)
    <3> SUFFICES ASSUME split.value = {}, text # {} PROVE Tail(Tail(rest)) \in Seq(Arguments)
      OBVIOUS
    <3>1. 2 \in DOMAIN rest
      OBVIOUS
    <3>2. Tail(rest) # << >>
      <4> HIDE DEF split, text
      <4>1. Len(rest) >= 2 /\ Len(Tail(rest)) = Len(rest) - 1
        BY <1>1, <3>1
      <4>2. Len(Tail(rest)) >= 1
        BY <1>1, <4>1
      <4> QED
        BY <1>2, <4>2, NotEmpty
    <3> QED
      BY <1>2, <3>2, Below
  <2> QED
    BY <1>2, <1>6, <2>1, <2>2
<1>8. ASSUME UNCHANGED <<flags, pc, todo>> PROVE ParserInv'
  <2>1. FlagsInv' /\ TextsInv'
    BY <1>6, <1>7, <1>8, StillKeeps DEF ParserInv
  <2>2. StackInv'
    BY <1>8 DEF ParserInv, StackInv
  <2> QED
    BY <2>1, <2>2 DEF ParserInv
<1>9. ASSUME NEW f \in split.flag, NEW t \in text, ProcessSingleOptionLocked(f, t, << >>)
      PROVE  ParserInv'
  <2>1. << >> \in Seq(FrameSet)
    OBVIOUS
  <2>2. f \in DOMAIN Types /\ Suits(f, t)
    BY <1>3, <1>5, <1>9
  <2>3. IsRegistry(flags)' /\ StackInv'
    BY <1>1, <1>9, <2>1, <2>2, OptionKeeps
  <2>4. FlagsInv' /\ TextsInv'
    BY <1>6, <1>7, <2>3, StillKeeps DEF ParserInv
  <2> QED
    BY <2>3, <2>4 DEF ParserInv
<1> QED
  BY <1>6, <1>8, <1>9

\* What the parser does beside reading: nothing is pushed, and the flags change only when
\* they are brought back.
LEMMA OtherStepKeeps ==
  ASSUME ParserInv,
         Return \/ ReadWord \/ ReadEnd \/ EndArguments \/ EndString \/ EndOption \/ ReportErrors
  PROVE  ParserInv'
<1>1. /\ rest \in Seq(Arguments) /\ todo \in Seq(FrameSet)
      /\ todo # << >> => pc \in {"arguments", "option", "string"} /\ Tail(todo) \in Seq(FrameSet)
  BY Below DEF ParserInv, TextsInv, StackInv
<1>2. ASSUME Still, UNCHANGED flags, rest' \in Seq(Arguments), StackInv' PROVE ParserInv'
  BY <1>2, StillKeeps DEF ParserInv
<1>3. CASE Return
  <2>1. StackInv'
    BY <1>1, <1>3 DEF Return, StackInv
  <2> QED
    BY <1>1, <1>2, <1>3, <2>1 DEF Return, Unset
<1>4. CASE ReadWord
  <2>1. Still /\ UNCHANGED <<flags, pc, todo>> /\ rest # << >> /\ rest' = Tail(rest)
    BY <1>4 DEF ReadWord, Unset, Argument
  <2>2. rest' \in Seq(Arguments)
    BY <1>1, <2>1, Below
  <2>3. StackInv'
    BY <1>1, <2>1 DEF StackInv
  <2> QED
    BY <1>2, <2>1, <2>2, <2>3
<1>5. CASE ReadEnd
  <2>1. Still /\ UNCHANGED <<flags, pc, todo>> /\ rest' = << >>
    BY <1>5 DEF ReadEnd, Unset
  <2>2. rest' \in Seq(Arguments)
    BY <2>1
  <2>3. StackInv'
    BY <1>1, <2>1 DEF StackInv
  <2> QED
    BY <1>2, <2>1, <2>2, <2>3
<1>6. CASE EndArguments
  <2>1. Still /\ UNCHANGED <<flags, rest, todo>> /\ todo = << >>
    BY <1>6 DEF EndArguments
  <2>2. StackInv'
    BY <2>1 DEF StackInv
  <2> QED
    BY <1>1, <1>2, <2>1, <2>2
<1>7. CASE EndString \/ EndOption
  <2>1. Still /\ UNCHANGED <<flags, rest, todo>> /\ todo = << >>
    BY <1>7 DEF EndString, EndOption, Unset
  <2>2. StackInv'
    BY <2>1 DEF StackInv
  <2> QED
    BY <1>1, <1>2, <2>1, <2>2
<1>8. CASE ReportErrors
  <2>1. /\ pc = "report" /\ undo' = << >> /\ UNCHANGED <<files, env, argv, rest, todo>>
        /\ \/ UNCHANGED flags
           \/ undo # << >> /\ flags' = RestoreToRegistry(flags, undo[1])
    BY <1>8 DEF ReportErrors
  <2>2. StackInv'
    BY <1>1, <2>1 DEF StackInv
  <2>3. TextsInv'
    BY <2>1 DEF ParserInv, TextsInv
  <2>4. undo # << >> => IsRegistry(RestoreToRegistry(flags, undo[1]))
    BY RestoredKeeps DEF ParserInv, FlagsInv
  <2>5. IsRegistry(flags)'
    BY <2>1, <2>4 DEF ParserInv, FlagsInv, IsRegistry
  <2> QED
    BY <2>1, <2>2, <2>3, <2>5 DEF ParserInv, FlagsInv
<1> QED
  BY <1>3, <1>4, <1>5, <1>6, <1>7, <1>8

\* The parser steps only within a call.
LEMMA ParserStepKeeps ==
  ASSUME ParserInv, ParserStep
  PROVE  ParserInv' /\ pc # "client"
<1>1. pc # "client"
  <2>1. todo # << >> => pc # "client"
    BY DEF ParserInv, StackInv
  <2> QED
    BY <2>1 DEF ParserStep, ExpandFlag, ReadFile, ReadVariable, ReadLine, Return, ReadWord, ReadEnd,
                ReadFlag, Argument, EndArguments, EndString, EndOption, ReportErrors
<1> QED
  BY <1>1, ExpandFlagKeeps, ReadFileKeeps, ReadVariableKeeps, ReadLineKeeps, ReadFlagKeeps,
     OtherStepKeeps DEF ParserStep

\* A parser is made.
LEMMA BeginKeeps ==
  ASSUME ParserInv, NEW next \in {"arguments", "option", "string"}, NEW frames \in Seq(FrameSet),
         NEW setMode, Begin(next, frames, setMode), rest' \in Seq(Arguments),
         undo' \in {undo, <<flags>>}
  PROVE  ParserInv'
<1>1. UNCHANGED <<flags, files, env, argv>> /\ pc' = next /\ todo' = frames
  BY DEF Begin
<1>2. StackInv' /\ TextsInv'
  BY <1>1 DEF StackInv, ParserInv, TextsInv
<1>3. IsRegistry(flags)'
  BY <1>1 DEF ParserInv, FlagsInv, IsRegistry
<1>4. (undo # << >> => IsRegistry(undo[1]))'
  BY <1>1 DEF ParserInv, FlagsInv, IsRegistry
<1> QED
  BY <1>2, <1>3, <1>4 DEF ParserInv, FlagsInv

LEMMA CommandLineKeeps ==
  ASSUME ParserInv, NEW help, ParseCommandLineFlags(help)
  PROVE  ParserInv'
<1> DEFINE frames == <<Expand("flagfile"), Expand("fromenv"), Expand("tryfromenv")>>
<1>1. frames \in Seq(FrameSet)
  BY FramesAre DEF Recursive
<1>2. Begin("arguments", frames, "SET_FLAGS_VALUE") /\ rest' = argv /\ undo' = undo
  BY DEF ParseCommandLineFlags
<1>3. rest' \in Seq(Arguments)
  BY <1>2 DEF ParserInv, TextsInv
<1> HIDE DEF frames
<1> QED
  BY <1>1, <1>2, <1>3, BeginKeeps

\* What another client does.
LEMMA ClientCallKeeps == ASSUME ParserInv, ClientCall PROVE ParserInv'
<1> USE DEF ParserInv
<1>0. rest \in Seq(Arguments)
  BY DEF TextsInv
<1>1. ASSUME NEW lines \in Strings, ReadFlagsFromString(lines) PROVE ParserInv'
  <2>1. Lines(lines) \in FrameSet
    BY FlagsAssumption, FramesAre
  <2>2. <<Lines(lines)>> \in Seq(FrameSet)
    BY <2>1
  <2>3. Begin("string", <<Lines(lines)>>, "SET_FLAGS_VALUE") /\ undo' = <<flags>> /\ UNCHANGED rest
    BY <1>1 DEF ReadFlagsFromString
  <2>4. rest' \in Seq(Arguments)
    BY <1>0, <2>3
  <2> QED
    BY <2>2, <2>3, <2>4, BeginKeeps
<1>2. ASSUME Quiet, IsRegistry(flags)', StackInv' PROVE ParserInv'
  <2>1. UNCHANGED <<files, env, argv, rest, undo>>
    BY <1>2 DEF Quiet
  <2>2. TextsInv' /\ (undo # << >> => IsRegistry(undo[1]))'
    BY <2>1 DEF TextsInv, FlagsInv, IsRegistry
  <2> QED
    BY <1>2, <2>2 DEF FlagsInv
<1>3. ASSUME UNCHANGED <<pc, todo>> PROVE StackInv'
  BY <1>3 DEF StackInv
<1>4. ASSUME NEW s \in Settings, SetCommandLineOptionWithMode(s.name, s.text, s.mode) PROVE ParserInv'
  <2>1. PICK f \in FindFlagLocked(s.name) :
          /\ flags' = SetFlagLocked(flags, f, s.text, s.mode).flags
          /\ \/ f \in Recursive /\ pc' = "option" /\ todo' = <<Expand(f)>>
             \/ UNCHANGED <<pc, todo>>
    BY <1>4 DEF SetCommandLineOptionWithMode
  <2>2. f \in DOMAIN Types /\ Suits(f, s.text)
    BY FindsFlags, FlagsAssumption DEF Suits
  <2>3. IsRegistry(SetFlagLocked(flags, f, s.text, s.mode).flags)
    BY <2>2, SetFlagKeeps DEF FlagsInv
  <2>4. IsRegistry(flags)'
    BY <2>1, <2>3 DEF IsRegistry
  <2>5. StackInv'
    <3>1. ASSUME f \in Recursive, pc' = "option", todo' = <<Expand(f)>> PROVE StackInv'
      <4>1. Expand(f) \in FrameSet
        BY <3>1, FramesAre
      <4>2. <<Expand(f)>> \in Seq(FrameSet)
        BY <4>1
      <4> QED
        BY <3>1, <4>2 DEF StackInv
    <3> QED
      BY <1>3, <2>1, <3>1
  <2> QED
    BY <1>2, <1>4, <2>4, <2>5 DEF SetCommandLineOptionWithMode
<1>5. ASSUME NEW f \in DOMAIN Values, NEW v \in Values[f], Assign(f, v) PROVE ParserInv'
  <2>1. f \in DOMAIN Types /\ v \in ValuesOf(f)
    BY FlagsAssumption
  <2>2. IsRegistry(Assigned(flags, f, v))
    BY <2>1, AssignedKeeps DEF FlagsInv
  <2>3. IsRegistry(flags)'
    BY <1>5, <2>2 DEF Assign, IsRegistry
  <2> QED
    BY <1>2, <1>3, <1>5, <2>3 DEF Assign
<1>6. ASSUME NEW v \in Validators, RegisterFlagValidator(v.flag, v.validator) PROVE ParserInv'
  <2>1. v.validator \in Checks
    BY DEF Checks
  <2>2. IsRegistry(Validated(flags, v.flag, v.validator))
    BY <2>1, ValidatedKeeps DEF FlagsInv
  <2>3. IsRegistry(flags)'
    BY <1>6, <2>2 DEF RegisterFlagValidator, IsRegistry
  <2> QED
    BY <1>2, <1>3, <1>6, <2>3 DEF RegisterFlagValidator
<1>7. ASSUME AllowCommandLineReparsing PROVE ParserInv'
  BY <1>7 DEF AllowCommandLineReparsing, calling, FlagsInv, TextsInv, StackInv, IsRegistry
<1> QED
  BY <1>1, <1>4, <1>5, <1>6, <1>7, CommandLineKeeps DEF ClientCall

----------------------------------------------------------------------------
(* What main asks for.                                                     *)

Asked(text) == IF text = "" THEN {} ELSE {Leading[Pieces[text][i]] : i \in DOMAIN Pieces[text]}
Order       == Ascending(Asked(flags["Columns"].current))

\* The numbers in a text are finitely many integers.
LEMMA AskedIs ==
  ASSUME NEW text \in Texts, NEW order \in parser(text)
  PROVE  /\ order = Ascending(Asked(text))
         /\ Asked(text) \in SUBSET Int /\ IsFiniteSet(Asked(text))
<1>1. CASE text = ""
  <2>1. Asked(text) = {} /\ IsFiniteSet({})
    BY <1>1, FS_EmptySet DEF Asked
  <2>2. {Leading[(<< >>)[i]] : i \in DOMAIN << >>} = {}
    OBVIOUS
  <2>3. order = Ascending({Leading[(<< >>)[i]] : i \in DOMAIN << >>})
    BY <1>1 DEF parser
  <2> QED
    BY <2>1, <2>2, <2>3
<1>2. CASE text # ""
  <2> DEFINE pieces == Pieces[text]
  <2>1. text \in DOMAIN Pieces
    BY <1>2 DEF Texts
  <2>2. pieces \in Seq(Range(pieces))
    BY <2>1, TextsAssumption
  <2>3. /\ \A i \in DOMAIN pieces : pieces[i] \in DOMAIN Leading
        /\ order = Ascending({Leading[pieces[i]] : i \in DOMAIN pieces})
    BY <1>2 DEF parser
  <2>4. Asked(text) = {Leading[pieces[i]] : i \in DOMAIN pieces}
    BY <1>2 DEF Asked
  <2>5. Asked(text) \in SUBSET Int
    BY <2>3, <2>4, TextsAssumption
  <2>6. IsFiniteSet(DOMAIN pieces)
    <3>1. DOMAIN pieces = 1..Len(pieces) /\ Len(pieces) \in Nat
      BY <2>2
    <3> QED
      BY <3>1, FS_Interval
  <2>7. IsFiniteSet({Leading[pieces[i]] : i \in DOMAIN pieces})
    <3> DEFINE f == [i \in DOMAIN pieces |-> Leading[pieces[i]]]
    <3>1. f \in Surjection(DOMAIN pieces, {Leading[pieces[i]] : i \in DOMAIN pieces})
      BY DEF Surjection
    <3> HIDE DEF f
    <3> QED
      BY <2>6, <3>1, FS_Surjection
  <2> QED
    BY <2>3, <2>4, <2>5, <2>7
<1> QED
  BY <1>1, <1>2

\* A cell stands for one number at most.
LEMMA OneValue ==
  ASSUME NEW cell, NEW low, NEW high, NEW v \in ToVal(Document, cell, low, high)
  PROVE  ToVal(Document, cell, low, high) = {v}
<1>1. ASSUME NEW u \in Stol(cell, low, high) PROVE Stol(cell, low, high) = {u}
  <2> DEFINE from   == Min({i \in 1..(Len(cell) + 1) : i > Len(cell) \/ cell[i] \notin Space})
             signed == from <= Len(cell) /\ cell[from] \in {"-", "+"}
             first  == IF signed THEN from + 1 ELSE from
             end    == Min({i \in first..(Len(cell) + 1) : i > Len(cell) \/ cell[i] \notin Range(Digits)})
             number == FoldLeft(LAMBDA n, c : 10 * n + DigitOf(c), 0, SubSeq(cell, first, end - 1))
             value  == IF signed /\ cell[from] = "-" THEN -number ELSE number
             legal  == first <= Len(cell) /\ end > first /\ low <= value /\ value <= high
  <2>1. Stol(cell, low, high) = IF legal THEN {value} ELSE {}
    BY Zenon DEF Stol
  <2> HIDE DEF legal, value
  <2> QED
    BY <1>1, <2>1
<1>2. ToVal(Document, cell, low, high) = IF cell = << >> THEN {0} ELSE Stol(cell, low, high)
  BY DEF ToVal, Document
<1> QED
  BY <1>1, <1>2

\* A column that main has read, and that is not empty: the cells below the first row.
LEMMA ColumnIs ==
  ASSUME NEW S, NEW rows \in Seq(S), NEW c \in Int, NEW column \in GetColumn(rows, c), column # << >>
  PROVE  /\ Len(rows) - 1 \in Nat /\ DOMAIN column = 1..(Len(rows) - 1) /\ Len(column) = Len(rows) - 1
         /\ \A r \in DOMAIN column :
              ToVal(Document, rows[r + 1][c + 1], -MaxLong - 1, MaxLong) = {column[r]}
<1> DEFINE below == SubSeq(rows, 2, Len(rows))
           values(cell) == ToVal(Document, cell, -MaxLong - 1, MaxLong)
           cells == IF c >= 0 THEN ColumnOf(rows, LabelParams, c)
                    ELSE IF Len(rows) <= LabelParams.column + 1 THEN {<< >>} ELSE {}
<1>1. PICK k \in cells : /\ \A r \in DOMAIN k : values(k[r]) # {}
                         /\ column = [r \in DOMAIN k |-> CHOOSE v \in values(k[r]) : TRUE]
  BY Zenon DEF GetColumn
<1>2. \A r \in DOMAIN k : values(k[r]) = {column[r]}
  <2> SUFFICES ASSUME NEW r \in DOMAIN k PROVE values(k[r]) = {column[r]}
    OBVIOUS
  <2>1. column[r] \in values(k[r])
    BY <1>1
  <2> QED
    BY <2>1, OneValue
<1>3. DOMAIN column = DOMAIN k
  BY <1>1
<1>4. DOMAIN column # {}
  <2> SUFFICES ASSUME DOMAIN column = {} PROVE column = << >>
    OBVIOUS
  <2>1. column = [r \in {} |-> column[r]]
    BY <1>1
  <2> QED
    BY <2>1
<1>5. c >= 0
  BY <1>1, <1>3, <1>4
<1>6. k = [r \in DOMAIN below |-> below[r][c + 1]]
  BY <1>1, <1>5 DEF ColumnOf, LabelParams
<1>7. DOMAIN below = 1..(Len(rows) - 1)
  OBVIOUS
<1>8. Len(rows) - 1 \in Nat /\ \A r \in 1..(Len(rows) - 1) : below[r] = rows[r + 1]
  BY <1>3, <1>4, <1>6, <1>7
<1> HIDE DEF below, values
<1>9. DOMAIN column = 1..(Len(rows) - 1) /\ Len(column) = Len(rows) - 1
  <2>1. DOMAIN column = 1..(Len(rows) - 1)
    BY <1>3, <1>6, <1>7
  <2>2. column = [r \in 1..(Len(rows) - 1) |-> column[r]]
    BY <1>1, <2>1
  <2>3. Len(column) = Len(rows) - 1
    BY <1>8, <2>2, FunctionIsSeq
  <2> QED
    BY <2>1, <2>3
<1>10. \A r \in DOMAIN column : k[r] = rows[r + 1][c + 1]
  BY <1>6, <1>7, <1>8, <1>9
<1> QED
  BY <1>2, <1>3, <1>8, <1>9, <1>10 DEF values

\* Whole batches fit in, and less than one is left.
LEMMA BatchesFit ==
  ASSUME NEW n \in Nat, NEW size \in Nat \ {0}
  PROVE  /\ n - (n \div size) * size \in 0..(size - 1)
         /\ \A i \in 0..(n \div size - 1), k \in 0..(size - 1) : i * size + k + 1 \in 1..n
<1>1. n = size * (n \div size) + (n % size) /\ n % size \in 0..(size - 1) /\ n \div size \in Int
  BY SMT
<1> DEFINE q == n \div size
<1>2. n - q * size = n % size
  BY <1>1
<1>3. ASSUME NEW i \in 0..(q - 1), NEW k \in 0..(size - 1)
      PROVE  i * size + k + 1 \in 1..n
  <2> HIDE DEF q
  <2>1. q \in Int /\ i + 1 <= q
    BY <1>1 DEF q
  <2>2. (i + 1) * size <= q * size
    BY <2>1
  <2>3. (i + 1) * size = i * size + size
    BY <2>1
  <2>4. i * size \in Nat /\ q * size \in Int
    BY <2>1
  <2>5. i * size + k + 1 <= q * size
    BY <2>2, <2>3, <2>4
  <2>6. q * size <= n
    BY <1>1, <1>2, <2>4 DEF q
  <2> QED
    BY <2>4, <2>5, <2>6
<1> QED
  BY <1>1, <1>2, <1>3

----------------------------------------------------------------------------
(* Main.                                                                   *)

Columns(rows) == UNION {GetColumn(rows, c) : c \in Int}

\* The columns that are read are those asked for, in order; the others are still to be read.
ReadInv ==
  /\ colNumbers = SubSeq(Order, Len(data) + 1, Len(Order)) /\ Len(data) <= Len(Order)
  /\ \E rows \in ReadInput(flags["InputFile"].current) :
       /\ data \in Seq(Columns(rows))
       /\ \A j \in 1..Len(data) : data[j] \in GetColumn(rows, Order[j])

\* There is something to code.
CountInv ==
  /\ colNumbers = << >> /\ data # << >> /\ << >> \notin Range(data)
  /\ flags["BatchSize"].current > 0 => batchNum = Len(data[1]) \div flags["BatchSize"].current

\* The parser does not run any more when main reads what the flags say.
MainInv ==
  /\ stage \in {"start", "parse", "document"} => data = << >>
  /\ stage \in {"document", "columns", "ready"} =>
       /\ pc = "client"
       /\ Asked(flags["Columns"].current) \in SUBSET Int /\ IsFiniteSet(Asked(flags["Columns"].current))
  /\ stage = "document" => colNumbers = Order
  /\ stage \in {"columns", "ready"} => ReadInv
  /\ stage = "ready" => CountInv

IInv == ParserInv /\ MainInv

\* The order of finitely many integers is a sequence of them.
LEMMA OrderIs ==
  ASSUME Asked(flags["Columns"].current) \in SUBSET Int, IsFiniteSet(Asked(flags["Columns"].current))
  PROVE  Order \in Seq(Int) /\ Len(Order) = Cardinality(Asked(flags["Columns"].current))
<1> DEFINE asked == Asked(flags["Columns"].current)
<1>1. Cardinality(asked) \in Nat /\ Order \in [1..Cardinality(asked) -> asked]
  BY AscendingIs DEF Order
<1> HIDE DEF asked
<1>2. asked \subseteq Int
  BY DEF asked
<1>3. Order = [j \in 1..Cardinality(asked) |-> Order[j]] /\ \A j \in 1..Cardinality(asked) : Order[j] \in Int
  BY <1>1, <1>2
<1>4. Order \in Seq(Int) /\ Len(Order) = Cardinality(asked)
  BY <1>1, <1>3, FunctionIsSeq
<1> QED
  BY <1>4 DEF asked

LEMMA MainFlags ==
  ASSUME IsRegistry(flags)
  PROVE  flags["Columns"].current \in Texts /\ flags["InputFile"].current \in Texts
           /\ flags["BatchSize"].current \in Int
<1>1. \A f \in {"Columns", "InputFile"} : f \in DOMAIN Types /\ ValuesOf(f) = Texts
  BY FlagsAssumption DEF ValuesOf
<1>2. "BatchSize" \in DOMAIN Types /\ ValuesOf("BatchSize") \subseteq Int
  BY FlagsAssumption DEF ValuesOf
<1>3. \A f \in DOMAIN Types : flags[f].current \in ValuesOf(f)
  BY DEF IsRegistry, FlagOf
<1> QED
  BY <1>1, <1>2, <1>3

LEMMA Begins == Init => IInv
<1> SUFFICES ASSUME Init PROVE IInv
  OBVIOUS
<1>1. PICK s \in Scenarios : argv = s.argv /\ files = s.files /\ env = s.env /\ stage = s.stage
  BY DEF Init
<1>2. TextsInv
  <2>1. argv \in Seq(Arguments) /\ rest \in Seq(Arguments)
    BY <1>1, FlagsAssumption DEF Init, Arguments
  <2> QED
    BY <1>1, <2>1, FlagsAssumption DEF TextsInv
<1>3. FlagsInv
  BY RegisteredIs DEF Init, FlagsInv
<1>4. StackInv
  BY DEF Init, StackInv
<1>5. stage \in {"start", "client"} /\ data = << >>
  BY <1>1, FlagsAssumption DEF Init
<1>6. MainInv
  BY <1>5 DEF MainInv
<1> QED
  BY <1>2, <1>3, <1>4, <1>6 DEF IInv, ParserInv

\* Main leaves the flags alone.
LEMMA MainSteps ==
  ASSUME IInv, UNCHANGED parserVars
  PROVE  /\ ParserInv' /\ UNCHANGED <<flags, pc>> /\ Order' = Order
         /\ Asked(flags["Columns"].current)' = Asked(flags["Columns"].current)
<1>1. UNCHANGED <<flags, files, env, argv, pc, rest, todo, undo>>
  BY DEF parserVars, calling
<1>2. ParserInv'
  BY <1>1 DEF IInv, ParserInv, FlagsInv, TextsInv, StackInv, IsRegistry
<1> QED
  BY <1>1, <1>2 DEF Order, Asked

LEMMA StartParsingKeeps == ASSUME IInv, StartParsing PROVE IInv'
<1>1. ParserInv'
  BY CommandLineKeeps DEF IInv, StartParsing
<1>2. stage' = "parse" /\ data' = << >>
  BY DEF StartParsing, IInv, MainInv
<1>3. MainInv'
  BY <1>2 DEF MainInv
<1> QED
  BY <1>1, <1>3 DEF IInv

LEMMA ParserKeepsAll ==
  ASSUME IInv, (ParserStep /\ UNCHANGED mainVars) \/ ClientCall
  PROVE  IInv'
<1>1. ParserInv' /\ UNCHANGED <<stage, data>> /\ (stage = "client" \/ pc # "client")
  BY ParserStepKeeps, ClientCallKeeps DEF IInv, ClientCall, Calls, mainVars
<1>2. stage \notin {"document", "columns", "ready"}
  BY <1>1 DEF IInv, MainInv
<1>3. MainInv'
  BY <1>1, <1>2 DEF IInv, MainInv
<1> QED
  BY <1>1, <1>3 DEF IInv

LEMMA ParseColumnsKeeps == ASSUME IInv, ParseColumns PROVE IInv'
<1> DEFINE text == flags["Columns"].current
<1>1. /\ pc = "client" /\ UNCHANGED <<parserVars, data>> /\ stage = "parse"
      /\ (stage' = "document" /\ colNumbers' \in parser(text)) \/ stage' = "terminated"
  BY DEF ParseColumns, Main
<1>2. /\ ParserInv' /\ UNCHANGED <<flags, pc>> /\ Order' = Order /\ data' = << >>
      /\ Asked(flags["Columns"].current)' = Asked(text)
  BY <1>1, MainSteps DEF IInv, MainInv
<1>3. text \in Texts
  BY MainFlags DEF IInv, ParserInv, FlagsInv
<1>4. stage' = "document" => /\ colNumbers' = Order
                             /\ Asked(text) \in SUBSET Int /\ IsFiniteSet(Asked(text))
  <2> HIDE DEF text
  <2> SUFFICES ASSUME stage' = "document"
               PROVE  /\ colNumbers' = Ascending(Asked(text))
                      /\ Asked(text) \in SUBSET Int /\ IsFiniteSet(Asked(text))
    BY DEF Order, text
  <2>1. colNumbers' \in parser(text)
    BY <1>1
  <2> QED
    BY <1>3, <2>1, AskedIs
<1> HIDE DEF text
<1>5. MainInv'
  <2>1. CASE stage' = "document"
    <3>1. /\ Asked(flags["Columns"].current)' \in SUBSET Int
          /\ IsFiniteSet(Asked(flags["Columns"].current)')
          /\ (colNumbers = Order)' /\ pc' = "client"
      BY <1>1, <1>2, <1>4, <2>1
    <3> QED
      BY <1>2, <2>1, <3>1 DEF MainInv
  <2>2. CASE stage' = "terminated"
    BY <2>2 DEF MainInv
  <2> QED
    BY <1>1, <2>1, <2>2
<1> QED
  BY <1>2, <1>5 DEF IInv

LEMMA OpenDocumentKeeps == ASSUME IInv, OpenDocument PROVE IInv'
<1> DEFINE input == ReadInput(flags["InputFile"].current)
<1>1. /\ UNCHANGED <<parserVars, colNumbers, data>> /\ stage = "document"
      /\ stage' = IF input = {} THEN "terminated" ELSE "columns"
  BY DEF OpenDocument, Main
<1>2. /\ ParserInv' /\ UNCHANGED <<flags, pc>> /\ Order' = Order
      /\ Asked(flags["Columns"].current)' = Asked(flags["Columns"].current)
  BY <1>1, MainSteps
<1>3. /\ data = << >> /\ colNumbers = Order /\ pc = "client"
      /\ Asked(flags["Columns"].current) \in SUBSET Int /\ IsFiniteSet(Asked(flags["Columns"].current))
  BY <1>1 DEF IInv, MainInv
<1>4. ReadInv' \/ input = {}
  <2> SUFFICES ASSUME input # {} PROVE ReadInv'
    OBVIOUS
  <2>1. Order \in Seq(Int) /\ Len(Order) \in Nat
    BY <1>3, OrderIs
  <2>2. colNumbers' = SubSeq(Order, Len(data') + 1, Len(Order)) /\ Len(data') <= Len(Order)
    <3>1. Len(data') = 0
      BY <1>1, <1>3
    <3>2. SubSeq(Order, 1, Len(Order)) = Order
      BY <2>1
    <3> QED
      BY <1>1, <1>3, <2>1, <3>1, <3>2
  <2>3. PICK rows \in input : TRUE
    OBVIOUS
  <2>4. data' \in Seq(Columns(rows)) /\ \A j \in 1..Len(data') : data'[j] \in GetColumn(rows, Order[j])
    BY <1>1, <1>3
  <2>5. ReadInput(flags["InputFile"].current)' = input
    BY <1>2 DEF ReadInput
  <2> QED
    BY <1>2, <2>2, <2>3, <2>4, <2>5 DEF ReadInv
<1>5. MainInv'
  <2>1. CASE stage' = "columns"
    BY <1>1, <1>2, <1>3, <1>4, <2>1 DEF MainInv
  <2>2. CASE stage' = "terminated"
    BY <2>2 DEF MainInv
  <2> QED
    BY <1>1, <2>1, <2>2
<1> QED
  BY <1>2, <1>5 DEF IInv

\* The next of the columns that are left is read behind those that were.
LEMMA ReadColumnKeeps == ASSUME IInv, ReadColumn PROVE IInv'
<1> DEFINE input == ReadInput(flags["InputFile"].current)
<1>1. PICK rows \in input :
        \/ Main("columns", "columns") /\ \E c \in GetColumn(rows, Head(colNumbers)) : data' = Append(data, c)
        \/ Main("columns", "terminated")
  BY Zenon DEF ReadColumn
<1>2. /\ UNCHANGED parserVars /\ stage = "columns" /\ stage' \in {"columns", "terminated"}
      /\ colNumbers # << >> /\ colNumbers' = Tail(colNumbers)
  BY <1>1 DEF Main, ReadColumn
<1>3. /\ ParserInv' /\ UNCHANGED <<flags, pc>> /\ Order' = Order
      /\ Asked(flags["Columns"].current)' = Asked(flags["Columns"].current)
  BY <1>2, MainSteps
<1>4. /\ ReadInv /\ pc = "client"
      /\ Asked(flags["Columns"].current) \in SUBSET Int /\ IsFiniteSet(Asked(flags["Columns"].current))
  BY <1>2 DEF IInv, MainInv
<1>5. ASSUME stage' = "columns" PROVE ReadInv'
  <2>1. PICK c \in GetColumn(rows, Head(colNumbers)) : data' = Append(data, c)
    BY <1>1, <1>5 DEF Main
  <2>2. Order \in Seq(Int)
    BY <1>4, OrderIs
  <2>3. /\ colNumbers = SubSeq(Order, Len(data) + 1, Len(Order)) /\ Len(data) <= Len(Order)
        /\ data \in Seq(Columns(rows))
        /\ \A j \in 1..Len(data) : data[j] \in GetColumn(rows, Order[j])
    BY <1>1, <1>4 DEF ReadInv, ReadInput
  <2>4. Len(data) \in Nat /\ Len(Order) \in Nat /\ Len(data) < Len(Order)
    BY <1>2, <2>2, <2>3
  <2>5. Head(colNumbers) = Order[Len(data) + 1] /\ Order[Len(data) + 1] \in Int
    BY <2>2, <2>3, <2>4
  <2>6. Tail(colNumbers) = SubSeq(Order, Len(data) + 2, Len(Order))
    BY <2>2, <2>3, <2>4
  <2>7. c \in Columns(rows)
    BY <2>5 DEF Columns
  <2>8. /\ data' \in Seq(Columns(rows)) /\ Len(data') = Len(data) + 1 /\ data'[Len(data) + 1] = c
        /\ \A j \in 1..Len(data) : data'[j] = data[j]
    BY <2>1, <2>3, <2>7
  <2>9. \A j \in 1..Len(data') : data'[j] \in GetColumn(rows, Order[j])
    <3> SUFFICES ASSUME NEW j \in 1..Len(data') PROVE data'[j] \in GetColumn(rows, Order[j])
      OBVIOUS
    <3>1. CASE j = Len(data) + 1
      BY <2>1, <2>5, <2>8, <3>1
    <3>2. CASE j # Len(data) + 1
      <4>1. j \in 1..Len(data)
        BY <2>4, <2>8, <3>2
      <4> QED
        BY <2>3, <2>8, <4>1
    <3> QED
      BY <3>1, <3>2
  <2>10. colNumbers' = SubSeq(Order, Len(data') + 1, Len(Order)) /\ Len(data') <= Len(Order)
    BY <1>2, <2>4, <2>6, <2>8
  <2>11. ReadInput(flags["InputFile"].current)' = input
    BY <1>3 DEF ReadInput
  <2> QED
    BY <1>1, <1>3, <2>8, <2>9, <2>10, <2>11 DEF ReadInv
<1>6. MainInv'
  <2>1. CASE stage' = "columns"
    BY <1>3, <1>4, <1>5, <2>1 DEF MainInv
  <2>2. CASE stage' = "terminated"
    BY <2>2 DEF MainInv
  <2> QED
    BY <1>2, <2>1, <2>2
<1> QED
  BY <1>3, <1>6 DEF IInv

LEMMA CountBatchesKeeps == ASSUME IInv, CountBatches PROVE IInv'
<1>1. /\ UNCHANGED <<parserVars, colNumbers, data>> /\ stage = "columns" /\ colNumbers = << >>
      /\ \/ stage' \in {"undefined", "terminated"}
         \/ /\ stage' = "ready" /\ data # << >> /\ << >> \notin Range(data)
            /\ batchNum' = IF flags["BatchSize"].current > 0
                             THEN Len(data[1]) \div flags["BatchSize"].current ELSE 0
  BY DEF CountBatches, Main
<1>2. /\ ParserInv' /\ UNCHANGED <<flags, pc>> /\ Order' = Order
      /\ Asked(flags["Columns"].current)' = Asked(flags["Columns"].current)
  BY <1>1, MainSteps
<1>3. /\ ReadInv /\ pc = "client"
      /\ Asked(flags["Columns"].current) \in SUBSET Int /\ IsFiniteSet(Asked(flags["Columns"].current))
  BY <1>1 DEF IInv, MainInv
<1>4. ReadInv'
  BY <1>1, <1>2, <1>3 DEF ReadInv, ReadInput
<1>5. stage' = "ready" => CountInv'
  BY <1>1, <1>2 DEF CountInv
<1>6. MainInv'
  <2>1. CASE stage' = "ready"
    BY <1>2, <1>3, <1>4, <1>5, <2>1 DEF MainInv
  <2>2. CASE stage' \in {"undefined", "terminated"}
    BY <2>2 DEF MainInv
  <2> QED
    BY <1>1, <2>1, <2>2
<1> QED
  BY <1>2, <1>6 DEF IInv

LEMMA StutterKeeps == ASSUME IInv, UNCHANGED vars PROVE IInv'
<1>1. UNCHANGED <<parserVars, stage, colNumbers, data, batchNum>>
  BY DEF vars, mainVars
<1>2. /\ ParserInv' /\ UNCHANGED <<flags, pc>> /\ Order' = Order
      /\ Asked(flags["Columns"].current)' = Asked(flags["Columns"].current)
  BY <1>1, MainSteps
<1>3. ReadInv => ReadInv'
  BY <1>1, <1>2 DEF ReadInv, ReadInput
<1>4. CountInv => CountInv'
  BY <1>1, <1>2 DEF CountInv
<1>5. MainInv'
  BY <1>1, <1>2, <1>3, <1>4 DEF IInv, MainInv
<1> QED
  BY <1>2, <1>5 DEF IInv

\* The flags and what was saved of them hold values of their types, texts are known, and
\* the parser has something on its stack only within a call; and so main's flags do not
\* change any more when it uses them.
THEOREM FlagsAreTyped == Spec => []IInv
<1>1. IInv /\ [Next]_vars => IInv'
  BY StartParsingKeeps, ParserKeepsAll, ParseColumnsKeeps, OpenDocumentKeeps, ReadColumnKeeps,
     CountBatchesKeeps, StutterKeeps DEF Next
<1> QED
  BY <1>1, Begins, PTL DEF Spec

\* The columns are there as they were asked for.
LEMMA ReadyIs == ASSUME IInv PROVE StartsAsAsked
<1> DEFINE text  == flags["Columns"].current
           asked == {Leading[piece] : piece \in Range(Pieces[text])}
           rows  == ReadCsv(Document, Inputs[flags["InputFile"].current]).data
           at(c) == data[Cardinality({d \in asked : d <= c})]
           size  == flags["BatchSize"].current
<1> SUFFICES ASSUME stage = "ready"
             PROVE  /\ Len(data) = Cardinality(asked)
                    /\ \A c \in asked :
                         /\ Len(at(c)) = Len(rows) - 1
                         /\ \A r \in DOMAIN at(c) :
                              ToVal(Document, rows[r + 1][c + 1], -MaxLong - 1, MaxLong) = {at(c)[r]}
                    /\ size > 0 => \A i \in 0..(batchNum - 1), k \in 0..(size - 1), j \in DOMAIN data :
                                     i * size + k + 1 \in DOMAIN data[j]
                    /\ size > 0 => Len(rows) - 1 - batchNum * size \in 0..(size - 1)
  BY Zenon DEF StartsAsAsked
<1>1. ReadInv /\ CountInv /\ Asked(text) \in SUBSET Int /\ IsFiniteSet(Asked(text))
  BY DEF IInv, MainInv
<1>2. Order \in Seq(Int) /\ Len(Order) = Cardinality(Asked(text))
  BY <1>1, OrderIs
<1>3. PICK input \in ReadInput(flags["InputFile"].current) :
        data \in Seq(Columns(input)) /\ \A j \in 1..Len(data) : data[j] \in GetColumn(input, Order[j])
  BY <1>1 DEF ReadInv
<1>4. /\ Len(data) \in Nat /\ Len(data) >= 1 /\ DOMAIN data = 1..Len(data)
      /\ \A j \in DOMAIN data : data[j] # << >>
  BY <1>1, <1>3 DEF CountInv, Range
<1>5. Len(data) = Len(Order)
  <2>1. SubSeq(Order, Len(data) + 1, Len(Order)) = << >> /\ Len(data) <= Len(Order)
    BY <1>1 DEF CountInv, ReadInv
  <2>2. ~(Len(data) < Len(Order))
    <3> SUFFICES ASSUME Len(data) < Len(Order) PROVE FALSE
      OBVIOUS
    <3>1. Len(SubSeq(Order, Len(data) + 1, Len(Order))) = Len(Order) - Len(data)
      BY <1>2, <1>4
    <3> QED
      BY <1>2, <1>4, <2>1, <3>1
  <2> QED
    BY <1>2, <1>4, <2>1, <2>2
<1>6. text # ""
  <2>0. Len(data) # 0
    BY <1>4
  <2> SUFFICES ASSUME text = "" PROVE FALSE
    OBVIOUS
  <2>1. Asked(text) = {}
    BY DEF Asked
  <2>2. Cardinality(Asked(text)) = 0
    BY <2>1, FS_EmptySet
  <2>3. Len(data) = 0
    BY <1>2, <1>5, <2>2
  <2> QED
    BY <2>0, <2>3
<1>7. asked = Asked(text)
  BY <1>6 DEF Asked, Range
<1>8. \A j \in DOMAIN data : Order[j] \in Int
  BY <1>2, <1>4, <1>5
<1>9. flags["InputFile"].current # "" /\ input = rows /\ rows \in Seq(Range(rows))
  <2> DEFINE name == flags["InputFile"].current
  <2>1. name = "" => input = << >>
    BY <1>3 DEF ReadInput
  <2>2. ASSUME input = << >> PROVE FALSE
    <3>1. 1 \in DOMAIN data
      BY <1>4
    <3>2. data[1] \in GetColumn(<< >>, Order[1]) /\ data[1] # << >> /\ Order[1] \in Int
      BY <1>3, <1>4, <1>8, <2>2, <3>1
    <3>3. << >> \in Seq(Int) /\ Len(<< >>) - 1 \notin Nat
      OBVIOUS
    <3> QED
      BY <3>2, <3>3, ColumnIs
  <2>3. name # ""
    BY <2>1, <2>2
  <2>4. name \in DOMAIN Inputs /\ input = rows
    BY <1>3, <2>3 DEF ReadInput
  <2>5. rows \in Seq(Range(rows))
    BY <2>4, TextsAssumption
  <2> QED
    BY <2>3, <2>4, <2>5
<1> HIDE DEF rows
<1>10. \A j \in DOMAIN data :
         /\ Len(rows) - 1 \in Nat /\ DOMAIN data[j] = 1..(Len(rows) - 1) /\ Len(data[j]) = Len(rows) - 1
         /\ \A r \in DOMAIN data[j] :
              ToVal(Document, rows[r + 1][Order[j] + 1], -MaxLong - 1, MaxLong) = {data[j][r]}
  <2> SUFFICES ASSUME NEW j \in DOMAIN data
               PROVE  /\ Len(rows) - 1 \in Nat /\ DOMAIN data[j] = 1..(Len(rows) - 1)
                      /\ Len(data[j]) = Len(rows) - 1
                      /\ \A r \in DOMAIN data[j] :
                           ToVal(Document, rows[r + 1][Order[j] + 1], -MaxLong - 1, MaxLong) = {data[j][r]}
    OBVIOUS
  <2> DEFINE c == Order[j]  column == data[j]  S == Range(rows)
  <2>1. column \in GetColumn(rows, c) /\ column # << >> /\ c \in Int /\ rows \in Seq(S)
    BY <1>3, <1>4, <1>8, <1>9
  <2> HIDE DEF c, column, S
  <2>2. /\ Len(rows) - 1 \in Nat /\ DOMAIN column = 1..(Len(rows) - 1) /\ Len(column) = Len(rows) - 1
        /\ \A r \in DOMAIN column :
             ToVal(Document, rows[r + 1][c + 1], -MaxLong - 1, MaxLong) = {column[r]}
    BY <2>1, ColumnIs
  <2> QED
    BY <2>2 DEF c, column
<1>11. ASSUME NEW c \in asked
       PROVE  /\ Len(at(c)) = Len(rows) - 1
              /\ \A r \in DOMAIN at(c) :
                   ToVal(Document, rows[r + 1][c + 1], -MaxLong - 1, MaxLong) = {at(c)[r]}
  <2>1. c \in Asked(text)
    BY <1>7
  <2>2. /\ Rank(Asked(text), c) \in 1..Cardinality(Asked(text))
        /\ Ascending(Asked(text))[Rank(Asked(text), c)] = c
    BY <1>1, <2>1, AscendingIs
  <2> DEFINE j == Rank(Asked(text), c)
  <2>3. at(c) = data[j]
    BY <1>7 DEF Rank
  <2>4. j \in DOMAIN data /\ Order[j] = c
    BY <1>2, <1>4, <1>5, <2>2 DEF Order
  <2> HIDE DEF j, at
  <2> QED
    BY <1>10, <2>3, <2>4
<1>12. size \in Int
  BY MainFlags DEF IInv, ParserInv, FlagsInv
<1>13. ASSUME size > 0
       PROVE  /\ \A i \in 0..(batchNum - 1), k \in 0..(size - 1), j \in DOMAIN data :
                   i * size + k + 1 \in DOMAIN data[j]
              /\ Len(rows) - 1 - batchNum * size \in 0..(size - 1)
  <2> DEFINE n == Len(rows) - 1
  <2>1. 1 \in DOMAIN data
    BY <1>4
  <2>2. n \in Nat /\ Len(data[1]) = n
    BY <1>10, <2>1
  <2>3. batchNum = n \div size
    BY <1>1, <1>13, <2>2 DEF CountInv
  <2>4. size \in Nat \ {0}
    BY <1>12, <1>13
  <2>5. \A j \in DOMAIN data : DOMAIN data[j] = 1..n
    BY <1>10
  <2> HIDE DEF n, size
  <2>6. /\ n - (n \div size) * size \in 0..(size - 1)
        /\ \A i \in 0..(n \div size - 1), k \in 0..(size - 1) : i * size + k + 1 \in 1..n
    BY <2>2, <2>4, BatchesFit
  <2> QED
    BY <2>3, <2>5, <2>6 DEF n
<1> HIDE DEF asked, at, size, text
<1>14. Len(data) = Cardinality(asked)
  BY <1>2, <1>5, <1>7
<1> QED
  BY <1>11, <1>13, <1>14

\* For all arguments, flagfiles, variables and input files: when main begins with the
\* batches it has the columns that --Columns lists, in order and complete, and the rows
\* that no batch takes are fewer than a batch.
THEOREM ReadsWhatIsAsked == Spec => []StartsAsAsked
BY FlagsAreTyped, ReadyIs, PTL

----------------------------------------------------------------------------
(* ReadFlagsFromString and its errors.                                     *)

\* A call that meets an error which --undefok does not excuse leaves every flag as it was
\* before it, also those that flagfiles and variables have set on the way.
UndoneOnError ==
  [][parsed = "string" /\ pc = "report" /\ pc' = "client" /\ error_flags \ Excused # {} =>
       flags' = before]_vars

\* What is saved is what the flags were when the call began; there is nothing else to bring back.
SavedInv ==
  /\ pc \in {"client", "option"} => undo = << >>
  /\ pc = "arguments" => parsed = "arguments"
  /\ parsed = "string" /\ pc \in {"string", "report"} => undo = <<before>>

LEMMA ParserSaves ==
  ASSUME SavedInv, ParserStep, UNCHANGED <<before, parsed>>
  PROVE  SavedInv'
<1>1. ASSUME UNCHANGED undo, pc' \in {pc, "overflow", "exited"} PROVE SavedInv'
  BY <1>1 DEF SavedInv
<1>2. \A frames : Stack(frames) => pc' \in {pc, "overflow"}
  BY DEF Stack
<1>3. ASSUME ExpandFlag \/ ReadFile PROVE SavedInv'
  BY <1>1, <1>2, <1>3 DEF ExpandFlag, ReadFile, Exit, Still
<1>4. \A f, text, stack : ProcessSingleOptionLocked(f, text, stack) => pc' \in {pc, "overflow"}
  BY <1>2 DEF ProcessSingleOptionLocked
<1>5. ASSUME ReadVariable PROVE SavedInv'
  <2>1. UNCHANGED undo
    BY <1>5 DEF ReadVariable, Still
  <2>2. pc' \in {pc, "overflow"}
    BY <1>2, <1>4, <1>5 DEF ReadVariable
  <2> QED
    BY <1>1, <2>1, <2>2
<1>6. ASSUME ReadLine PROVE SavedInv'
  <2>1. UNCHANGED undo
    BY <1>6 DEF ReadLine, Still
  <2>2. pc' \in {pc, "overflow"}
    BY <1>2, <1>4, <1>6 DEF ReadLine
  <2> QED
    BY <1>1, <2>1, <2>2
<1>7. ASSUME ReadFlag PROVE SavedInv'
  <2>1. UNCHANGED undo
    BY <1>7 DEF ReadFlag, Still
  <2>2. pc' \in {pc, "overflow"}
    BY <1>4, <1>7 DEF ReadFlag
  <2> QED
    BY <1>1, <2>1, <2>2
<1>8. ASSUME Return \/ ReadWord \/ ReadEnd PROVE SavedInv'
  BY <1>1, <1>8 DEF Return, ReadWord, ReadEnd, Still
<1>9. ASSUME EndArguments PROVE SavedInv'
  BY <1>9 DEF EndArguments, Still, SavedInv
<1>10. ASSUME EndString \/ EndOption PROVE SavedInv'
  BY <1>10 DEF EndString, EndOption, Still, SavedInv
<1>11. ASSUME ReportErrors PROVE SavedInv'
  BY <1>11 DEF ReportErrors, SavedInv
<1> QED
  BY <1>3, <1>5, <1>6, <1>7, <1>8, <1>9, <1>10, <1>11 DEF ParserStep

LEMMA CallsSave == ASSUME SavedInv, StartParsing \/ ClientCall PROVE SavedInv'
<1>1. ASSUME NEW help, ParseCommandLineFlags(help), parsed' = "arguments" PROVE SavedInv'
  BY <1>1 DEF ParseCommandLineFlags, Begin, SavedInv
<1>2. ASSUME NEW lines, ReadFlagsFromString(lines), before' = flags PROVE SavedInv'
  BY <1>2 DEF ReadFlagsFromString, Begin, SavedInv
<1>3. ASSUME pc = "client", UNCHANGED undo, pc' \in {"client", "option"} PROVE SavedInv'
  BY <1>3 DEF SavedInv
<1>4. ASSUME NEW s \in Settings, SetCommandLineOptionWithMode(s.name, s.text, s.mode) PROVE SavedInv'
  BY <1>3, <1>4 DEF SetCommandLineOptionWithMode, Quiet
<1>5. ASSUME NEW f, NEW v, Assign(f, v) \/ RegisterFlagValidator(f, v) \/ AllowCommandLineReparsing
      PROVE  SavedInv'
  BY <1>3, <1>5 DEF Assign, RegisterFlagValidator, AllowCommandLineReparsing, Quiet, calling
<1> QED
  BY <1>1, <1>2, <1>4, <1>5 DEF StartParsing, ClientCall, Calls

\* What is brought back is all that was saved.
LEMMA Restored ==
  ASSUME ParserInv, SavedInv, parsed = "string", pc = "report", pc' = "client",
         error_flags \ Excused # {}, ReportErrors
  PROVE  flags' = before
<1>1. undo = <<before>> /\ undo # << >> /\ undo[1] = before
  BY DEF SavedInv
<1>2. flags' = RestoreToRegistry(flags, before)
  <2>1. ~(flags["undefok"].current # "" /\ ~FlagListOK(flags["undefok"].current))
    BY Zenon DEF ReportErrors
  <2>2. flags' = RestoreToRegistry(flags, undo[1])
    BY <1>1, <2>1 DEF ReportErrors
  <2> QED
    BY <1>1, <2>2
<1>3. IsRegistry(flags) /\ IsRegistry(before)
  BY <1>1 DEF ParserInv, FlagsInv
<1>4. DOMAIN flags = DOMAIN Types
  BY <1>3 DEF IsRegistry
<1>5. RestoreToRegistry(flags, before) = [f \in DOMAIN Types |-> before[f]]
  BY <1>4 DEF RestoreToRegistry, CopyFrom
<1> QED
  BY <1>2, <1>3, <1>5 DEF IsRegistry

\* For all texts, flagfiles and variables.
THEOREM ErrorsAreUndone == Spec => UndoneOnError
<1>1. Init => SavedInv
  BY DEF Init, SavedInv
<1>2. SavedInv /\ [Next]_vars => SavedInv'
  <2> SUFFICES ASSUME SavedInv, [Next]_vars PROVE SavedInv'
    OBVIOUS
  <2>1. ASSUME UNCHANGED <<pc, undo, parsed, before>> PROVE SavedInv'
    BY <2>1 DEF SavedInv
  <2>2. ASSUME ParseColumns \/ OpenDocument \/ ReadColumn \/ CountBatches PROVE SavedInv'
    BY <2>1, <2>2 DEF ParseColumns, OpenDocument, ReadColumn, CountBatches, Main, parserVars, calling
  <2>3. ASSUME UNCHANGED vars PROVE SavedInv'
    BY <2>1, <2>3 DEF vars, parserVars, calling
  <2> QED
    BY <2>2, <2>3, ParserSaves, CallsSave DEF Next
<1>3. IInv /\ SavedInv /\ [Next]_vars =>
        [parsed = "string" /\ pc = "report" /\ pc' = "client" /\ error_flags \ Excused # {} =>
           flags' = before]_vars
  <2> SUFFICES ASSUME ParserInv, SavedInv, Next, parsed = "string", pc = "report", pc' = "client",
                      error_flags \ Excused # {}
               PROVE  flags' = before
    BY DEF IInv
  <2>1. ~(StartParsing \/ ClientCall)
    BY DEF StartParsing, ClientCall, ParseCommandLineFlags, ReadFlagsFromString, Begin,
           SetCommandLineOptionWithMode, Assign, RegisterFlagValidator, AllowCommandLineReparsing
  <2>2. ~(ParseColumns \/ OpenDocument \/ ReadColumn \/ CountBatches)
    BY DEF ParseColumns, OpenDocument, ReadColumn, CountBatches, Main, parserVars, calling
  <2>3. todo = << >>
    BY DEF ParserInv, StackInv
  <2>4. ReportErrors
    BY <2>1, <2>2, <2>3 DEF Next, ParserStep, ExpandFlag, ReadFile, ReadVariable, ReadLine, Return,
       ReadWord, ReadEnd, ReadFlag, Argument, EndArguments, EndString, EndOption
  <2> QED
    BY <2>4, Restored
<1> QED
  BY <1>1, <1>2, <1>3, FlagsAreTyped, PTL DEF Spec, UndoneOnError
=============================================================================
