------------------------------ MODULE Startup ------------------------------
(***************************************************************************)
(* How main of src/IntegerConvertor.cpp comes to its data: gflags parses   *)
(* the arguments, --Columns is taken apart, rapidcsv reads the columns,    *)
(* and the batches are counted.  Beside main, any other client of gflags,  *)
(* which makes a few calls.                                                *)
(***************************************************************************)
EXTENDS FlagParser, CsvText

CONSTANTS
  Scenarios,  \* what to begin with: [argv, files, env, stage]
  Inputs,     \* the input files: name -> text
  Leading,    \* text -> the integer that std::stoi finds at its beginning
  Settings,   \* what SetCommandLineOptionWithMode is called with: [name, text, mode]
  Strings,    \* what ReadFlagsFromString is called with: lines
  Values,     \* what is assigned to flags: flag -> values
  Validators, \* what RegisterFlagValidator is called with: [flag, validator]
  MaxLong,    \* bound of the numbers
  MaxCalls    \* bound on the calls of a client

ASSUME NumbersAssumption == MaxLong \in Nat /\ MaxLong < 256 ^ 3 /\ MaxCalls \in Nat

Document == [trim |-> FALSE, autoQuote |-> TRUE, quotedLinebreaks |-> FALSE, skipComments |-> FALSE,
             skipEmpty |-> FALSE, hasDefaultConverter |-> FALSE, defaultInteger |-> 0]
LabelParams == [column |-> 0, row |-> -1]

\* The texts whose pieces are known, and the values of a flag.
Texts == DOMAIN Pieces \union {""}
ValuesOf(f) == CASE Types[f] = "bool"   -> BOOLEAN
                 [] Types[f] = "string" -> Texts
                 [] OTHER               -> Integers[Types[f]]

\* main's flags and those that are read at once; flags hold what is of their type, and the
\* pieces of every text that a flag may be given are known.
ASSUME FlagsAssumption ==
  /\ Recursive \union {"Columns", "InputFile"} \subseteq {f \in DOMAIN Types : Types[f] = "string"}
  /\ "BatchSize" \in DOMAIN Types /\ Types["BatchSize"] \in DOMAIN Integers
  /\ \A t \in DOMAIN Integers : t \notin {"bool", "string"} /\ Integers[t] \subseteq Int
  /\ \A f \in DOMAIN Types : Defaults[f] \in ValuesOf(f)
  /\ \A f \in DOMAIN Values : f \in DOMAIN Types /\ Values[f] \subseteq ValuesOf(f)
  /\ \A arg \in DOMAIN Shape : Shape[arg].value \subseteq Texts
  /\ \A s \in Scenarios :
       /\ s.stage \in {"start", "client"} /\ s.argv \in Seq(DOMAIN Shape \intersect Texts)
       /\ \A f \in DOMAIN s.files : s.files[f] \in Seq(DOMAIN Shape)
       /\ \A v \in DOMAIN s.env : s.env[v] \in Texts
  /\ \A s \in Settings : s.text \in Texts
  /\ Strings \subseteq Seq(DOMAIN Shape)

\* Pieces and rows are sequences, numbers are integers.
ASSUME TextsAssumption ==
  /\ \A t \in DOMAIN Pieces : Pieces[t] \in Seq(Range(Pieces[t]))
  /\ \A piece \in DOMAIN Leading : Leading[piece] \in Int
  /\ \A name \in DOMAIN Inputs : LET rows == ReadCsv(Document, Inputs[name]).data
                                IN  rows \in Seq(Range(rows))

VARIABLES
  stage,       \* of main: "start", "parse", "columns", "document", "data", "ready",
               \* "terminated" or "undefined"; "client" for another client
  colNumbers,  \* those left to read, in order
  data, originalSize, batchNum,
  before,      \* history: the flags when the last call of the parser began
  calls,       \* bound: the calls that are left to a client
  parsed       \* history: the last call of the parser: "arguments", "string" or "other"

mainVars == <<stage, colNumbers, data, originalSize, batchNum>>
vars     == <<parserVars, mainVars, before, calls, parsed>>

Init ==
  \E s \in Scenarios :
    /\ argv = s.argv /\ files = s.files /\ env = s.env /\ stage = s.stage
    /\ flags = Registered /\ pc = "client" /\ todo = << >> /\ mode = "SET_FLAGS_VALUE"
    /\ rest = << >> /\ words = << >> /\ error_flags = {} /\ undefined_names = {}
    /\ undo = << >> /\ reporting = TRUE /\ allow_command_line_reparsing = FALSE
    /\ colNumbers = << >> /\ data = << >> /\ originalSize = 0 /\ batchNum = 0
    /\ before = Registered /\ calls = MaxCalls /\ parsed = "other"

----------------------------------------------------------------------------
(* main *)

\* A std::set of integers, from the smallest on.
Ascending(numbers) ==
  [k \in 1..Cardinality(numbers) |->
     CHOOSE n \in numbers : Cardinality({m \in numbers : m <= n}) = k]

\* Mutant of parser: what follows the last comma is left out.
parser_Short(text) ==
  LET pieces == IF text = "" THEN << >> ELSE Front(Pieces[text])
  IN  IF \A i \in DOMAIN pieces : pieces[i] \in DOMAIN Leading
        THEN {Ascending({Leading[pieces[i]] : i \in DOMAIN pieces})} ELSE {}

\* The numbers between the commas, in order and once each; std::stoi may throw.
parser(text) ==
  LET pieces == IF text = "" THEN << >> ELSE Pieces[text]
  IN  IF \A i \in DOMAIN pieces : pieces[i] \in DOMAIN Leading
        THEN {Ascending({Leading[pieces[i]] : i \in DOMAIN pieces})} ELSE {}

\* An input file that does not exist makes rapidcsv throw, the empty name stands for no rows.
ReadInput(name) ==
  IF name = "" THEN {<< >>}
  ELSE IF name \in DOMAIN Inputs THEN {ReadCsv(Document, Inputs[name]).data} ELSE {}

\* doc.GetColumn<int64_t>(c): a number below 0 is taken for a large one.
GetColumn(rows, c) ==
  LET cells == IF c >= 0 THEN ColumnOf(rows, LabelParams, c)
               ELSE IF Len(rows) <= LabelParams.column + 1 THEN {<< >>} ELSE {}
      values(cell) == ToVal(Document, cell, -MaxLong - 1, MaxLong)
  IN  {[r \in DOMAIN column |-> CHOOSE v \in values(column[r]) : TRUE] :
         column \in {k \in cells : \A r \in DOMAIN k : values(k[r]) # {}}}

Main(from, to) == stage = from /\ stage' = to /\ UNCHANGED <<parserVars, before, calls, parsed>>

StartParsing ==
  /\ stage = "start" /\ stage' = "parse"
  /\ ParseCommandLineFlags(TRUE)
  /\ before' = flags /\ parsed' = "arguments"
  /\ UNCHANGED <<colNumbers, data, originalSize, batchNum, calls>>

\* Behind the loading of the check tables.
ParseColumns ==
  /\ pc = "client"
  /\ LET numbers == parser(flags["Columns"].current)
     IN  \/ /\ Main("parse", "document") /\ colNumbers' \in numbers
         \/ /\ Main("parse", "terminated") /\ numbers = {} /\ UNCHANGED colNumbers
  /\ UNCHANGED <<data, originalSize, batchNum>>

OpenDocument ==
  /\ Main("document", IF ReadInput(flags["InputFile"].current) = {} THEN "terminated" ELSE "columns")
  /\ UNCHANGED <<colNumbers, data, originalSize, batchNum>>

ReadColumn ==
  /\ colNumbers # << >>
  /\ \E rows \in ReadInput(flags["InputFile"].current) :
       LET column == GetColumn(rows, Head(colNumbers))
       IN  \/ Main("columns", "columns") /\ \E c \in column : data' = Append(data, c)
           \/ Main("columns", "terminated") /\ column = {} /\ UNCHANGED data
  /\ colNumbers' = Tail(colNumbers)
  /\ UNCHANGED <<originalSize, batchNum>>

\* The bytes that a column's largest value needs: three at most, by NumbersAssumption.
Bytes(v) == Cardinality({n \in 0..2 : v >= 256 ^ n})

\* There is no largest value of an empty column and no first of no columns; a division
\* by 0 is a signal, and by a negative number one by a large unsigned one.
CountBatches ==
  /\ colNumbers = << >>
  /\ LET missing   == data = << >> \/ << >> \in Range(data)
         BatchSize == flags["BatchSize"].current
     IN  IF missing \/ BatchSize = 0
           THEN /\ Main("columns", IF missing THEN "undefined" ELSE "terminated")
                /\ UNCHANGED <<originalSize, batchNum>>
           ELSE /\ Main("columns", "ready")
                /\ originalSize' = FoldLeft(LAMBDA n, c : n + Bytes(Max(Range(c))) * Len(c), 0, data)
                /\ batchNum' = IF BatchSize > 0 THEN Len(data[1]) \div BatchSize ELSE 0
  /\ UNCHANGED <<colNumbers, data>>

----------------------------------------------------------------------------
(* Another client *)

Calls(from) == stage = "client" /\ calls > 0 /\ calls' = calls - 1 /\ before' = flags /\ parsed' = from

ClientCall ==
  /\ UNCHANGED mainVars
  /\ \/ \E help \in BOOLEAN : ParseCommandLineFlags(help) /\ Calls("arguments")
     \/ \E lines \in Strings : ReadFlagsFromString(lines) /\ Calls("string")
     \/ \E s \in Settings : SetCommandLineOptionWithMode(s.name, s.text, s.mode) /\ Calls("other")
     \/ \E f \in DOMAIN Values : \E v \in Values[f] : Assign(f, v) /\ Calls("other")
     \/ \E v \in Validators : RegisterFlagValidator(v.flag, v.validator) /\ Calls("other")
     \/ AllowCommandLineReparsing /\ Calls("other")

Next ==
  \/ StartParsing \/ ParseColumns \/ OpenDocument \/ ReadColumn \/ CountBatches
  \/ ClientCall
  \/ ParserStep /\ UNCHANGED <<mainVars, before, calls, parsed>>

Spec == Init /\ [][Next]_vars

----------------------------------------------------------------------------
\* A line applies if there is no list of globs before it, or one that matches in the last
\* lists in a row; comments do not come between.
Applies(lines, i) ==
  LET is(j)  == Shape[lines[j]].is
      lists  == {j \in 1..(i - 1) : is(j) \in {"word", "program"}}
      row    == {j \in lists : \A k \in j..Max(lists) : is(k) \notin {"flag", "end"}}
  IN  is(i) = "flag" /\ (lists = {} \/ \E j \in row : is(j) = "program")

----------------------------------------------------------------------------
TypeOK ==
  /\ \A f \in DOMAIN flags :
       /\ flags[f].modified \in BOOLEAN
       /\ CASE Types[f] = "bool"   -> {flags[f].current, flags[f].default} \subseteq BOOLEAN
            [] Types[f] = "string" -> TRUE
            [] OTHER -> {flags[f].current, flags[f].default} \subseteq Integers[Types[f]]
  /\ Len(todo) <= MaxDepth
  /\ \A j \in DOMAIN data : \A r \in DOMAIN data[j] : data[j][r] \in (-MaxLong - 1)..MaxLong

\* The flagfiles and variables that a flagfile or a variable makes the parser read.
Named(f, text) ==
  IF f \notin Recursive \/ text = "" THEN {}
  ELSE {<<IF f = "flagfile" THEN "file" ELSE "variable", piece>> : piece \in Range(Pieces[text])}

NamedBy(node) ==
  IF node[1] = "file" /\ node[2] \in DOMAIN files
    THEN LET split(i) == SplitArgumentLocked(files[node[2]][i])
             named(i) == UNION {Named(f, t) : f \in split(i).flag, t \in split(i).value}
         IN  UNION {named(i) : i \in {j \in DOMAIN files[node[2]] : Applies(files[node[2]], j)}}
  ELSE IF node[1] = "variable" /\ node[2] \in DOMAIN env /\ env[node[2]] \notin {"fromenv", "tryfromenv"}
    THEN UNION {Named(f, env[node[2]]) : f \in FindFlagLocked(node[2])} ELSE {}

Nodes == {<<"file", f>> : f \in DOMAIN files} \union {<<"variable", v>> : v \in DOMAIN env}

Reached(from) == FoldLeft(LAMBDA nodes, i : nodes \union UNION {NamedBy(n) : n \in nodes},
                          NamedBy(from), [i \in 1..Cardinality(Nodes) |-> i])

\* The parser goes on for ever, when flags are set to their values, only if a flagfile or
\* a variable leads back to itself.
OverflowsOnlyOnCycles ==
  pc = "overflow" /\ mode = "SET_FLAGS_VALUE" => \E n \in Nodes : n \in Reached(n)

\* When the batches begin, the columns that --Columns lists are there, once each and in
\* order, all as long as the file has rows, and so no row of a batch is outside of one.
StartsAsAsked ==
  stage = "ready" =>
    LET asked == {Leading[piece] : piece \in Range(Pieces[flags["Columns"].current])}
        rows  == ReadCsv(Document, Inputs[flags["InputFile"].current]).data
        at(c) == data[Cardinality({d \in asked : d <= c})]
        BatchSize == flags["BatchSize"].current
    IN  /\ Len(data) = Cardinality(asked)
        /\ \A c \in asked : /\ Len(at(c)) = Len(rows) - 1
                            /\ \A r \in DOMAIN at(c) :
                                 ToVal(Document, rows[r + 1][c + 1], -MaxLong - 1, MaxLong) = {at(c)[r]}
        /\ BatchSize > 0 => \A i \in 0..(batchNum - 1), k \in 0..(BatchSize - 1), j \in DOMAIN data :
                              i * BatchSize + k + 1 \in DOMAIN data[j]
        /\ BatchSize > 0 => Len(rows) - 1 - batchNum * BatchSize \in 0..(BatchSize - 1)
=============================================================================
