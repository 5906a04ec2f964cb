----------------------------- MODULE MCStartup -----------------------------
(***************************************************************************)
(* An instance of Startup for TLC: the flags of main and those that gflags *)
(* reads itself; two flagfiles and the environment, which lead to each     *)
(* other or back; arguments of every kind; three input files, one with a   *)
(* row that is short; and a client that makes two calls.                   *)
(***************************************************************************)
EXTENDS Startup

FlagTypes ==
  [f \in {"Columns", "InputFile", "flagfile", "fromenv", "tryfromenv", "undefok"} |-> "string"]
    @@ [f \in {"BatchSize", "tab_completion_columns"} |-> "int32"] @@ [help |-> "bool"]
FlagDefaults ==
  [f \in DOMAIN FlagTypes |-> CASE FlagTypes[f] = "string" -> "" [] f = "help" -> FALSE [] OTHER -> 2]
SmallIntegers == [int32 |-> -2..3]
NotThree == [limit |-> {3}]
HelpFlags == {"help"}

Of(key, text) == [is |-> "flag", key |-> key, value |-> {text}]
No(key)       == [is |-> "flag", key |-> key, value |-> {}]
Other(is)     == [is |-> is, key |-> "", value |-> {}]

FlagShapes ==
  "--BatchSize=1" :> Of("BatchSize", "1") @@ "--BatchSize=3" :> Of("BatchSize", "3")
  @@ "--BatchSize=9" :> Of("BatchSize", "9") @@ "--BatchSize=0" :> Of("BatchSize", "0")
  @@ "--BatchSize" :> No("BatchSize") @@ "-2" :> No("2")
  @@ "--Columns=1,0" :> Of("Columns", "1,0") @@ "--Columns=1,1," :> Of("Columns", "1,1,")
  @@ "--Columns=a" :> Of("Columns", "a") @@ "--Columns" :> No("Columns")
  @@ "--InputFile=t" :> Of("InputFile", "t") @@ "--InputFile=short" :> Of("InputFile", "short")
  @@ "--flagfile=f" :> Of("flagfile", "f") @@ "--flagfile=g,f" :> Of("flagfile", "g,f")
  @@ "--flagfile=g" :> Of("flagfile", "g") @@ "--flagfile=none" :> Of("flagfile", "none")
  @@ "--fromenv=BatchSize,fromenv" :> Of("fromenv", "BatchSize,fromenv")
  @@ "--fromenv=bogus" :> Of("fromenv", "bogus")
  @@ "--tryfromenv=flagfile,Columns" :> Of("tryfromenv", "flagfile,Columns")
  @@ "--help" :> No("help") @@ "--nohelp" :> No("nohelp") @@ "--help=maybe" :> Of("help", "maybe")
  @@ "--bogus" :> No("bogus") @@ "--nobogus" :> No("nobogus") @@ "--nonone" :> No("nonone")
  @@ "--undefok=bogus" :> Of("undefok", "bogus") @@ "--undefok=" :> Of("undefok", "")
  @@ "--tab-completion-columns=1" :> Of("tab-completion-columns", "1")
  @@ "--" :> Other("end") @@ "1,0" :> Other("word") @@ "-" :> Other("word")
  @@ "#" :> Other("comment") @@ "Else" :> Other("word") @@ "Integer*" :> Other("program")

ListedTexts ==
  "1,0" :> <<"1", "0">> @@ "1,1," :> <<"1", "1">> @@ "a" :> <<"a">> @@ "1" :> <<"1">>
  @@ "f" :> <<"f">> @@ "g" :> <<"g">> @@ "g,f" :> <<"g", "f">> @@ "none" :> <<"none">>
  @@ "BatchSize,fromenv" :> <<"BatchSize", "fromenv">> @@ "BatchSize" :> <<"BatchSize">>
  @@ "fromenv" :> <<"fromenv">> @@ "flagfile,Columns" :> <<"flagfile", "Columns">>
  @@ "bogus" :> <<"bogus">> @@ "-" :> <<"-">> @@ "--Columns" :> <<"--Columns">>
  @@ "-2" :> <<"-2">> @@ "2" :> <<"2">> @@ "Else" :> <<"Else">>
  @@ [t \in {"0", "3", "9", "t", "short", "maybe"} |-> <<t>>]
  @@ [t \in {x \in DOMAIN FlagShapes : FlagShapes[x].is # "word" /\ x \notin {"--Columns", "-2"}} |-> <<t>>]

Numerals == "0" :> 0 @@ "1" :> 1 @@ "2" :> 2 @@ "3" :> 3 @@ "9" :> 9 @@ "-2" :> -2
Dashes   == "tab-completion-columns" :> "tab_completion_columns"
Negated  == "nohelp" :> "help" @@ "nobogus" :> "bogus" @@ "nonone" :> "none" @@ "none" :> "ne"

\* Two names of columns and three rows; a row that is short; a cell that is no number.
Tables ==
  "t"     :> <<"a", ",", "b", "\n", "1", ",", "2", "\n", "-", "1", ",", "\n", "3", ",", "3", "\n">>
  @@ "short" :> <<"a", ",", "b", "\n", "1", "\n">>

Words == {"--BatchSize=9", "--BatchSize=0", "-2", "--InputFile=short", "--flagfile=none",
          "--fromenv=bogus", "--help", "--nohelp", "--help=maybe", "--bogus", "--nobogus", "--nonone",
          "--undefok=bogus", "--tab-completion-columns=1", "--", "-", "--Columns", "--Columns=a"}
Main3 == {"--BatchSize=1", "--BatchSize", "-2", "--Columns=1,0", "--Columns=1,1,", "--InputFile=t",
          "--flagfile=f", "--flagfile=g,f", "--fromenv=BatchSize,fromenv",
          "--tryfromenv=flagfile,Columns", "1,0"}
Argvs == UNION {[1..n -> Main3] : n \in 0..3}
           \union {<<a, b>> : a \in Words, b \in Main3 \union Words}
           \union {<<a, b, "--flagfile=f">> : a \in Words, b \in Words}

\* f leads to g, which concerns this program in part; or both lead to each other.
Straight == [f |-> <<"#", "--BatchSize=1", "--flagfile=g", "--InputFile=t">>,
             g |-> <<"Else", "--BatchSize=3", "Else", "#", "Integer*", "--Columns=1,0",
                     "--InputFile=short", "--bogus", "--Columns">>]
Crossed  == [f |-> <<"--BatchSize=9", "--flagfile=g">>, g |-> <<"--Columns=1,1,", "--flagfile=f">>]
Quietly  == [BatchSize |-> "3", flagfile |-> "g", fromenv |-> "fromenv", Columns |-> "1,0"]
Looping  == [fromenv |-> "BatchSize,fromenv", BatchSize |-> "2", flagfile |-> "f"]

SomeScenarios ==
  {[argv |-> a, files |-> Straight, env |-> Quietly, stage |-> "start"] : a \in Argvs}
  \union {[argv |-> <<a, b>>, files |-> f, env |-> e, stage |-> "start"] :
            a, b \in Main3, f \in {Straight, Crossed}, e \in {Looping, [Columns |-> "1"]}}
  \union {[argv |-> a, files |-> Straight, env |-> Quietly, stage |-> "client"] :
            a \in {<<"--BatchSize=1", "--bogus">>, <<"--flagfile=f", "--tab-completion-columns=1">>}}

SomeSettings ==
  {[name |-> n, text |-> t, mode |-> m] :
     n \in {"BatchSize", "flagfile"}, t \in {"1", "f", "g"},
     m \in {"SET_FLAGS_VALUE", "SET_FLAG_IF_DEFAULT", "SET_FLAGS_DEFAULT"}}
SomeStrings ==
  {<<"--BatchSize=1", "--BatchSize=9">>, <<"--BatchSize=3", "--flagfile=g">>,
   <<"Else", "--BatchSize=9", "Integer*", "--Columns=1,0", "--help=maybe">>, <<"--flagfile=f", "--BatchSize=3">>, <<"--help">>}
SomeValues == "BatchSize" :> {1} @@ "flagfile" :> {"g"}
SomeValidators == {[flag |-> "BatchSize", validator |-> v] : v \in {"limit", NoValidator}}

----------------------------------------------------------------------------
(* What texts mean: the assignments of texts to flags that they stand for, *)
(* in order, each followed by those of the texts it makes the parser read. *)

RECURSIVE Setting(_, _), Source(_, _)
Setting(f, text) == <<<<f, text>>>> \o (IF f \in Recursive THEN Source(f, text) ELSE << >>)

Source(f, text) ==
  LET pieces == IF text = "" THEN << >> ELSE Pieces[text]
      line(l) == LET s == SplitArgumentLocked(l)
                 IN  IF s.flag = {} \/ s.value = {} THEN << >>
                     ELSE Setting(CHOOSE g \in s.flag : TRUE, CHOOSE t \in s.value : TRUE)
      file(lines) == FlattenSeq([i \in DOMAIN lines |->
                                   IF Applies(lines, i) THEN line(lines[i]) ELSE << >>])
      variable(name) == IF FindFlagLocked(name) = {} \/ name \notin DOMAIN env THEN << >>
                        ELSE Setting(CHOOSE g \in FindFlagLocked(name) : TRUE, env[name])
  IN  CASE f = "flagfile" -> FlattenSeq([i \in DOMAIN pieces |-> file(files[pieces[i]])])
        [] f = "string"   -> file(text)
        [] OTHER          -> FlattenSeq([i \in DOMAIN pieces |-> variable(pieces[i])])

\* The last text for a flag, if any.
LastText(settings, f) ==
  LET places == {i \in DOMAIN settings : settings[i][1] = f}
  IN  IF places = {} THEN {} ELSE {settings[Max(places)][2]}

\* Behind a flag without "=" the next argument is its text; behind only dashes there are no flags.
RECURSIVE FromArguments(_)
FromArguments(args) ==
  IF args = << >> \/ Shape[args[1]].is = "end" THEN << >>
  ELSE LET split == SplitArgumentLocked(args[1])
           texts == IF split.value # {} THEN split.value ELSE {args[2]}
       IN  IF Shape[args[1]].is = "word" \/ split.flag = {} THEN FromArguments(Tail(args))
           ELSE Setting(CHOOSE f \in split.flag : TRUE, CHOOSE t \in texts : TRUE)
                  \o FromArguments(IF split.value # {} THEN Tail(args) ELSE Tail(Tail(args)))

\* What was set already is read before the arguments.
FromCommandLine ==
  LET more(settings, f) ==
        LET text == LastText(settings, f)
        IN  settings \o Source(f, IF text = {} THEN before[f].current ELSE CHOOSE t \in text : TRUE)
  IN  more(more(more(<< >>, "flagfile"), "fromenv"), "tryfromenv") \o FromArguments(argv)

\* Every text is legal, and the last one for each flag is its value.
Meant(new, settings) ==
  /\ \A i \in DOMAIN settings :
       TryParseLocked(settings[i][1], new[settings[i][1]], settings[i][2]) # {}
  /\ \A f \in DOMAIN new :
       IF LastText(settings, f) = {} THEN new[f] = before[f]
       ELSE /\ {new[f].current} = UNION {TryParseLocked(f, new[f], t) : t \in LastText(settings, f)}
            /\ new[f].modified

----------------------------------------------------------------------------
\* Through flagfiles and variables that name each other, the arguments, and what was set
\* before: a program that goes on after ParseCommandLineFlags has every flag at its last value.
LastWins == parsed = "arguments" /\ pc = "client" => Meant(flags, FromCommandLine)

\* ReadFlagsFromString either does all that the text says or leaves every flag as it was.
AllOrNothing ==
  [][parsed = "string" /\ pc = "report" /\ pc' = "client" =>
       flags' = before \/ \E lines \in Strings : Meant(flags', Source("string", lines))]_vars
=============================================================================
