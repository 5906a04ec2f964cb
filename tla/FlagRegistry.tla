---------------------------- MODULE FlagRegistry ----------------------------
(***************************************************************************)
(* The flags of gflags (src/gflags-2.2.2/src/gflags.cc) and what the calls *)
(* of FlagRegistry, CommandLineFlag and FlagValue do to them.  A text is a *)
(* model value: what the string functions of C find in it is a table.  A   *)
(* registry is a function from the names of the flags to their states.     *)
(***************************************************************************)
EXTENDS Integers, Sequences, SequencesExt, FiniteSetsExt, Functions

CONSTANTS
  Types,        \* name -> "bool", "string", or a type of integers
  Integers,     \* type of integers -> its values
  Defaults,     \* name -> the default that DEFINE_... gives it
  Rejects,      \* validate function -> the values for which it returns false
  Shape,        \* argument or line -> [is, key, value], see below
  Pieces,       \* text -> the texts between its commas, the last one only if it is not empty
  Underscored,  \* name with dashes -> the name with underscores
  Positive,     \* name that begins with "no" -> the rest of it
  Whole         \* text -> the integer that strto64 reads to the text's end

\* The kinds of arguments and of lines in a flagfile: "flag" (a dash, a key and perhaps "="
\* and a value: value is a set of at most one text), "end" (only dashes), "word" (neither),
\* and, in a flagfile, "comment" (or empty) and "program" (globs for the program's name).
Kinds == {"flag", "end", "word", "comment", "program"}

ASSUME FlagAssumption ==
  /\ DOMAIN Defaults = DOMAIN Types
  /\ \A f \in DOMAIN Types : Types[f] \in {"bool", "string"} \union DOMAIN Integers
  /\ \A t \in DOMAIN Shape : Shape[t].is \in Kinds /\ Cardinality(Shape[t].value) <= 1

NoValidator == "none"

\* RegisterFlag, for every DEFINE_... before main.
Registered ==
  [f \in DOMAIN Types |->
     [current |-> Defaults[f], default |-> Defaults[f], modified |-> FALSE, validator |-> NoValidator]]

----------------------------------------------------------------------------
(* Values.  The set of the value that is read, empty if the text is refused. *)

ParseFrom(type, text) ==
  CASE type = "string" -> {text}
    [] type = "bool"   -> (IF text \in {"1", "t", "true", "y", "yes"} THEN {TRUE} ELSE {})
                            \union (IF text \in {"0", "f", "false", "n", "no"} THEN {FALSE} ELSE {})
    [] OTHER           -> IF text \in DOMAIN Whole THEN {Whole[text]} \cap Integers[type] ELSE {}

\* The integers that a validate function is given are those of its flag.
Validate(validator, value) == validator = NoValidator \/ value \notin Rejects[validator]

TryParseLocked(f, flag, text) == {v \in ParseFrom(Types[f], text) : Validate(flag.validator, v)}

----------------------------------------------------------------------------
(* Finding a flag *)

FindFlagLocked(name) ==
  IF name \in DOMAIN Types THEN {name}
  ELSE IF name \in DOMAIN Underscored /\ Underscored[name] \in DOMAIN Types
         THEN {Underscored[name]} ELSE {}

\* The flag that an argument sets, if any, the key as it is reported, and the text for it:
\* "--x" and "--nox" stand for "--x=1" and "--x=0", if x is boolean.
SplitArgumentLocked(arg) ==
  LET s        == Shape[arg]
      found    == FindFlagLocked(s.key)
      positive == IF s.key \in DOMAIN Positive
                    THEN {f \in FindFlagLocked(Positive[s.key]) : Types[f] = "bool"} ELSE {}
  IN  IF found # {}
        THEN [flag |-> found, key |-> s.key,
              value |-> IF s.value = {} /\ \A f \in found : Types[f] = "bool" THEN {"1"} ELSE s.value]
      ELSE IF positive # {}
        THEN [flag |-> positive, key |-> Positive[s.key], value |-> {"0"}]
      ELSE [flag |-> {}, key |-> s.key, value |-> s.value]

----------------------------------------------------------------------------
(* Setting a flag *)

\* The flag may have been written to directly.
UpdateModifiedBit(flag) == [flag EXCEPT !.modified = @ \/ flag.current # flag.default]

\* The new registry, and whether the text was refused.
SetFlagLocked(flags, f, text, mode) ==
  LET flag == UpdateModifiedBit(flags[f])
      new  == TryParseLocked(f, flag, text)
      kept == mode = "SET_FLAG_IF_DEFAULT" /\ flag.modified
      v    == CHOOSE value \in new : TRUE
      set  == CASE mode = "SET_FLAGS_DEFAULT" ->
                     [flag EXCEPT !.default = v, !.current = IF flag.modified THEN @ ELSE v]
                [] OTHER -> [flag EXCEPT !.current = v, !.modified = TRUE]
  IN  [flags   |-> [flags EXCEPT ![f] = IF kept \/ new = {} THEN flag ELSE set],
       refused |-> ~kept /\ new = {}]

\* FLAGS_f = value, past the registry.
Assigned(flags, f, value) == [flags EXCEPT ![f].current = value]

\* AddFlagValidator: none replaces another, but it may be taken away.
Validated(flags, f, validator) ==
  IF validator # NoValidator /\ flags[f].validator # NoValidator THEN flags
  ELSE [flags EXCEPT ![f].validator = validator]

\* Mutant of CopyFrom: a flag that has been set stays marked as set.
CopyFrom_Marked(flag, source) == [source EXCEPT !.modified = @ \/ flag.modified]

\* CommandLineFlag::CopyFrom, for a flag of the same name.
CopyFrom(flag, source) == source

\* FlagSaverImpl: SaveFromRegistry keeps the states, RestoreToRegistry brings them back.
RestoreToRegistry(flags, backup) == [f \in DOMAIN flags |-> CopyFrom(flags[f], backup[f])]

\* ValidateFlags: the flags whose current value their validate function refuses.
InvalidFlags(flags, all) ==
  {f \in DOMAIN flags : (all \/ ~flags[f].modified) /\ ~Validate(flags[f].validator, flags[f].current)}

----------------------------------------------------------------------------
\* ParseFlagList ends the program when a piece is empty or begins with a dash.
FlagListOK(text) ==
  \A i \in DOMAIN Pieces[text] : LET piece == Pieces[text][i]
                                 IN  piece # "" /\ piece # "-"
                                        /\ (piece \in DOMAIN Shape => Shape[piece].is = "word")
=============================================================================
