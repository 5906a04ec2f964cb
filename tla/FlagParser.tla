----------------------------- MODULE FlagParser -----------------------------
(***************************************************************************)
(* CommandLineFlagParser of gflags (src/gflags-2.2.2/src/gflags.cc) and    *)
(* the calls that use it: arguments, flagfiles and environment variables   *)
(* set flags, and the flags flagfile, fromenv and tryfromenv make the      *)
(* parser read further texts at once, before it goes on.  The calls of its *)
(* functions within each other are a stack; a step is one argument, one    *)
(* line, one file or one environment variable.                             *)
(***************************************************************************)
EXTENDS FlagRegistry

CONSTANTS
  Helps,     \* the flags that print something and end the program, if they are set
  MaxDepth   \* bound on the stack: what goes deeper is taken to go on for ever

VARIABLES
  flags,            \* FlagRegistry: the flags' states
  files,            \* the flagfiles: name -> lines
  env,              \* the environment variables FLAGS_...: name -> text
  argv,             \* the arguments, without the program's name
  pc,               \* "client", "arguments", "option", "string", "report", "exited" or "overflow"
  rest, words,      \* the arguments to come, and those that were moved to the end
  todo,             \* the stack, the innermost call first
  mode,             \* set_mode
  error_flags,      \* the keys with a message that is not empty
  undefined_names,
  undo,             \* the states that FlagSaver and ReadFlagsFromString have saved
  reporting,        \* do_report
  allow_command_line_reparsing

calling    == <<pc, rest, words, todo, mode, error_flags, undefined_names, undo, reporting>>
parserVars == <<flags, files, env, argv, calling, allow_command_line_reparsing>>

Recursive == {"flagfile", "fromenv", "tryfromenv"}

----------------------------------------------------------------------------
(* The stack.  Frames: "expand" (ProcessFlagfileLocked or                  *)
(* ProcessFromenvLocked, before ParseFlagList), "files" and "env" (with    *)
(* the names that are left), and "lines" (ProcessOptionsFromStringLocked,  *)
(* with the lines that are left, and whether they concern this program).   *)

Frame(is, flag, items) ==
  [is |-> is, flag |-> flag, items |-> items, relevant |-> TRUE, naming |-> FALSE]

Lines(items) == Frame("lines", "", items)
Expand(flag) == Frame("expand", flag, << >>)

Top == todo[1]
Popped == [todo EXCEPT ![1].items = Tail(@)]

\* The stack that a step leaves.
Stack(frames) == IF Len(frames) > MaxDepth
                   THEN pc' = "overflow" /\ todo' = << >>
                   ELSE todo' = frames /\ UNCHANGED pc

\* gflags_exitfunc(1)
Exit == pc' = "exited" /\ todo' = << >>

\* Mutant of ProcessSingleOptionLocked: further texts are read after what is being read.
ProcessSingleOptionLocked_Later(f, text, stack) ==
  LET result == SetFlagLocked(flags, f, text, mode)
  IN  /\ flags' = result.flags
      /\ error_flags' = IF result.refused THEN error_flags \union {f} ELSE error_flags
      /\ Stack(IF f \in Recursive /\ ~result.refused THEN Append(stack, Expand(f)) ELSE stack)

\* ProcessSingleOptionLocked(f, text, mode), in a call that leaves a stack.
ProcessSingleOptionLocked(f, text, stack) ==
  LET result == SetFlagLocked(flags, f, text, mode)
  IN  /\ flags' = result.flags
      /\ error_flags' = IF result.refused THEN error_flags \union {f} ELSE error_flags
      /\ Stack(IF f \in Recursive /\ ~result.refused THEN <<Expand(f)>> \o stack ELSE stack)

Unset == UNCHANGED <<flags, error_flags>>
Still == UNCHANGED <<files, env, argv, mode, undo, reporting, allow_command_line_reparsing>>

\* What is expanded is the flag's value, which need not be the text it was just given.
ExpandFlag ==
  /\ todo # << >> /\ Top.is = "expand"
  /\ LET text == flags[Top.flag].current
     IN  IF text = "" THEN Stack(Tail(todo))
         ELSE IF ~FlagListOK(text) THEN Exit
         ELSE Stack(<<Frame(IF Top.flag = "flagfile" THEN "files" ELSE "env", Top.flag, Pieces[text])>>
                      \o Tail(todo))
  /\ Unset /\ Still /\ UNCHANGED <<rest, words, undefined_names>>

\* A flagfile that cannot be opened ends the program.
ReadFile ==
  /\ todo # << >> /\ Top.is = "files" /\ Top.items # << >>
  /\ IF Head(Top.items) \in DOMAIN files
       THEN Stack(<<Lines(files[Head(Top.items)])>> \o Popped) ELSE Exit
  /\ Unset /\ Still /\ UNCHANGED <<rest, words, undefined_names>>

\* Mutant of Endless: no recursion is refused.
Endless_Never(name) == FALSE

\* "Avoid infinite recursion": only that of a variable that names one of the two flags alone.
Endless(name) == env[name] \in {"fromenv", "tryfromenv"}

ReadVariable ==
  /\ todo # << >> /\ Top.is = "env" /\ Top.items # << >>
  /\ LET name == Head(Top.items)
         Error == /\ error_flags' = error_flags \union {name}
                  /\ Stack(Popped) /\ UNCHANGED flags
     IN  /\ IF FindFlagLocked(name) = {} THEN Error
            ELSE IF name \notin DOMAIN env
              THEN IF Top.flag = "fromenv" THEN Error ELSE Stack(Popped) /\ Unset
            ELSE IF Endless(name) THEN Error
            ELSE \E f \in FindFlagLocked(name) : ProcessSingleOptionLocked(f, env[name], Popped)
         /\ undefined_names' = IF FindFlagLocked(name) = {} THEN undefined_names \union {name}
                               ELSE undefined_names
  /\ Still /\ UNCHANGED <<rest, words>>

\* A list of globs stands for the lines up to the next list; of lists in a row one must
\* match.  A flag that is unknown, or without a value, is silently left out.
ReadLine ==
  /\ todo # << >> /\ Top.is = "lines" /\ Top.items # << >>
  /\ LET line  == Shape[Head(Top.items)]
         split == SplitArgumentLocked(Head(Top.items))
         applies == line.is \in {"flag", "end"} /\ Top.relevant /\ split.flag # {} /\ split.value # {}
     IN  IF applies
           THEN \E f \in split.flag, text \in split.value :
                  ProcessSingleOptionLocked(f, text, [Popped EXCEPT ![1].naming = FALSE])
           ELSE /\ Stack(CASE line.is = "comment" -> Popped
                           [] line.is \in {"flag", "end"} -> [Popped EXCEPT ![1].naming = FALSE]
                           [] OTHER -> [Popped EXCEPT ![1].naming = TRUE,
                                          ![1].relevant = (Top.naming /\ @) \/ line.is = "program"])
                /\ Unset
  /\ Still /\ UNCHANGED <<rest, words, undefined_names>>

Return ==
  /\ todo # << >> /\ Top.is # "expand" /\ Top.items = << >>
  /\ todo' = Tail(todo)
  /\ Unset /\ Still /\ UNCHANGED <<pc, rest, words, undefined_names>>

----------------------------------------------------------------------------
(* ParseNewCommandLineFlags, when the flags that were set before it and    *)
(* those that an argument has set are expanded.                            *)

Argument(is) == pc = "arguments" /\ todo = << >> /\ rest # << >> /\ Shape[Head(rest)].is = is

\* A word is moved to the end of the arguments.
ReadWord ==
  /\ Argument("word")
  /\ rest' = Tail(rest) /\ words' = Append(words, Head(rest))
  /\ Unset /\ Still /\ UNCHANGED <<pc, todo, undefined_names>>

\* Only dashes: what follows are words.
ReadEnd ==
  /\ Argument("end")
  /\ rest' = << >> /\ words' = Tail(rest) \o words
  /\ Unset /\ Still /\ UNCHANGED <<pc, todo, undefined_names>>

\* The text may be the next argument, whatever that is; if there is none nothing more is read.
ReadFlag ==
  /\ Argument("flag")
  /\ LET split == SplitArgumentLocked(Head(rest))
         text  == IF split.value # {} THEN split.value ELSE {rest[i] : i \in {2} \cap DOMAIN rest}
     IN  IF split.flag = {} \/ text = {}
           THEN /\ error_flags' = error_flags \union {split.key}
                /\ undefined_names' = IF split.flag = {} THEN undefined_names \union {split.key}
                                      ELSE undefined_names
                /\ rest' = IF split.flag = {} THEN Tail(rest) ELSE << >>
                /\ UNCHANGED <<flags, pc, todo>>
           ELSE /\ \E f \in split.flag, t \in text : ProcessSingleOptionLocked(f, t, << >>)
                /\ rest' = IF split.value # {} THEN Tail(rest) ELSE Tail(Tail(rest))
                /\ UNCHANGED undefined_names
  /\ Still /\ UNCHANGED words

\* HandleCommandLineHelpFlags, and then ValidateUnmodifiedFlags.
EndArguments ==
  /\ pc = "arguments" /\ todo = << >> /\ rest = << >>
  /\ IF reporting /\ \E f \in Helps : flags[f].current
       THEN pc' = "exited" /\ UNCHANGED error_flags
       ELSE pc' = "report" /\ error_flags' = error_flags \union InvalidFlags(flags, FALSE)
  /\ Still /\ UNCHANGED <<flags, rest, words, todo, undefined_names>>

EndString ==
  /\ pc = "string" /\ todo = << >>
  /\ pc' = IF \E f \in Helps : flags[f].current THEN "exited" ELSE "report"
  /\ Unset /\ Still /\ UNCHANGED <<rest, words, todo, undefined_names>>

EndOption ==
  /\ pc = "option" /\ todo = << >>
  /\ pc' = "client"
  /\ Unset /\ Still /\ UNCHANGED <<rest, words, todo, undefined_names>>

\* The keys that --undefok names, or the names of whose negation: they are no errors.
Excused ==
  LET listed == IF flags["undefok"].current = "" THEN {} ELSE Range(Pieces[flags["undefok"].current])
      denied == {key \in undefined_names : key \in DOMAIN Positive /\ Positive[key] \in listed \ undefined_names}
  IN  IF allow_command_line_reparsing THEN undefined_names
      ELSE (listed \intersect undefined_names) \union denied

\* ReportErrors, and what its caller does: ReadFlagsFromString brings the flags back.
ReportErrors ==
  /\ pc = "report"
  /\ LET failed == error_flags \ Excused # {}
     IN  IF flags["undefok"].current # "" /\ ~FlagListOK(flags["undefok"].current)
           THEN pc' = "exited" /\ UNCHANGED flags
         ELSE IF undo # << >>
           THEN /\ pc' = "client"
                /\ flags' = IF failed THEN RestoreToRegistry(flags, undo[1]) ELSE flags
         ELSE pc' = (IF failed THEN "exited" ELSE "client") /\ UNCHANGED flags
  /\ undo' = << >>
  /\ UNCHANGED <<files, env, argv, rest, words, todo, mode, error_flags, undefined_names,
                 reporting, allow_command_line_reparsing>>

ParserStep ==
  \/ ExpandFlag \/ ReadFile \/ ReadVariable \/ ReadLine \/ Return
  \/ ReadWord \/ ReadEnd \/ ReadFlag
  \/ EndArguments \/ EndString \/ EndOption \/ ReportErrors

----------------------------------------------------------------------------
(* Calls: a parser is made, with no errors yet.                            *)

Begin(next, frames, setMode) ==
  /\ pc = "client"
  /\ pc' = next /\ todo' = frames /\ mode' = setMode
  /\ error_flags' = {} /\ undefined_names' = {}
  /\ UNCHANGED <<flags, files, env, argv>>

\* ParseCommandLineFlags, ParseCommandLineNonHelpFlags and ReparseCommandLineNonHelpFlags:
\* the flags that tell what to read may be set already.
ParseCommandLineFlags(help) ==
  /\ Begin("arguments", <<Expand("flagfile"), Expand("fromenv"), Expand("tryfromenv")>>,
           "SET_FLAGS_VALUE")
  /\ rest' = argv /\ words' = << >> /\ reporting' = help
  /\ UNCHANGED <<undo, allow_command_line_reparsing>>

\* ReadFlagsFromString, with errors that are not fatal.
ReadFlagsFromString(lines) ==
  /\ Begin("string", <<Lines(lines)>>, "SET_FLAGS_VALUE")
  /\ undo' = <<flags>>
  /\ UNCHANGED <<rest, words, reporting, allow_command_line_reparsing>>

Quiet == UNCHANGED <<files, env, argv, rest, words, error_flags, undefined_names, undo,
                     reporting, allow_command_line_reparsing>>

SetCommandLineOptionWithMode(name, text, setMode) ==
  /\ pc = "client" /\ mode' = setMode
  /\ \E f \in FindFlagLocked(name) :
       LET result == SetFlagLocked(flags, f, text, setMode)
       IN  /\ flags' = result.flags
           /\ IF f \in Recursive /\ ~result.refused THEN pc' = "option" /\ todo' = <<Expand(f)>>
              ELSE UNCHANGED <<pc, todo>>
  /\ Quiet

\* The program assigns to FLAGS_f.
Assign(f, value) ==
  /\ pc = "client"
  /\ flags' = Assigned(flags, f, value)
  /\ Quiet /\ UNCHANGED <<pc, todo, mode>>

RegisterFlagValidator(f, validator) ==
  /\ pc = "client"
  /\ flags' = Validated(flags, f, validator)
  /\ Quiet /\ UNCHANGED <<pc, todo, mode>>

AllowCommandLineReparsing ==
  /\ pc = "client"
  /\ allow_command_line_reparsing' = TRUE
  /\ UNCHANGED <<flags, files, env, argv, calling>>
=============================================================================
