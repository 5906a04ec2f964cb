---------------------------- MODULE MCCsvDocument ----------------------------
(***************************************************************************)
(* Instances of CsvDocument for TLC: every short text under several        *)
(* parameters, loaded, saved and loaded again; and small tables, with and  *)
(* without names, changed by every two calls.                              *)
(***************************************************************************)
EXTENDS CsvDocument

Alphabet == {"a", ",", "\"", " ", "#", "\r", "\n", "BOM"}

Plain == [trim |-> FALSE, autoQuote |-> TRUE, quotedLinebreaks |-> FALSE, skipComments |-> FALSE,
          skipEmpty |-> FALSE, hasDefaultConverter |-> FALSE, defaultInteger |-> 0]
Params == {Plain,
           [Plain EXCEPT !.trim = TRUE, !.skipComments = TRUE],
           [Plain EXCEPT !.autoQuote = FALSE, !.skipEmpty = TRUE],
           [Plain EXCEPT !.quotedLinebreaks = TRUE, !.skipComments = TRUE, !.skipEmpty = TRUE]}

NoLabels == [column |-> -1, row |-> -1]
AllLabels == {[column |-> c, row |-> r] : c \in {-1, 0}, r \in {-1, 0}}

Texts == UNION {[1..n -> Alphabet] : n \in 0..4}

\* Two names of columns, two of rows, with the corner; a row that is short.
Table  == <<",", "a", ",", "b", "\n", "a", ",", "c", ",", "c", "\n", "b", ",", "c", ",", "a", "\n">>
Ragged == <<"b", ",", "a", "\n", "\n", "a", ",", "c", "\n">>

TextsAndTables ==
  {[text |-> t, labels |-> NoLabels, params |-> p, calls |-> 0] : t \in Texts, p \in Params}
  \union {[text |-> t, labels |-> l, params |-> Plain, calls |-> 2] :
            t \in {<< >>, Table, Ragged}, l \in AllLabels}
  \union {[text |-> Ragged, labels |-> [column |-> 0, row |-> 1], params |-> Plain, calls |-> 2]}

SomeCells == {<<"a">>, <<"d", ",">>}
SomeNames == {<<"a">>, <<"b">>}
=============================================================================
