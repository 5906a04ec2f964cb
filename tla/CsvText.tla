------------------------------- MODULE CsvText -------------------------------
(***************************************************************************)
(* How rapidcsv (src/rapidcsv.h) reads a text as rows of cells, and writes *)
(* rows of cells as a text.  A text and a cell are sequences of characters;*)
(* the three bytes of a UTF-8 byte order mark are one.                     *)
(***************************************************************************)
EXTENDS Integers, Sequences, SequencesExt, FiniteSetsExt, Functions

Separator == ","
QuoteChar == "\""
Comment   == "#"
BOM       == "BOM"
Space     == {" ", "\t", "\r", "\n"}

----------------------------------------------------------------------------
(* Cells.  p holds the parameters of a document: trim, autoQuote,          *)
(* quotedLinebreaks, skipComments and skipEmpty.                           *)

Trim(p, cell) ==
  LET kept == {i \in DOMAIN cell : cell[i] \notin Space}
  IN  IF ~p.trim THEN cell ELSE IF kept = {} THEN << >> ELSE SubSeq(cell, Min(kept), Max(kept))

\* ReplaceString: every quote becomes two.
Escaped(cell) ==
  FlattenSeq([i \in DOMAIN cell |->
                IF cell[i] = QuoteChar THEN <<QuoteChar, QuoteChar>> ELSE <<cell[i]>>])

\* ReplaceString: every two quotes, from the left, become one.
Unescaped(cell) ==
  LET step(s, c) == IF c = QuoteChar /\ s.half
                      THEN [s EXCEPT !.half = FALSE]
                      ELSE [out |-> Append(s.out, c), half |-> c = QuoteChar]
  IN  FoldLeft(step, [out |-> << >>, half |-> FALSE], cell).out

Unquote(p, cell) ==
  IF p.autoQuote /\ Len(cell) >= 2 /\ cell[1] = QuoteChar /\ Last(cell) = QuoteChar
    THEN Unescaped(SubSeq(cell, 2, Len(cell) - 1)) ELSE cell

\* Mutant of Quoted: the quotes within are not doubled.
Quoted_Plain(p, cell) ==
  IF p.autoQuote /\ {Separator, " "} \cap Range(cell) # {}
    THEN <<QuoteChar>> \o cell \o <<QuoteChar>> ELSE cell

\* A cell as WriteCsv puts it into the text.
Quoted(p, cell) ==
  IF p.autoQuote /\ {Separator, " "} \cap Range(cell) # {}
    THEN <<QuoteChar>> \o Escaped(cell) \o <<QuoteChar>> ELSE cell

----------------------------------------------------------------------------
(* ParseCsv, a character at a time.                                        *)

NoRows == [data |-> << >>, row |-> << >>, cell |-> << >>, quoted |-> FALSE, cr |-> 0, lf |-> 0]

EndCell(p, s) == [s EXCEPT !.row = Append(@, Unquote(p, Trim(p, s.cell))), !.cell = << >>]

EndLine(p, s) ==
  LET row     == EndCell(p, s).row
      comment == p.skipComments /\ row[1] # << >> /\ row[1][1] = Comment
  IN  IF p.skipEmpty /\ s.row = << >> /\ s.cell = << >>
        THEN [s EXCEPT !.lf = @ + 1]
        ELSE [data |-> IF comment THEN s.data ELSE Append(s.data, row),
              row |-> << >>, cell |-> << >>, quoted |-> FALSE, cr |-> s.cr, lf |-> s.lf + 1]

\* A quote toggles only in a cell that began with one.
Character(p, s, c) ==
  LET kept   == [s EXCEPT !.cell = Append(@, c)]
      breaks == ~(p.quotedLinebreaks /\ s.quoted)
  IN  CASE c = QuoteChar            -> [kept EXCEPT !.quoted =
                                          IF s.cell = << >> \/ s.cell[1] = QuoteChar THEN ~@ ELSE @]
        [] c = Separator /\ ~s.quoted -> EndCell(p, s)
        [] c = "\r" /\ breaks       -> [s EXCEPT !.cr = @ + 1]
        [] c = "\n" /\ breaks       -> EndLine(p, s)
        [] OTHER                    -> kept

\* The rows of a text, and whether it is taken to end its lines with CR and LF.  A last
\* line without a linebreak is a row even if it is a comment.
ParseCsv(p, text) ==
  LET s == FoldLeft(LAMBDA t, c : Character(p, t, c), NoRows, text)
  IN  [data  |-> IF s.cell # << >> \/ s.row # << >>
                   THEN Append(s.data, EndCell(p, s).row) ELSE s.data,
       hasCR |-> s.cr > s.lf \div 2]

\* ReadCsv: without the mark at the beginning, which is remembered.
ReadCsv(p, text) ==
  LET marked == text # << >> /\ text[1] = BOM
      parsed == ParseCsv(p, IF marked THEN Tail(text) ELSE text)
  IN  [data |-> parsed.data, hasCR |-> parsed.hasCR, hasBOM |-> marked]

WriteRow(p, row, hasCR) ==
  FlattenSeq([i \in DOMAIN row |->
                Quoted(p, row[i]) \o (IF i < Len(row) THEN <<Separator>> ELSE << >>)])
    \o (IF hasCR THEN <<"\r", "\n">> ELSE <<"\n">>)

WriteCsv(p, data, hasCR, hasBOM) ==
  (IF hasBOM THEN <<BOM>> ELSE << >>)
    \o FlattenSeq([r \in DOMAIN data |-> WriteRow(p, data[r], hasCR)])

----------------------------------------------------------------------------
(* A column of a table, and Converter *)

\* GetColumn, before ToVal converts the cells: a data row that is too short throws.
ColumnOf(data, labels, c) ==
  LET rows   == SubSeq(data, labels.column + 2, Len(data))
      column == c + labels.row + 2
  IN  IF \A r \in DOMAIN rows : column <= Len(rows[r])
        THEN {[r \in DOMAIN rows |-> rows[r][column]]} ELSE {}

Digits == <<"0", "1", "2", "3", "4", "5", "6", "7", "8", "9">>
DigitOf(c) == CHOOSE n \in 0..9 : Digits[n + 1] = c

\* std::stol and std::stoi: blanks, a sign, digits, and whatever follows them.  An empty set
\* where they throw: there are no digits, or the number is too large.
Stol(chars, low, high) ==
  LET from   == Min({i \in 1..(Len(chars) + 1) : i > Len(chars) \/ chars[i] \notin Space})
      signed == from <= Len(chars) /\ chars[from] \in {"-", "+"}
      first  == IF signed THEN from + 1 ELSE from
      end    == Min({i \in first..(Len(chars) + 1) : i > Len(chars) \/ chars[i] \notin Range(Digits)})
      number == FoldLeft(LAMBDA n, c : 10 * n + DigitOf(c), 0, SubSeq(chars, first, end - 1))
      value  == IF signed /\ chars[from] = "-" THEN -number ELSE number
  IN  IF first <= Len(chars) /\ end > first /\ low <= value /\ value <= high THEN {value} ELSE {}

\* Converter<int64_t>::ToVal, which takes an empty cell for 0 before it tries to convert it.
ToVal(p, cell, low, high) ==
  IF cell = << >> THEN {0}
  ELSE IF Stol(cell, low, high) = {} /\ p.hasDefaultConverter THEN {p.defaultInteger}
  ELSE Stol(cell, low, high)
=============================================================================
