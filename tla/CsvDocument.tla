----------------------------- MODULE CsvDocument -----------------------------
(***************************************************************************)
(* rapidcsv::Document (src/rapidcsv.h): a table of cells, two maps from    *)
(* the names of columns and rows to their places, and the calls that read, *)
(* change, load and save it.  Places are counted from 0, as in the code; a *)
(* call by name is the call by the index that the map has for the name.    *)
(*                                                                         *)
(* The table need not be rectangular, few calls check their index, and     *)
(* what throws or leaves the memory of a row in the middle of a call has   *)
(* changed the rows before it.  outcome says how the last call ended:      *)
(* "ok", "threw", or "undefined", after which there is no further call.    *)
(***************************************************************************)
EXTENDS CsvText, FiniteSets

CONSTANTS
  Starts,    \* the files, parameters and numbers of calls to begin with
  Labels,    \* the LabelParams that Load is called with: [column, row], -1 for none
  Cells,     \* the cells and
  Names,     \* the names that calls are given
  MaxIndex,  \* bound on the indices that calls are given
  MaxLength  \* bound on the columns and rows that calls are given

\* Cells and texts are sequences, and a label is the index of a column or a row, or -1.
ASSUME DocumentAssumption ==
  /\ MaxIndex \in Nat /\ MaxLength \in Nat
  /\ \A t \in {s.text : s \in Starts} \union Cells \union Names : t \in Seq(Range(t))
  /\ \A l \in Labels \union {s.labels : s \in Starts} :
       l.column \in Nat \union {-1} /\ l.row \in Nat \union {-1}
  /\ \A s \in Starts :
       /\ s.params.trim \in BOOLEAN /\ s.params.autoQuote \in BOOLEAN
       /\ s.params.quotedLinebreaks \in BOOLEAN
       /\ s.params.skipComments \in BOOLEAN /\ s.params.skipEmpty \in BOOLEAN

VARIABLES
  mData, mColumnNames, mRowNames, mLabelParams, mHasCR, mHasUtf8BOM,
  mParams,   \* mSeparatorParams, mConverterParams and mLineReaderParams
  file,      \* the text at mPath
  last,      \* the last call: [call, column, row, cells]
  outcome,
  calls,     \* bound: the calls that are left
  outdated   \* history, not code: the names, [columns, rows], that were overwritten in place
             \* or came behind a row too short for a name when the names were last read

doc  == <<mData, mColumnNames, mRowNames, mLabelParams, mHasCR, mHasUtf8BOM, mParams>>
vars == <<doc, file, last, outcome, calls, outdated>>

----------------------------------------------------------------------------
(* Tables *)

NoCell == << >>

\* Mutant of Resized: the row is assigned anew.
Resized_Anew(row, size) == [c \in 1..size |-> NoCell]

Resized(row, size) == [c \in 1..size |-> IF c <= Len(row) THEN row[c] ELSE NoCell]

GetDataRowCount == Len(mData)

ColumnCount(data, labels) ==
  LET firstDataRow == Max({labels.column, 0})
  IN  IF Len(data) > firstDataRow THEN Len(data[firstDataRow + 1]) ELSE 0

GetDataColumnCount == ColumnCount(mData, mLabelParams)

GetDataRowIndex(r)    == r + mLabelParams.column + 1
GetDataColumnIndex(c) == c + mLabelParams.row + 1

\* Rows of a width are appended until there are so many.
Grown(data, rows, width) ==
  data \o [r \in 1..Max({rows - Len(data), 0}) |-> Resized(<< >>, width)]

\* "resize" of every row from that of the column names on, to fewer cells too.
Widened(data, width) ==
  [r \in DOMAIN data |-> IF r - 1 >= mLabelParams.column THEN Resized(data[r], width) ELSE data[r]]

Inside(data, r, c) == r < Len(data) /\ c < Len(data[r + 1])

\* mData.at(row).at(column) = cell for one put after the other: the first that is
\* outside throws.
Written(data, puts) ==
  LET done  == Min({i \in 1..(Len(puts) + 1) :
                      i > Len(puts) \/ ~Inside(data, puts[i].row, puts[i].column)}) - 1
      at(r, c) == {i \in 1..done : puts[i].row = r - 1 /\ puts[i].column = c - 1}
  IN  [data |-> [r \in DOMAIN data |-> [c \in DOMAIN data[r] |->
                   IF at(r, c) = {} THEN data[r][c] ELSE puts[Max(at(r, c))].cell]],
       outcome |-> IF done = Len(puts) THEN "ok" ELSE "threw"]

\* The map of the names in a list to their places in it: the last of equal ones counts.
Places(names) == [n \in Range(names) |-> Max({i \in DOMAIN names : names[i] = n}) - 1]

UpdateColumnNames(data, labels) ==
  IF labels.column >= 0 /\ Len(data) > labels.column THEN Places(data[labels.column + 1]) ELSE << >>

\* Mutant of UpdateRowNames: a row is counted before its name gets the number.
UpdateRowNames_CountedBefore(data, labels) ==
  IF labels.row >= 0 /\ Len(data) > labels.column + 1
    THEN LET named   == {r \in DOMAIN data : Len(data[r]) > labels.row}
             name(r) == data[r][labels.row + 1]
         IN  [n \in {name(r) : r \in named} |->
                LET end == Max({r \in named : name(r) = n})
                IN  Cardinality({r \in named : r <= end})]
    ELSE << >>

\* The rows with a name, whose number is taken for their place.
UpdateRowNames(data, labels) ==
  IF labels.row >= 0 /\ Len(data) > labels.column + 1
    THEN LET named   == {r \in DOMAIN data : Len(data[r]) > labels.row}
             name(r) == data[r][labels.row + 1]
         IN  [n \in {name(r) : r \in named} |->
                LET end == Max({r \in named : name(r) = n})
                IN  Cardinality({r \in named : r < end})]
    ELSE << >>

\* The names of the rows behind one that is too short for a name and is not counted above.
BehindShort(data, labels) ==
  {data[r][labels.row + 1] : r \in {q \in DOMAIN data :
     Len(data[q]) > labels.row /\ \E p \in 1..q : Len(data[p]) <= labels.row}}

----------------------------------------------------------------------------
(* Calls that read: the set of what they return, which is empty if they throw. *)

GetColumnIdx(n) == IF mLabelParams.column >= 0 /\ n \in DOMAIN mColumnNames
                     THEN mColumnNames[n] - (mLabelParams.row + 1) ELSE -1

GetRowIdx(n) == IF mLabelParams.row >= 0 /\ n \in DOMAIN mRowNames
                  THEN mRowNames[n] - (mLabelParams.column + 1) ELSE -1

CellAt(data, labels, c, r) ==
  IF Inside(data, r + labels.column + 1, c + labels.row + 1)
    THEN {data[r + labels.column + 2][c + labels.row + 2]} ELSE {}

GetCell(c, r) == IF c < 0 \/ r < 0 THEN {} ELSE CellAt(mData, mLabelParams, c, r)

GetColumnName(c) ==
  IF mLabelParams.column >= 0 /\ Inside(mData, mLabelParams.column, GetDataColumnIndex(c))
    THEN {mData[mLabelParams.column + 1][GetDataColumnIndex(c) + 1]} ELSE {}

GetRowName(r) ==
  IF mLabelParams.row >= 0 /\ Inside(mData, GetDataRowIndex(r), mLabelParams.row)
    THEN {mData[GetDataRowIndex(r) + 1][mLabelParams.row + 1]} ELSE {}

----------------------------------------------------------------------------
(* Calls that change the table *)

\* Every call takes one of those that are left and leaves its name and arguments.
Call(call, c, r, cells) ==
  /\ outcome # "undefined" /\ calls > 0
  /\ calls' = calls - 1
  /\ last' = [call |-> call, column |-> c, row |-> r, cells |-> cells]

Throw == outcome' = "threw" /\ UNCHANGED <<doc, file, outdated>>

Changed(result) == mData' = result.data /\ outcome' = result.outcome

Same == UNCHANGED <<mLabelParams, mHasCR, mHasUtf8BOM, mParams, file>>
SameNames == UNCHANGED <<mColumnNames, mRowNames, outdated>>

\* The indices that a call may be given: by name, -1 if the name is not found.
Columns == (0..MaxIndex) \union {GetColumnIdx(n) : n \in Names}
Rows    == (0..MaxIndex) \union {GetRowIdx(n) : n \in Names}
Lists   == UNION {[1..n -> Cells] : n \in 0..MaxLength}

\* The new width is one label column too much.
SetColumn(c, cells) ==
  /\ Call("SetColumn", c, -1, cells)
  /\ IF c < 0 THEN Throw
     ELSE LET grown == Grown(mData, GetDataRowIndex(Len(cells)), GetDataColumnCount)
              column == GetDataColumnIndex(c)
              wide  == IF column + 1 > ColumnCount(grown, mLabelParams)
                         THEN Widened(grown, GetDataColumnIndex(column + 1)) ELSE grown
          IN  /\ Changed(Written(wide, [i \in DOMAIN cells |->
                   [row |-> GetDataRowIndex(i - 1), column |-> column, cell |-> cells[i]]]))
              /\ SameNames /\ Same

\* The width is compared without the column of the names.
SetRow(r, cells) ==
  /\ Call("SetRow", -1, r, cells)
  /\ IF r < 0 THEN Throw
     ELSE LET grown == Grown(mData, GetDataRowIndex(r) + 1, GetDataColumnCount)
              wide  == IF Len(cells) > ColumnCount(grown, mLabelParams)
                         THEN Widened(grown, GetDataColumnIndex(Len(cells))) ELSE grown
          IN  /\ Changed(Written(wide, [i \in DOMAIN cells |->
                   [row |-> GetDataRowIndex(r), column |-> GetDataColumnIndex(i - 1), cell |-> cells[i]]]))
              /\ SameNames /\ Same

SetCell(c, r, cell) ==
  /\ Call("SetCell", c, r, <<cell>>)
  /\ IF c < 0 \/ r < 0 THEN Throw
     ELSE LET grown == Grown(mData, GetDataRowIndex(r) + 1, GetDataColumnCount)
              column == GetDataColumnIndex(c)
              wide  == IF column + 1 > ColumnCount(grown, mLabelParams)
                         THEN Widened(grown, column + 1) ELSE grown
          IN  /\ Changed(Written(wide, <<[row |-> GetDataRowIndex(r), column |-> column, cell |-> cell]>>))
              /\ SameNames /\ Same

\* Rows are changed one after the other up to the first for which bad has an outcome.
RowByRow(data, bad, newRow) ==
  LET touched == {r \in DOMAIN data : r - 1 >= mLabelParams.column}
      stop == Min({r \in touched : bad[r] # "ok"} \union {Len(data) + 1})
  IN  [data |-> [r \in DOMAIN data |-> IF r \in touched /\ r < stop THEN newRow[r] ELSE data[r]],
       outcome |-> IF stop > Len(data) THEN "ok" ELSE bad[stop]]

RemoveColumn(c) ==
  /\ Call("RemoveColumn", c, -1, << >>)
  /\ IF c < 0 THEN Throw
     ELSE LET column == GetDataColumnIndex(c)
              bad    == [r \in DOMAIN mData |-> IF column < Len(mData[r]) THEN "ok" ELSE "undefined"]
              result == RowByRow(mData, bad, [r \in DOMAIN mData |-> RemoveAt(mData[r], column + 1)])
          IN  /\ Changed(result)
              /\ mColumnNames' = UpdateColumnNames(result.data, mLabelParams)
              /\ outdated' = [outdated EXCEPT !.columns = {}]
              /\ UNCHANGED mRowNames /\ Same

\* SetColumnName on a table: the map and the table it leaves.  The entry of the old name
\* stays in the map.
WithColumnName(data, names, c, n) ==
  LET label  == mLabelParams.column + 1
      longer == Grown(data, label, 0)
      row    == Resized(longer[label], Max({Len(longer[label]), GetDataColumnIndex(c) + 1}))
  IN  [data  |-> [longer EXCEPT ![label] = [row EXCEPT ![GetDataColumnIndex(c) + 1] = n]],
       names |-> [m \in DOMAIN names \union {n} |->
                    IF m = n THEN GetDataColumnIndex(c) ELSE names[m]]]

SetColumnName(c, n) ==
  /\ Call("SetColumnName", c, -1, <<n>>)
  /\ IF mLabelParams.column < 0 THEN Throw
     ELSE LET result == WithColumnName(mData, mColumnNames, c, n)
          IN  /\ Changed([data |-> result.data, outcome |-> "ok"])
              /\ mColumnNames' = result.names
              /\ outdated' = [outdated EXCEPT !.columns = (@ \union GetColumnName(c)) \ {n}]
              /\ UNCHANGED mRowNames /\ Same

\* SetRowName: the map is changed before the call throws.
WithRowName(data, r, n) ==
  LET place  == GetDataRowIndex(r) + 1
      longer == Grown(data, place, 0)
      row    == Resized(longer[place], Max({Len(longer[place]), mLabelParams.row + 1}))
  IN  IF mLabelParams.row < 0 THEN [data |-> data, outcome |-> "threw"]
      ELSE [data |-> [longer EXCEPT ![place] = [row EXCEPT ![mLabelParams.row + 1] = n]],
            outcome |-> "ok"]

RenamedRow(names, r, n) ==
  [m \in DOMAIN names \union {n} |-> IF m = n THEN GetDataRowIndex(r) ELSE names[m]]

SetRowName(r, n) ==
  /\ Call("SetRowName", -1, r, <<n>>)
  /\ Changed(WithRowName(mData, r, n))
  /\ mRowNames' = RenamedRow(mRowNames, r, n)
  /\ outdated' = [outdated EXCEPT !.rows = (@ \union GetRowName(r)) \ {n}]
  /\ UNCHANGED mColumnNames /\ Same

\* Rows are appended to hold the column; a column that is shorter than the table makes
\* column.at throw when the rows above have got their cells.  A name may be none.
InsertColumn(c, cells, n) ==
  /\ Call("InsertColumn", c, -1, cells)
  /\ LET column == IF cells = << >> THEN Resized(<< >>, GetDataRowCount)
                   ELSE Resized(<< >>, mLabelParams.column + 1) \o cells
         grown  == Grown(mData, Len(column), Max({mLabelParams.column + 1, GetDataColumnCount}))
         place  == GetDataColumnIndex(c)
         bad    == [r \in DOMAIN grown |-> IF place > Len(grown[r]) THEN "undefined"
                                           ELSE IF r > Len(column) THEN "threw" ELSE "ok"]
         result == RowByRow(grown, bad,
                     [r \in DOMAIN grown |-> InsertAt(grown[r], place + 1, column[r])])
         named  == result.outcome = "ok" /\ n # NoCell
         final  == IF ~named \/ mLabelParams.column < 0 THEN result.data
                   ELSE WithColumnName(result.data, mColumnNames, c, n).data
     IN  /\ mData' = final
         /\ outcome' = IF named /\ mLabelParams.column < 0 THEN "threw" ELSE result.outcome
         /\ IF outcome' = "ok"
              THEN /\ mColumnNames' = UpdateColumnNames(final, mLabelParams)
                   /\ outdated' = [outdated EXCEPT !.columns = {}]
              ELSE /\ UNCHANGED mColumnNames
                   /\ outdated' = [outdated EXCEPT !.columns = @ \union DOMAIN mColumnNames]
         /\ UNCHANGED mRowNames /\ Same

RemoveRow(r) ==
  /\ Call("RemoveRow", -1, r, << >>)
  /\ IF r < 0 THEN Throw
     ELSE /\ Changed(IF GetDataRowIndex(r) < Len(mData)
                       THEN [data |-> RemoveAt(mData, GetDataRowIndex(r) + 1), outcome |-> "ok"]
                       ELSE [data |-> mData, outcome |-> "undefined"])
          /\ mRowNames' = UpdateRowNames(mData', mLabelParams)
          /\ outdated' = [outdated EXCEPT !.rows = BehindShort(mData', mLabelParams)]
          /\ UNCHANGED mColumnNames /\ Same

InsertRow(r, cells, n) ==
  /\ Call("InsertRow", -1, r, cells)
  /\ LET place == GetDataRowIndex(r)
         row   == IF cells = << >> THEN Resized(<< >>, GetDataColumnCount)
                  ELSE Resized(<< >>, mLabelParams.row + 1) \o cells
         longer == InsertAt(Grown(mData, place, GetDataColumnCount), place + 1, row)
         result == IF n = NoCell THEN [data |-> longer, outcome |-> "ok"]
                   ELSE WithRowName(longer, r, n)
     IN  /\ Changed(result)
         /\ IF result.outcome = "ok"
              THEN /\ mRowNames' = UpdateRowNames(result.data, mLabelParams)
                   /\ outdated' = [outdated EXCEPT !.rows = BehindShort(result.data, mLabelParams)]
              ELSE /\ mRowNames' = RenamedRow(mRowNames, r, n)
                   /\ outdated' = [outdated EXCEPT !.rows = @ \union DOMAIN mRowNames]
         /\ UNCHANGED mColumnNames /\ Same

----------------------------------------------------------------------------
(* Files *)

Load(labels) ==
  /\ Call("Load", -1, -1, << >>)
  /\ LET text == ReadCsv(mParams, file)
     IN  /\ mData' = text.data
         /\ mColumnNames' = UpdateColumnNames(text.data, labels)
         /\ mRowNames' = UpdateRowNames(text.data, labels)
         /\ mHasCR' = text.hasCR /\ mHasUtf8BOM' = text.hasBOM
  /\ mLabelParams' = labels
  /\ outdated' = [columns |-> {}, rows |-> BehindShort(mData', labels)]
  /\ outcome' = "ok"
  /\ UNCHANGED <<mParams, file>>

\* No such file: the parameters are those of the call, the table and the maps are the old ones.
LoadMissing(labels) ==
  /\ Call("Load", -1, -1, << >>)
  /\ mLabelParams' = labels
  /\ mHasCR' = FALSE
  /\ outdated' = [columns |-> DOMAIN mColumnNames, rows |-> DOMAIN mRowNames]
  /\ outcome' = "threw"
  /\ UNCHANGED <<mData, mColumnNames, mRowNames, mHasUtf8BOM, mParams, file>>

\* To a stream, instead of a path, the mark is not written.
Save(toPath) ==
  /\ Call("Save", -1, -1, << >>)
  /\ file' = WriteCsv(mParams, mData, mHasCR, toPath /\ mHasUtf8BOM)
  /\ outcome' = "ok"
  /\ UNCHANGED <<doc, outdated>>

Clear ==
  /\ Call("Clear", -1, -1, << >>)
  /\ mData' = << >> /\ mColumnNames' = << >> /\ mRowNames' = << >> /\ mHasUtf8BOM' = FALSE
  /\ outdated' = [columns |-> {}, rows |-> {}]
  /\ outcome' = "ok"
  /\ UNCHANGED <<mLabelParams, mHasCR, mParams, file>>

----------------------------------------------------------------------------
\* Document(path): of an empty file it is Document().
Init ==
  \E s \in Starts :
    LET text == ReadCsv(s.params, s.text)
    IN  /\ file = s.text /\ mLabelParams = s.labels /\ mParams = s.params /\ calls = s.calls
        /\ mData = text.data /\ mHasCR = text.hasCR /\ mHasUtf8BOM = text.hasBOM
        /\ mColumnNames = UpdateColumnNames(text.data, s.labels)
        /\ mRowNames = UpdateRowNames(text.data, s.labels)
        /\ last = [call |-> "Document", column |-> -1, row |-> -1, cells |-> << >>]
        /\ outcome = "ok"
        /\ outdated = [columns |-> {}, rows |-> BehindShort(text.data, s.labels)]

ChangeColumns ==
  \/ \E c \in Columns, cells \in Lists : SetColumn(c, cells)
  \/ \E c \in Columns : RemoveColumn(c)
  \/ \E c \in 0..MaxIndex, cells \in Lists, n \in Names \union {NoCell} : InsertColumn(c, cells, n)
  \/ \E c \in 0..MaxIndex, n \in Names : SetColumnName(c, n)

ChangeRows ==
  \/ \E r \in Rows, cells \in Lists : SetRow(r, cells)
  \/ \E r \in Rows : RemoveRow(r)
  \/ \E r \in 0..MaxIndex, cells \in Lists, n \in Names \union {NoCell} : InsertRow(r, cells, n)
  \/ \E r \in 0..MaxIndex, n \in Names : SetRowName(r, n)

Next ==
  \/ ChangeColumns \/ ChangeRows
  \/ \E c \in Columns, r \in Rows, cell \in Cells : SetCell(c, r, cell)
  \/ \E l \in Labels : Load(l) \/ LoadMissing(l)
  \/ \E toPath \in BOOLEAN : Save(toPath)
  \/ Clear

Spec == Init /\ [][Next]_vars

----------------------------------------------------------------------------
\* What WriteCsv can put into a text so that ReadCsv finds it: cells with linebreaks are
\* not quoted, nor are those that begin with a quote; quoting does not keep a line from
\* being skipped; a row of no cell is read as one of an empty cell.
Writable(p, data) ==
  \A r \in DOMAIN data :
    LET row   == data[r]
        quoted(cell) == p.autoQuote /\ {Separator, " "} \cap Range(cell) # {}
    IN  /\ row # << >>
        /\ p.skipEmpty => row # <<NoCell>>
        /\ p.skipComments => row[1] = NoCell \/ row[1][1] # Comment
        /\ \A c \in DOMAIN row : row[c] # NoCell =>
             /\ {"\r", "\n"} \cap Range(row[c]) = {}
             /\ quoted(row[c]) \/
                  /\ row[c][1] # QuoteChar /\ Separator \notin Range(row[c])
                  /\ p.trim => {row[c][1], Last(row[c])} \cap Space = {}
        /\ r = 1 /\ ~mHasUtf8BOM /\ row[1] # NoCell => row[1][1] # BOM

\* What is saved is loaded as it was: cells with separators, quotes and spaces, and how
\* the lines end.
RoundTrip ==
  Writable(mParams, mData) =>
    LET again == ReadCsv(mParams, WriteCsv(mParams, mData, mHasCR, mHasUtf8BOM))
    IN  /\ again.data = mData /\ again.hasBOM = mHasUtf8BOM
        /\ mData # << >> => again.hasCR = mHasCR

\* Every row from that of the column names on is as wide, wide enough for the row names.
Rectangular ==
  /\ Len(mData) > mLabelParams.column + 1 /\ GetDataColumnCount > mLabelParams.row
  /\ \A r \in DOMAIN mData : r - 1 >= mLabelParams.column => Len(mData[r]) = GetDataColumnCount

\* Where a call that succeeds leaves the cell that was at a column and a row: nowhere, if
\* the call is given the cell.
PlaceAfter(call, c, r) ==
  LET length == Len(call.cells)
  IN  CASE call.call = "SetCell"   -> {<<c, r>>} \ {<<call.column, call.row>>}
        [] call.call = "SetColumn" -> IF c = call.column /\ r < length THEN {} ELSE {<<c, r>>}
        [] call.call = "SetRow"    -> IF r = call.row /\ c < length THEN {} ELSE {<<c, r>>}
        [] call.call = "InsertColumn" -> {<<IF c >= call.column THEN c + 1 ELSE c, r>>}
        [] call.call = "InsertRow"    -> {<<c, IF r >= call.row THEN r + 1 ELSE r>>}
        [] call.call = "RemoveColumn" ->
             IF c = call.column THEN {} ELSE {<<IF c > call.column THEN c - 1 ELSE c, r>>}
        [] call.call = "RemoveRow" ->
             IF r = call.row THEN {} ELSE {<<c, IF r > call.row THEN r - 1 ELSE r>>}
        [] call.call \in {"Load", "Clear"} -> {}
        [] OTHER -> {<<c, r>>}

\* Where a call puts the cells that it is given.
PlaceOf(call, i) ==
  IF call.call \in {"SetColumn", "InsertColumn"} THEN <<call.column, i - 1>>
  ELSE IF call.call \in {"SetRow", "InsertRow"} THEN <<i - 1, call.row>>
  ELSE <<call.column, call.row>>

\* On a rectangular table every call that succeeds puts the cells where it is told to, and
\* every other cell can be read as before, where the columns and rows that were inserted or
\* removed have moved it.  None leaves the memory of a row, but those that remove or insert
\* past the end.
OnlyWhatIsNamed ==
  [][Rectangular /\ calls' # calls =>
       /\ outcome' = "ok" =>
            /\ \A c, r \in 0..(MaxIndex + 2) : \A place \in PlaceAfter(last', c, r) :
                 GetCell(c, r) \subseteq CellAt(mData', mLabelParams', place[1], place[2])
            /\ last'.call \notin {"SetColumnName", "SetRowName"} =>
                 \A i \in DOMAIN last'.cells :
                   LET place == PlaceOf(last', i)
                   IN  CellAt(mData', mLabelParams', place[1], place[2]) = {last'.cells[i]}
       /\ outcome' = "undefined" =>
            \/ GetDataColumnIndex(last'.column) >= GetDataColumnCount
            \/ GetDataRowIndex(last'.row) >= GetDataRowCount]_vars

\* Whatever was inserted, removed and appended, a name leads to a row and a column that
\* have it.  Excused are the names that SetColumnName, SetRowName or a call that threw left
\* in the maps, and those of rows that came behind one too short for a name when
\* UpdateRowNames read them: it numbers only the rows that have a name.
NamesFind ==
  /\ mLabelParams.column >= 0 =>
       \A n \in DOMAIN mColumnNames \ outdated.columns :
         Inside(mData, mLabelParams.column, mColumnNames[n])
           /\ mData[mLabelParams.column + 1][mColumnNames[n] + 1] = n
  /\ mLabelParams.row >= 0 =>
       \A n \in DOMAIN mRowNames \ outdated.rows :
         Inside(mData, mRowNames[n], mLabelParams.row)
           /\ mData[mRowNames[n] + 1][mLabelParams.row + 1] = n
=============================================================================
