----------------------------- MODULE TableFile -----------------------------
(***************************************************************************)
(* The file of a table (CheckTable_S<width>_M<mode>), as a sequence of the *)
(* fields that SaveCheckTable of src/DecodingTest.cpp appends and that its *)
(* LoadCheckTable, and that of src/IntegerConvertor.cpp, copy out again:   *)
(* the number of head nodes; key, end and value of each; then for each     *)
(* head node the number of its entries, its key, and the key and the State *)
(* of each entry.                                                          *)
(***************************************************************************)
EXTENDS Integers, Sequences, SequencesExt, FiniteSetsExt

\* The order in which a hash table iterates over its keys: the same at every iteration.
InOrder(keys) == FoldSet(LAMBDA k, order : Append(order, k), << >>, keys)

\* The entries of one head node, in the order of the hash table.
EntryFields(key, node) ==
  LET seconds == InOrder(DOMAIN node.table)
  IN  <<Len(seconds), key>> \o
      FlattenSeq([j \in 1..Len(seconds) |-> <<seconds[j], node.table[seconds[j]]>>])

SaveCheckTable(checkTable) ==
  LET heads == InOrder(DOMAIN checkTable)
  IN  <<Len(heads)>> \o
      FlattenSeq([j \in 1..Len(heads) |->
                    <<heads[j], checkTable[heads[j]].end, checkTable[heads[j]].value>>]) \o
      FlattenSeq([j \in 1..Len(heads) |-> EntryFields(heads[j], checkTable[heads[j]])])

\* Mutant of LoadEntries: the last entry is skipped.
LoadEntries_Short(table, file, pos) ==
  LET valueCount == file[pos]
      keyAt(j)   == file[pos + 2 * j]
      entries    == [s \in {keyAt(j) : j \in 1..(valueCount - 1)} |->
                       LET j == CHOOSE k \in 1..valueCount : keyAt(k) = s
                       IN  file[pos + 2 * j + 1]]
  IN  [table |-> [table EXCEPT ![file[pos + 1]].table = entries],
       pos   |-> pos + 2 + 2 * valueCount]

\* One turn of the second loop of LoadCheckTable: the entries of the next head node.
LoadEntries(table, file, pos) ==
  LET valueCount == file[pos]
      uk         == file[pos + 1]
      keyAt(j)   == file[pos + 2 * j]
      entries    == [s \in {keyAt(j) : j \in 1..valueCount} |->
                       LET j == CHOOSE k \in 1..valueCount : keyAt(k) = s
                       IN  file[pos + 2 * j + 1]]
  IN  [table |-> [table EXCEPT ![uk].table = entries], pos |-> pos + 2 + 2 * valueCount]

LoadCheckTable(file) ==
  LET count    == file[1]
      keyAt(i) == file[3 * i - 1]
      heads    == [h \in {keyAt(i) : i \in 1..count} |->
                     LET i == CHOOSE k \in 1..count : keyAt(k) = h
                     IN  [end |-> file[3 * i], value |-> file[3 * i + 1],
                          table |-> [s \in {} |-> s]]]
      loaded[i \in 0..count] ==
        IF i = 0 THEN [table |-> heads, pos |-> 3 * count + 2]
        ELSE LET before == loaded[i - 1] IN LoadEntries(before.table, file, before.pos)
  IN  loaded[count].table
=============================================================================
