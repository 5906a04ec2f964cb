----------------------------- MODULE TableStore -----------------------------
(***************************************************************************)
(* The file of one table while programs save and load it, fail and start   *)
(* again: SaveCheckTable and LoadCheckTable of src/DecodingTest.cpp (the   *)
(* latter also in src/IntegerConvertor.cpp) over FileOperator.h, the       *)
(* buffer of stdio, and a file system that keeps what has been synced and  *)
(* any beginning of what has not.                                          *)
(***************************************************************************)
EXTENDS TableFile

CONSTANTS Tables,        \* the tables that are saved (one build or another)
          BufferFields,  \* the fields that the buffer of a FILE holds
          Junk,          \* what a field read outside the allocated memory may be
          MaxFaults      \* bounds the failures of a behaviour

\* A map from keys of head nodes to head nodes, which are records of a flag, a value, and a
\* map from second bytes to States.  Flags, values and States are numbers here.
IsTable(t) ==
  /\ IsFiniteSet(DOMAIN t) /\ DOMAIN t \subseteq Int /\ t = [h \in DOMAIN t |-> t[h]]
  /\ \A h \in DOMAIN t :
       LET table == t[h].table
       IN  /\ t[h] = [end |-> t[h].end, value |-> t[h].value, table |-> table]
           /\ t[h].end \in Int /\ t[h].value \in Int
           /\ IsFiniteSet(DOMAIN table) /\ DOMAIN table \subseteq Int
           /\ table = [s \in DOMAIN table |-> table[s]]
           /\ \A s \in DOMAIN table : table[s] \in Int

\* A count that is negative ends the loops of LoadCheckTable as 0 does: Junk leaves it out.
Parameters ==
  /\ \A t \in Tables : IsTable(t)
  /\ BufferFields \in Nat \ {0} /\ MaxFaults \in Nat /\ Junk \subseteq Nat

ASSUME StoreAssumption == Parameters

\* The contents of a file that does not exist.
Absent == <<-1>>
Beginnings(s, n) == {SubSeq(s, 1, k) : k \in n..Len(s)}

VARIABLES
  pc,        \* where the running program is; "start" when none runs
  saving,    \* the table of the last SaveCheckTable
  file,      \* the contents of the file that programs see
  disk,      \* the contents that the loss of power may leave
  buffer,    \* what the FILE still keeps of what was written
  writesize, \* what fwrite has returned
  faults,    \* how many failures there were
  result,    \* LoadCheckTable's copy of the file
  load       \* LoadCheckTable's other variables

vars == <<pc, saving, file, disk, buffer, writesize, faults, result, load>>

WholeTable == SaveCheckTable(saving)

\* pos; turns left of the first loop, of the second, and of the inner one; its
\* key; checkTable; and whether a field was read outside result.
NoLoad == [pos |-> 1, heads |-> 0, nodes |-> 0, uk |-> 0, entries |-> 0,
           checkTable |-> [k \in {} |-> k], overread |-> FALSE]

Init ==
  /\ pc = "start" /\ saving \in Tables
  /\ file = Absent /\ disk = {Absent}
  /\ buffer = << >> /\ writesize = 0 /\ faults = 0
  /\ result = << >> /\ load = NoLoad

----------------------------------------------------------------------------
\* What fopen(path, "wb+") makes of a file.
Truncated(content) == << >>

OpenToSave(t) ==
  /\ pc = "start"
  /\ pc' = "opened" /\ saving' = t /\ writesize' = 0
  /\ file' = Truncated(file)
  /\ disk' = disk \union {Truncated(file)}
  /\ UNCHANGED <<buffer, faults, result, load>>

\* The contents after s is written to the beginning of them.
Overwritten(content, s) == s \o SubSeq(content, Len(s) + 1, Len(content))

\* fwrite: the FILE passes on what its buffer does not hold.  When the disk is
\* full, less is written than was asked for; SaveCheckTable does not look.
Write ==
  /\ pc = "opened"
  /\ \E n \in 0..Len(WholeTable), passed \in 0..Len(WholeTable) :
       /\ passed <= n /\ n - passed < BufferFields
       /\ n < Len(WholeTable) => faults < MaxFaults
       /\ faults' = IF n < Len(WholeTable) THEN faults + 1 ELSE faults
       /\ writesize' = n
       /\ file' = Overwritten(file, SubSeq(WholeTable, 1, passed))
       /\ buffer' = SubSeq(WholeTable, passed + 1, n)
  /\ disk' = disk \union Beginnings(file', 0)
  /\ pc' = "written"
  /\ UNCHANGED <<saving, result, load>>

\* fsync, which sees nothing of the buffer, and the message "Saved...".
SyncAndReport ==
  /\ pc = "written"
  /\ disk' = {file}
  /\ pc' = "reported"
  /\ UNCHANGED <<saving, file, buffer, writesize, faults, result, load>>

\* Mutant of Close: the end of the buffer is forgotten.
Close_Early ==
  /\ pc = "reported"
  /\ buffer' = << >> /\ writesize' = 0 /\ pc' = "closed"
  /\ UNCHANGED <<saving, file, disk, faults, result, load>>

\* The destructor: fclose writes the buffer; nobody learns when it cannot.
Close ==
  /\ pc = "reported"
  /\ \E n \in 0..Len(buffer) :
       /\ n < Len(buffer) => faults < MaxFaults
       /\ faults' = IF n < Len(buffer) THEN faults + 1 ELSE faults
       /\ file' = Overwritten(file, SubSeq(WholeTable, 1, writesize - Len(buffer) + n))
  /\ disk' = disk \union Beginnings(file', writesize - Len(buffer))
  /\ buffer' = << >> /\ writesize' = 0
  /\ pc' = "closed"
  /\ UNCHANGED <<saving, result, load>>

----------------------------------------------------------------------------
\* map[key] = value, and the map in which map[key] is looked up: a missing key gets value.
Assigned(map, key, value) == [k \in DOMAIN map \cup {key} |-> IF k = key THEN value ELSE map[k]]
Defaulted(map, key, value) == IF key \in DOMAIN map THEN map ELSE Assigned(map, key, value)

\* What a field of result is read as.
Field(p) == IF p <= Len(result) THEN {result[p]} ELSE Junk

\* n fields are copied out of result.
After(n) == [load EXCEPT !.pos = @ + n, !.overread = @ \/ load.pos + n - 1 > Len(result)]

\* Outside the memory of result the program may also be killed.
MayDie == load'.overread /\ pc' = "killed"

\* DecodingTest loads what it has saved; main of IntegerConvertor only loads.
OpenToLoad ==
  /\ pc \in {"start", "closed"}
  /\ IF file = Absent
       THEN pc' = "exited" /\ UNCHANGED result
       ELSE pc' = "count" /\ result' = file
  /\ load' = NoLoad
  /\ UNCHANGED <<saving, file, disk, buffer, writesize, faults>>

LoadStep == UNCHANGED <<saving, file, disk, buffer, writesize, faults, result>>

ReadCount ==
  /\ pc = "count"
  /\ \E count \in Field(load.pos) :
       load' = [After(1) EXCEPT !.heads = count, !.nodes = count]
  /\ pc' = "heads" \/ MayDie
  /\ LoadStep

ReadHead ==
  /\ pc = "heads" /\ load.heads > 0
  /\ \E key \in Field(load.pos), end \in Field(load.pos + 1), value \in Field(load.pos + 2) :
       load' = [After(3) EXCEPT !.heads = @ - 1, !.checkTable =
                  Assigned(@, key, [end |-> end, value |-> value, table |-> [s \in {} |-> s]])]
  /\ pc' = "heads" \/ MayDie
  /\ LoadStep

\* checkTable[uk] makes a node of its own for a key that no head had.
ReadNode ==
  /\ pc = "heads" /\ load.heads = 0 /\ load.entries = 0 /\ load.nodes > 0
  /\ \E valueCount \in Field(load.pos), uk \in Field(load.pos + 1) :
       load' = [After(2) EXCEPT !.nodes = @ - 1, !.entries = valueCount, !.uk = uk,
                  !.checkTable = Defaulted(@, uk, [end |-> 0, value |-> 0, table |-> [s \in {} |-> s]])]
  /\ pc' = "heads" \/ MayDie
  /\ LoadStep

\* Mutant of ReadEntry: pos is not moved on by the key.
ReadEntry_Key ==
  /\ pc = "heads" /\ load.heads = 0 /\ load.entries > 0
  /\ \E key \in Field(load.pos), value \in Field(load.pos + 1) :
       load' = [After(1) EXCEPT !.entries = @ - 1,
                                !.checkTable[load.uk].table = Assigned(@, key, value)]
  /\ pc' = "heads" \/ MayDie
  /\ LoadStep

ReadEntry ==
  /\ pc = "heads" /\ load.heads = 0 /\ load.entries > 0
  /\ \E key \in Field(load.pos), value \in Field(load.pos + 1) :
       load' = [After(2) EXCEPT !.entries = @ - 1,
                                !.checkTable[load.uk].table = Assigned(@, key, value)]
  /\ pc' = "heads" \/ MayDie
  /\ LoadStep

Loaded ==
  /\ pc = "heads" /\ load.heads = 0 /\ load.nodes = 0 /\ load.entries = 0
  /\ pc' = "loaded"
  /\ load' = load
  /\ LoadStep

----------------------------------------------------------------------------
\* The program is over, and another may be started.
Restart ==
  /\ pc \in {"loaded", "exited", "killed"}
  /\ pc' = "start" /\ result' = << >> /\ load' = NoLoad
  /\ UNCHANGED <<saving, file, disk, buffer, writesize, faults>>

\* The program is killed: its buffers are lost, the file is not.
Crash ==
  /\ pc \notin {"start", "loaded", "exited", "killed"} /\ faults < MaxFaults
  /\ pc' = "start" /\ result' = << >> /\ load' = NoLoad
  /\ buffer' = << >> /\ writesize' = 0
  /\ faults' = faults + 1
  /\ UNCHANGED <<saving, file, disk>>

PowerFailure ==
  /\ faults < MaxFaults
  /\ \E content \in disk : file' = content /\ disk' = {content}
  /\ pc' = "start" /\ result' = << >> /\ load' = NoLoad
  /\ buffer' = << >> /\ writesize' = 0
  /\ faults' = faults + 1
  /\ UNCHANGED saving

Next ==
  \/ \E t \in Tables : OpenToSave(t)
  \/ Write \/ SyncAndReport \/ Close
  \/ OpenToLoad \/ ReadCount \/ ReadHead \/ ReadNode \/ ReadEntry \/ Loaded
  \/ Restart \/ Crash \/ PowerFailure

Spec == Init /\ [][Next]_vars

----------------------------------------------------------------------------
Contents == {Absent} \union UNION {Beginnings(SaveCheckTable(t), 0) : t \in Tables}

TypeOK ==
  /\ pc \in {"start", "opened", "written", "reported", "closed",
             "count", "heads", "loaded", "exited", "killed"}
  /\ saving \in Tables
  /\ buffer \in Seq(Int) /\ Len(buffer) < BufferFields
  /\ writesize \in 0..Len(WholeTable)
  /\ faults \in 0..MaxFaults
  /\ load.overread \in BOOLEAN /\ load.heads \in Nat /\ load.nodes \in Nat /\ load.entries \in Nat

\* When LoadCheckTable stayed inside its memory, it has read the file to its end, and has
\* loaded a table that was saved.
InsideMeansWhole ==
  ~load.overread =>
    /\ load.pos = Len(result) + 1
    /\ load.checkTable \in Tables
    /\ SaveCheckTable(load.checkTable) = result

\* What was saved whole is loaded as it was, inside the memory of result, and as
\* LoadCheckTable of TableFile says.
ReloadsTheTable ==
  result = WholeTable =>
    ~load.overread /\ load.checkTable = saving /\ load.checkTable = LoadCheckTable(result)

\* LoadCheckTable, which checks nothing, takes a torn file for a table only by reading
\* outside its memory, and a whole one always for the table that was saved, whatever the
\* file had been through before.
LoadsWholeTables == pc = "loaded" => InsideMeansWhole /\ ReloadsTheTable

\* A save in which nothing fails leaves the whole table, also over a torn one:
\* the destructor writes what fsync has not seen.
CleanSaveStep ==
  pc = "reported" /\ pc' = "closed" /\ writesize = Len(WholeTable) /\ faults' = faults => file' = WholeTable
CleanSaveIsWhole == [][CleanSaveStep]_vars

\* "Saved...", with the size of the whole table, is printed after fsync
\* (DecodingTest.cpp:75-77): the table should outlive the loss of power.
\* It does not: the end of it is still in the buffer of the FILE.
SavedIsDurable ==
  pc = "reported" /\ writesize = Len(WholeTable) => disk = {WholeTable}
=============================================================================
