--------------------------- MODULE MCDecodingTest ---------------------------
(***************************************************************************)
(* The tables, explored in two ways with no state in common: their         *)
(* generator (DecodingTest), and the files that it and main keep them in   *)
(* (TableStore), where programs are killed and power and disks fail.       *)
(***************************************************************************)
EXTENDS DecodingTest, TableStore

VARIABLE explored   \* "generator" or "files"

storeVars == vars

\* The smallest bytes and the largest.
Zeros == [k \in 1..8 |-> 0]
Ones  == [k \in 1..8 |-> Base - 1]
AllGarbage == {Zeros, Ones}
AllTails   == {Zeros, Ones, [k \in 1..8 |-> IF k % 2 = 1 THEN Base \div 2 ELSE 1]}

\* A head node that is a value, and head nodes with one or two entries (States as numbers).
Node(entries) == [end |-> 0, value |-> 0, table |-> entries]
Leaf(v)       == [end |-> 1, value |-> v, table |-> [s \in {} |-> s]]
TwoBuilds == { 1 :> Leaf(5) @@ 2 :> Node(1 :> 7),
               1 :> Node(2 :> 6 @@ 3 :> 8) }

\* One of the two is explored; the other keeps one initial state.
InitOne ==
  /\ explored \in {"generator", "files"} /\ MainInit /\ Init
  /\ explored = "generator" => saving = CHOOSE t \in Tables : TRUE
  /\ explored = "files" => /\ mode = CHOOSE m \in Modes : TRUE
                           /\ garbage = CHOOSE g \in Garbage : TRUE
NextOne ==
  \/ explored = "generator" /\ MainNext /\ UNCHANGED <<explored, storeVars>>
  \/ explored = "files" /\ Next /\ UNCHANGED <<explored, mainVars>>
SpecOne == InitOne /\ [][NextOne]_<<explored, mainVars, storeVars>>

\* Only the files.
InitFiles == InitOne /\ explored = "files"
SpecFiles == InitFiles /\ [][NextOne]_<<explored, mainVars, storeVars>>
=============================================================================
