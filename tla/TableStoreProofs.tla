-------------------------- MODULE TableStoreProofs --------------------------
(***************************************************************************)
(* TableFile and TableStore, for all tables and whatever fails:            *)
(* LoadCheckTable inverts SaveCheckTable, and a file of a table is loaded  *)
(* as the table that was saved, or a field is read outside the memory.     *)
(***************************************************************************)
EXTENDS TableStore, FoldFacts

\* A sequence that holds every element of a set once.
Enumerates(order, s) ==
  /\ order \in Seq(s) /\ Len(order) = Cardinality(s)
  /\ \A k \in s : \E i \in 1..Len(order) : order[i] = k
  /\ \A i, j \in 1..Len(order) : order[i] = order[j] => i = j

\* An element appended to an enumeration of the others.
LEMMA AppendEnumerates ==
  ASSUME NEW s, NEW x \in s, NEW order, IsFiniteSet(s), Enumerates(order, s \ {x})
  PROVE  Enumerates(Append(order, x), s)
<1> DEFINE n == Len(order)
<1>1. order \in Seq(s \ {x}) /\ n \in Nat /\ n = Cardinality(s \ {x}) /\ order \in Seq(s)
  BY DEF Enumerates
<1>2. Cardinality(s \ {x}) = Cardinality(s) - 1 /\ Cardinality(s) \in Nat
  BY FS_RemoveElement, FS_CardinalityType
<1>3. Append(order, x) \in Seq(s) /\ Len(Append(order, x)) = n + 1
  BY <1>1
<1>4. Append(order, x)[n + 1] = x /\ \A i \in 1..n : Append(order, x)[i] = order[i] /\ order[i] \in s \ {x}
  <2>1. \A i \in 1..n : order[i] \in s \ {x}
    BY <1>1
  <2>2. ASSUME NEW i \in 1..n PROVE Append(order, x)[i] = order[i]
    BY <1>1
  <2>3. Append(order, x)[n + 1] = x
    BY <1>1
  <2> QED
    BY <2>1, <2>2, <2>3
<1>5. ASSUME NEW k \in s PROVE \E i \in 1..(n + 1) : Append(order, x)[i] = k
  <2>1. CASE k = x
    BY <1>1, <1>4, <2>1
  <2>2. CASE k # x
    <3>1. PICK i \in 1..n : order[i] = k
      BY <2>2 DEF Enumerates
    <3> QED
      BY <1>1, <1>4, <3>1
  <2> QED
    BY <2>1, <2>2
<1>6. ASSUME NEW i \in 1..(n + 1), NEW j \in 1..(n + 1), Append(order, x)[i] = Append(order, x)[j]
      PROVE  i = j
  <2>1. (i \in 1..n \/ i = n + 1) /\ (j \in 1..n \/ j = n + 1)
    BY <1>1
  <2>2. CASE i \in 1..n /\ j \in 1..n
    BY <1>4, <1>6, <2>2 DEF Enumerates
  <2>3. CASE i = n + 1 \/ j = n + 1
    BY <1>4, <1>6, <2>1, <2>3
  <2> QED
    BY <2>1, <2>2, <2>3
<1> QED
  <2>1. Len(Append(order, x)) = Cardinality(s)
    BY <1>1, <1>2, <1>3
  <2> QED
    BY <1>3, <1>5, <1>6, <2>1 DEF Enumerates

\* A hash table iterates over each of its keys once.
LEMMA InOrderEnumerates ==
  ASSUME NEW K, IsFiniteSet(K)
  PROVE  Enumerates(InOrder(K), K)
<1> DEFINE V == Seq(K)
           step == [k \in K |-> [order \in V |-> Append(order, k)]]
           tab == CHOOSE g : g = [s \in SUBSET K |->
                    IF s = {} THEN << >> ELSE Append(g[s \ {CHOOSE x \in s : TRUE}], CHOOSE x \in s : TRUE)]
<1>1. InOrder(K) = tab[K]
  BY DEF InOrder, FoldSet, MapThenFoldSet
<1>2. << >> \in V /\ step \in [K -> [V -> V]]
  <2>1. \A k \in K : \A order \in Seq(K) : Append(order, k) \in Seq(K)
    OBVIOUS
  <2> QED
    BY <2>1
<1>3. \A k \in K : \A order \in V : step[k][order] = Append(order, k)
  OBVIOUS
<1> HIDE DEF V, step
<1>4. PICK g \in Folds(K, V, << >>, step) : TRUE
  BY <1>2, FoldExists
<1>5. g \in [SUBSET K -> V] /\ g[{}] = << >>
      /\ \A s \in SUBSET K : s # {} => g[s] = step[Pick(s)][g[s \ {Pick(s)}]]
  BY <1>4 DEF Folds
<1>6. ASSUME NEW s \in SUBSET K, s # {} PROVE g[s] = Append(g[s \ {Pick(s)}], Pick(s))
  <2>1. Pick(s) \in K /\ g[s \ {Pick(s)}] \in V
    BY <1>5, <1>6, Subsets
  <2> QED
    BY <1>3, <1>5, <1>6, <2>1
<1>7. \A s \in SUBSET K : g[s] = IF s = {} THEN << >>
         ELSE Append(g[s \ {CHOOSE x \in s : TRUE}], CHOOSE x \in s : TRUE)
  BY <1>5, <1>6 DEF Pick
<1>8. g = [s \in SUBSET K |->
             IF s = {} THEN << >> ELSE Append(g[s \ {CHOOSE x \in s : TRUE}], CHOOSE x \in s : TRUE)]
  BY <1>5, <1>7
<1>9. tab = [s \in SUBSET K |->
             IF s = {} THEN << >> ELSE Append(tab[s \ {CHOOSE x \in s : TRUE}], CHOOSE x \in s : TRUE)]
  BY <1>8
<1> HIDE DEF tab
<1>10. tab[{}] = << >> /\ \A s \in SUBSET K : s # {} => tab[s] = Append(tab[s \ {Pick(s)}], Pick(s))
  BY <1>9 DEF Pick
<1> DEFINE T == {n \in 0..Cardinality(K) : \A s \in SUBSET K : Cardinality(s) = n => Enumerates(tab[s], s)}
<1>11. Cardinality(K) \in Nat
  BY Subsets
<1>12. 0 \in T
  <2>1. Enumerates(<< >>, {})
    BY FS_EmptySet DEF Enumerates
  <2>2. \A s \in SUBSET K : Cardinality(s) = 0 => s = {}
    BY Subsets
  <2>3. \A s \in SUBSET K : Cardinality(s) = 0 => Enumerates(tab[s], s)
    BY <1>10, <2>1, <2>2
  <2>4. 0 \in 0..Cardinality(K)
    BY <1>11
  <2> QED
    BY <2>3, <2>4
<1>13. ASSUME NEW n \in 0..(Cardinality(K) - 1), n \in T PROVE n + 1 \in T
  <2>1. n + 1 \in 0..Cardinality(K) /\ n \in Nat
    BY <1>11
  <2>2. ASSUME NEW s \in SUBSET K, Cardinality(s) = n + 1 PROVE Enumerates(tab[s], s)
    <3>1. s # {} /\ Pick(s) \in s /\ Cardinality(s \ {Pick(s)}) = n /\ IsFiniteSet(s)
      BY <2>1, <2>2, Subsets, FS_Subset
    <3>2. Enumerates(tab[s \ {Pick(s)}], s \ {Pick(s)})
      BY <1>13, <3>1
    <3>3. Enumerates(Append(tab[s \ {Pick(s)}], Pick(s)), s)
      BY <3>1, <3>2, AppendEnumerates
    <3> QED
      BY <1>10, <3>1, <3>3
  <2> QED
    BY <2>1, <2>2
<1> HIDE DEF T
<1>14. 0..Cardinality(K) \subseteq T
  BY <1>11, <1>12, <1>13, InductionUpTo
<1>15. Enumerates(tab[K], K)
  BY <1>11, <1>14 DEF T
<1> QED
  BY <1>1, <1>15
----------------------------------------------------------------------------
(* The layout of a file *)

HeadsOf(t) == InOrder(DOMAIN t)
HeadNode(t, j) == t[HeadsOf(t)[j]]
EntriesOf(t, j) == InOrder(DOMAIN HeadNode(t, j).table)

\* Where the entries of each head node begin, and after the last one where the file ends.
NodeStarts(t) ==
  LET at[j \in 0..Len(HeadsOf(t))] ==
        IF j = 0 THEN 3 * Len(HeadsOf(t)) + 2 ELSE at[j - 1] + (2 + 2 * Len(EntriesOf(t, j)))
  IN  at

\* A table whose keys, ends, values and States are in F, as the counts in its file are.
TableOver(t, F) ==
  /\ Nat \subseteq F
  /\ IsFiniteSet(DOMAIN t) /\ DOMAIN t \subseteq F /\ t = [h \in DOMAIN t |-> t[h]]
  /\ \A h \in DOMAIN t :
       LET table == t[h].table
       IN  /\ t[h] = [end |-> t[h].end, value |-> t[h].value, table |-> table]
           /\ t[h].end \in F /\ t[h].value \in F
           /\ IsFiniteSet(DOMAIN table) /\ DOMAIN table \subseteq F
           /\ table = [s \in DOMAIN table |-> table[s]]
           /\ \A s \in DOMAIN table : table[s] \in F

\* The keys of a table, in the order of the file.
LEMMA HeadFacts ==
  ASSUME NEW F, NEW t, TableOver(t, F)
  PROVE  /\ Len(HeadsOf(t)) \in Nat /\ HeadsOf(t) \in Seq(F)
         /\ \A j \in 1..Len(HeadsOf(t)) : HeadsOf(t)[j] \in DOMAIN t /\ HeadsOf(t)[j] \in F
         /\ \A h \in DOMAIN t : \E j \in 1..Len(HeadsOf(t)) : HeadsOf(t)[j] = h
         /\ \A i, j \in 1..Len(HeadsOf(t)) : HeadsOf(t)[i] = HeadsOf(t)[j] => i = j
<1>1. IsFiniteSet(DOMAIN t) /\ DOMAIN t \subseteq F
  BY DEF TableOver
<1>2. Enumerates(HeadsOf(t), DOMAIN t)
  BY <1>1, InOrderEnumerates DEF HeadsOf
<1>3. HeadsOf(t) \in Seq(DOMAIN t)
  BY <1>2 DEF Enumerates
<1>4. HeadsOf(t) \in Seq(F)
  BY <1>1, <1>3
<1> QED
  BY <1>2, <1>3, <1>4 DEF Enumerates

\* A sequence that holds every key of a table of entries once.
Iterates(entries, table, F) ==
  /\ Len(entries) \in Nat /\ entries \in Seq(F)
  /\ \A j \in 1..Len(entries) :
       entries[j] \in DOMAIN table /\ entries[j] \in F /\ table[entries[j]] \in F
  /\ \A s \in DOMAIN table : \E j \in 1..Len(entries) : entries[j] = s
  /\ \A i, j \in 1..Len(entries) : entries[i] = entries[j] => i = j

\* A head node, and the keys of its entries.
LEMMA NodeFacts ==
  ASSUME NEW F, NEW t, TableOver(t, F), NEW h \in DOMAIN t
  PROVE  /\ t[h].end \in F /\ t[h].value \in F
         /\ t[h] = [end |-> t[h].end, value |-> t[h].value, table |-> t[h].table]
         /\ t[h].table = [s \in DOMAIN t[h].table |-> t[h].table[s]]
         /\ Iterates(InOrder(DOMAIN t[h].table), t[h].table, F)
<1> DEFINE table == t[h].table
           entries == InOrder(DOMAIN table)
<1>1. /\ t[h] = [end |-> t[h].end, value |-> t[h].value, table |-> table]
      /\ t[h].end \in F /\ t[h].value \in F
      /\ IsFiniteSet(DOMAIN table) /\ DOMAIN table \subseteq F
      /\ table = [s \in DOMAIN table |-> table[s]]
      /\ \A s \in DOMAIN table : table[s] \in F
  BY DEF TableOver
<1> HIDE DEF table
<1>2. Enumerates(entries, DOMAIN table)
  BY <1>1, InOrderEnumerates
<1> HIDE DEF entries
<1>3. entries \in Seq(DOMAIN table)
  BY <1>2 DEF Enumerates
<1>4. entries \in Seq(F) /\ Len(entries) \in Nat
  BY <1>1, <1>3
<1>5. \A j \in 1..Len(entries) : entries[j] \in DOMAIN table /\ entries[j] \in F /\ table[entries[j]] \in F
  BY <1>1, <1>3
<1>6. /\ \A s \in DOMAIN table : \E j \in 1..Len(entries) : entries[j] = s
      /\ \A i, j \in 1..Len(entries) : entries[i] = entries[j] => i = j
  BY <1>2 DEF Enumerates
<1> QED
  BY <1>1, <1>4, <1>5, <1>6 DEF table, entries, Iterates

\* The number of entries, the key of the head node, and key and State of each entry.
EntriesLaid(fields, h, seconds, table) ==
  /\ Len(fields) = 2 + 2 * Len(seconds)
  /\ fields[1] = Len(seconds) /\ fields[2] = h
  /\ \A q \in 1..Len(seconds) : fields[1 + 2 * q] = seconds[q] /\ fields[2 + 2 * q] = table[seconds[q]]

\* The fields of a head node are its entries, in the order of the hash table.
LEMMA EntryFieldsLaid ==
  ASSUME NEW F, NEW t, TableOver(t, F), NEW h \in DOMAIN t
  PROVE  /\ EntryFields(h, t[h]) \in Seq(F)
         /\ EntriesLaid(EntryFields(h, t[h]), h, InOrder(DOMAIN t[h].table), t[h].table)
<1> DEFINE seconds == InOrder(DOMAIN t[h].table)
           table == t[h].table
           pairs == [j \in 1..Len(seconds) |-> <<seconds[j], table[seconds[j]]>>]
           flat == FlattenSeq(pairs)
           front == <<Len(seconds), h>>
<1>1. Len(seconds) \in Nat /\ \A j \in 1..Len(seconds) : seconds[j] \in F /\ table[seconds[j]] \in F
  <2>1. Iterates(seconds, table, F)
    BY NodeFacts
  <2> QED
    BY <2>1 DEF Iterates
<1>2. h \in F
  BY DEF TableOver
<1>3. EntryFields(h, t[h]) = front \o flat
  BY DEF EntryFields
<1> HIDE DEF seconds, table
<1>4. pairs \in Seq(Seq(F)) /\ Len(pairs) = Len(seconds)
  <2>1. \A j \in 1..Len(seconds) : <<seconds[j], table[seconds[j]]>> \in Seq(F)
    BY <1>1
  <2> QED
    BY <1>1, <2>1
<1>5. \A j \in 1..Len(pairs) : Len(pairs[j]) = 2 /\ pairs[j][1] = seconds[j] /\ pairs[j][2] = table[seconds[j]]
  BY <1>4
<1> HIDE DEF pairs
<1>6. flat \in Seq(F) /\ Len(flat) = 2 * Len(seconds)
      /\ \A i \in 1..Len(pairs), q \in 1..2 : flat[2 * (i - 1) + q] = pairs[i][q]
  <2>1. 2 \in Nat /\ pairs \in Seq(Seq(F)) /\ \A j \in 1..Len(pairs) : Len(pairs[j]) = 2
    BY <1>4, <1>5
  <2>2. flat \in Seq(F) /\ Len(flat) = 2 * Len(pairs)
        /\ \A i \in 1..Len(pairs), q \in 1..2 : flat[2 * (i - 1) + q] = pairs[i][q]
    <3>1. flat \in Seq(F) /\ LaidEvery(2, flat, pairs)
      BY <2>1, FlattenUniform
    <3> QED
      BY <3>1 DEF LaidEvery
  <2> QED
    BY <1>4, <2>2
<1> HIDE DEF flat
<1>7. front \in Seq(F) /\ Len(front) = 2 /\ front[1] = Len(seconds) /\ front[2] = h
  BY <1>1, <1>2 DEF TableOver
<1> HIDE DEF front
<1>a. front \in Seq(F) /\ flat \in Seq(F)
  BY <1>6, <1>7
<1>b. /\ front \o flat \in Seq(F) /\ Len(front \o flat) = Len(front) + Len(flat)
      /\ \A q \in 1..Len(front) : (front \o flat)[q] = front[q]
      /\ \A q \in 1..Len(flat) : (front \o flat)[Len(front) + q] = flat[q]
  BY <1>a, Concatenation DEF Concatenates
<1>8. /\ front \o flat \in Seq(F) /\ Len(front \o flat) = 2 + 2 * Len(seconds)
      /\ (front \o flat)[1] = Len(seconds) /\ (front \o flat)[2] = h
  BY <1>6, <1>7, <1>b
<1>9. ASSUME NEW q \in 1..Len(seconds)
      PROVE (front \o flat)[1 + 2 * q] = seconds[q] /\ (front \o flat)[2 + 2 * q] = table[seconds[q]]
  <2>1. \A p \in 1..Len(flat) : (front \o flat)[2 + p] = flat[p]
    BY <1>7, <1>b
  <2>2. 2 * (q - 1) + 1 \in 1..Len(flat) /\ 2 * (q - 1) + 2 \in 1..Len(flat)
    BY <1>1, <1>6
  <2>3. 2 + (2 * (q - 1) + 1) = 1 + 2 * q /\ 2 + (2 * (q - 1) + 2) = 2 + 2 * q
    BY <1>1
  <2>4. flat[2 * (q - 1) + 1] = seconds[q] /\ flat[2 * (q - 1) + 2] = table[seconds[q]]
    <3>1. q \in 1..Len(pairs) /\ 1 \in 1..2 /\ 2 \in 1..2
      BY <1>4
    <3>2. flat[2 * (q - 1) + 1] = pairs[q][1] /\ flat[2 * (q - 1) + 2] = pairs[q][2]
      BY <1>6, <3>1
    <3> QED
      BY <1>5, <3>1, <3>2
  <2>5. (front \o flat)[2 + (2 * (q - 1) + 1)] = seconds[q]
    BY <2>1, <2>2, <2>4
  <2>6. (front \o flat)[2 + (2 * (q - 1) + 2)] = table[seconds[q]]
    BY <2>1, <2>2, <2>4
  <2> QED
    BY <2>3, <2>5, <2>6
<1> QED
  BY <1>3, <1>8, <1>9 DEF seconds, table, EntriesLaid

\* What stands where in the file of a table.
HeadsLaid(t) ==
  \A k \in 1..Len(HeadsOf(t)) :
    /\ SaveCheckTable(t)[3 * k - 1] = HeadsOf(t)[k]
    /\ SaveCheckTable(t)[3 * k] = HeadNode(t, k).end
    /\ SaveCheckTable(t)[3 * k + 1] = HeadNode(t, k).value
NodesLaid(t) ==
  \A j \in 1..Len(HeadsOf(t)) :
    /\ SaveCheckTable(t)[NodeStarts(t)[j - 1]] = Len(EntriesOf(t, j))
    /\ SaveCheckTable(t)[NodeStarts(t)[j - 1] + 1] = HeadsOf(t)[j]
    /\ \A q \in 1..Len(EntriesOf(t, j)) :
         /\ SaveCheckTable(t)[NodeStarts(t)[j - 1] + 2 * q] = EntriesOf(t, j)[q]
         /\ SaveCheckTable(t)[NodeStarts(t)[j - 1] + 2 * q + 1] = HeadNode(t, j).table[EntriesOf(t, j)[q]]
StartsLaid(t) ==
  /\ NodeStarts(t) \in [0..Len(HeadsOf(t)) -> Nat]
  /\ NodeStarts(t)[0] = 3 * Len(HeadsOf(t)) + 2
  /\ \A j \in 1..Len(HeadsOf(t)) :
       /\ NodeStarts(t)[j] = NodeStarts(t)[j - 1] + (2 + 2 * Len(EntriesOf(t, j)))
       /\ NodeStarts(t)[j] <= Len(SaveCheckTable(t)) + 1
  /\ NodeStarts(t)[Len(HeadsOf(t))] = Len(SaveCheckTable(t)) + 1

LEMMA WholeLaid ==
  ASSUME NEW F, NEW t, TableOver(t, F)
  PROVE  /\ SaveCheckTable(t) \in Seq(F) /\ SaveCheckTable(t)[1] = Len(HeadsOf(t))
         /\ HeadsLaid(t) /\ NodesLaid(t) /\ StartsLaid(t)
<1> DEFINE heads == HeadsOf(t)
           n == Len(heads)
           headers == [j \in 1..n |-> <<heads[j], t[heads[j]].end, t[heads[j]].value>>]
           nodes == [j \in 1..n |-> EntryFields(heads[j], t[heads[j]])]
           flat1 == FlattenSeq(headers)
           flat2 == FlattenSeq(nodes)
           file1 == <<n>> \o flat1
           whole == file1 \o flat2
<1>1. n \in Nat /\ \A j \in 1..n : heads[j] \in DOMAIN t /\ heads[j] \in F
  BY HeadFacts
<1>2. SaveCheckTable(t) = whole
  BY DEF SaveCheckTable, HeadsOf
<1> HIDE DEF heads
<1>3. \A j \in 1..n : t[heads[j]].end \in F /\ t[heads[j]].value \in F
  BY <1>1, NodeFacts
<1> HIDE DEF n
<1>4. /\ headers \in Seq(Seq(F)) /\ Len(headers) = n
      /\ \A j \in 1..n : /\ Len(headers[j]) = 3 /\ headers[j][1] = heads[j]
                         /\ headers[j][2] = t[heads[j]].end /\ headers[j][3] = t[heads[j]].value
  <2>1. ASSUME NEW j \in 1..n
        PROVE  /\ headers[j] \in Seq(F) /\ Len(headers[j]) = 3 /\ headers[j][1] = heads[j]
               /\ headers[j][2] = t[heads[j]].end /\ headers[j][3] = t[heads[j]].value
    <3> DEFINE x == heads[j]
               y == t[heads[j]].end
               z == t[heads[j]].value
    <3>1. headers[j] = <<x, y, z>> /\ x \in F /\ y \in F /\ z \in F
      BY <1>1, <1>3
    <3> HIDE DEF x, y, z, headers
    <3>2. headers[j] \in Seq(F) /\ Len(headers[j]) = 3 /\ headers[j][1] = x /\ headers[j][2] = y /\ headers[j][3] = z
      BY <3>1
    <3> QED
      BY <3>2 DEF x, y, z
  <2>2. headers = [j \in 1..n |-> headers[j]]
    OBVIOUS
  <2> HIDE DEF headers
  <2>3. headers \in Seq(Seq(F)) /\ Len(headers) = n
    BY <1>1, <2>1, <2>2, FunctionIsSeq
  <2> QED
    BY <2>1, <2>3
<1>5. /\ nodes \in Seq(Seq(F)) /\ Len(nodes) = n
      /\ \A j \in 1..n :
           /\ Len(nodes[j]) = 2 + 2 * Len(EntriesOf(t, j))
           /\ nodes[j][1] = Len(EntriesOf(t, j)) /\ nodes[j][2] = heads[j]
           /\ \A q \in 1..Len(EntriesOf(t, j)) :
                /\ nodes[j][1 + 2 * q] = EntriesOf(t, j)[q]
                /\ nodes[j][2 + 2 * q] = HeadNode(t, j).table[EntriesOf(t, j)[q]]
           /\ Len(EntriesOf(t, j)) \in Nat
  <2>1. ASSUME NEW j \in 1..n
        PROVE  /\ nodes[j] \in Seq(F)
               /\ Len(nodes[j]) = 2 + 2 * Len(EntriesOf(t, j))
               /\ nodes[j][1] = Len(EntriesOf(t, j)) /\ nodes[j][2] = heads[j]
               /\ \A q \in 1..Len(EntriesOf(t, j)) :
                    /\ nodes[j][1 + 2 * q] = EntriesOf(t, j)[q]
                    /\ nodes[j][2 + 2 * q] = HeadNode(t, j).table[EntriesOf(t, j)[q]]
               /\ Len(EntriesOf(t, j)) \in Nat
    <3>1. heads[j] \in DOMAIN t /\ nodes[j] = EntryFields(heads[j], t[heads[j]])
      BY <1>1
    <3>2. EntriesOf(t, j) = InOrder(DOMAIN t[heads[j]].table) /\ HeadNode(t, j) = t[heads[j]]
      BY DEF EntriesOf, HeadNode, heads
    <3> HIDE DEF nodes
    <3>3. Len(EntriesOf(t, j)) \in Nat
      BY <3>1, <3>2, NodeFacts DEF Iterates
    <3>4. /\ EntryFields(heads[j], t[heads[j]]) \in Seq(F)
          /\ EntriesLaid(EntryFields(heads[j], t[heads[j]]), heads[j], InOrder(DOMAIN t[heads[j]].table), t[heads[j]].table)
      BY <3>1, EntryFieldsLaid
    <3>5. nodes[j] \in Seq(F) /\ EntriesLaid(nodes[j], heads[j], EntriesOf(t, j), HeadNode(t, j).table)
      BY <3>1, <3>2, <3>4
    <3> QED
      BY <3>3, <3>5 DEF EntriesLaid
  <2>2. nodes \in Seq(Seq(F)) /\ Len(nodes) = n
    BY <1>1, <2>1
  <2> HIDE DEF nodes
  <2> QED
    BY <2>1, <2>2
<1> HIDE DEF headers, nodes
<1>6. flat1 \in Seq(F) /\ LaidEvery(3, flat1, headers)
  <2>1. 3 \in Nat /\ \A j \in 1..Len(headers) : Len(headers[j]) = 3
    BY <1>4
  <2> QED
    BY <1>4, <2>1, FlattenUniform
<1>7. flat2 \in Seq(F) /\ \E off \in Offsets(nodes) : Laid(flat2, nodes, off)
  BY <1>5, FlattenLayout
<1>8. PICK off \in Offsets(nodes) : Laid(flat2, nodes, off)
  BY <1>7
<1> HIDE DEF flat1, flat2
<1>9. file1 \in Seq(F) /\ Len(file1) = 3 * n + 1 /\ file1[1] = n
      /\ \A p \in 1..(3 * n) : file1[1 + p] = flat1[p]
  <2> DEFINE front == <<n>>
  <2>1. front \in Seq(F) /\ Len(front) = 1 /\ front[1] = n
    BY <1>1 DEF TableOver
  <2> HIDE DEF front
  <2>2. /\ front \o flat1 \in Seq(F) /\ Len(front \o flat1) = Len(front) + Len(flat1)
        /\ \A q \in 1..Len(front) : (front \o flat1)[q] = front[q]
        /\ \A q \in 1..Len(flat1) : (front \o flat1)[Len(front) + q] = flat1[q]
    <3>1. front \o flat1 \in Seq(F) /\ Concatenates(front \o flat1, front, flat1)
      BY <1>6, <2>1, Concatenation
    <3> QED
      BY <3>1 DEF Concatenates
  <2>3. Len(flat1) = 3 * n
    BY <1>4, <1>6 DEF LaidEvery
  <2>4. front \o flat1 = file1
    BY DEF front
  <2> HIDE DEF file1
  <2> QED
    BY <1>1, <2>1, <2>2, <2>3, <2>4
<1> HIDE DEF file1
<1>10. /\ whole \in Seq(F) /\ Len(whole) = Len(file1) + Len(flat2) /\ Len(flat2) \in Nat
       /\ \A q \in 1..Len(file1) : whole[q] = file1[q]
       /\ \A q \in 1..Len(flat2) : whole[Len(file1) + q] = flat2[q]
  <2>1. whole \in Seq(F) /\ Concatenates(whole, file1, flat2)
    BY <1>7, <1>9, Concatenation
  <2> QED
    BY <2>1 DEF Concatenates
<1> HIDE DEF whole
<1>11. whole[1] = n
  BY <1>1, <1>9, <1>10
<1>12. ASSUME NEW k \in 1..n
       PROVE  whole[3 * k - 1] = heads[k] /\ whole[3 * k] = t[heads[k]].end /\ whole[3 * k + 1] = t[heads[k]].value
  <2>1. \A q \in 1..3 : 3 * (k - 1) + q \in 1..(3 * n) /\ 1 + (3 * (k - 1) + q) \in 1..(3 * n + 1)
    BY <1>1
  <2>2. \A q \in 1..3 : flat1[3 * (k - 1) + q] = headers[k][q]
    BY <1>4, <1>6 DEF LaidEvery
  <2>3. \A q \in 1..3 : whole[1 + (3 * (k - 1) + q)] = headers[k][q]
    BY <1>9, <1>10, <2>1, <2>2
  <2>4. 1 + (3 * (k - 1) + 1) = 3 * k - 1 /\ 1 + (3 * (k - 1) + 2) = 3 * k /\ 1 + (3 * (k - 1) + 3) = 3 * k + 1
    BY <1>1
  <2>5. whole[3 * k - 1] = headers[k][1] /\ whole[3 * k] = headers[k][2] /\ whole[3 * k + 1] = headers[k][3]
    BY <2>3, <2>4
  <2> QED
    BY <1>4, <2>5
<1> DEFINE starts == [j \in 0..n |-> 3 * n + 2 + off[j]]
<1>13. off \in [0..n -> Nat] /\ off[0] = 0
       /\ \A j \in 1..n : off[j] = off[j - 1] + (2 + 2 * Len(EntriesOf(t, j)))
  <2>1. off \in [0..n -> Nat] /\ off[0] = 0 /\ \A j \in 1..n : off[j] = off[j - 1] + Len(nodes[j])
    BY <1>5, <1>8 DEF Offsets
  <2>2. \A j \in 1..n : Len(nodes[j]) = 2 + 2 * Len(EntriesOf(t, j))
    BY <1>5
  <2> QED
    BY <2>1, <2>2, Zenon
<1>14. /\ starts \in [0..n -> Nat] /\ starts[0] = 3 * n + 2
       /\ \A j \in 0..n : starts[j] = 3 * n + 2 + off[j]
  BY <1>1, <1>13
<1>15. NodeStarts(t) = starts
  <2> DEFINE at == CHOOSE g : g = [j \in 0..n |->
                     IF j = 0 THEN 3 * n + 2 ELSE g[j - 1] + (2 + 2 * Len(EntriesOf(t, j)))]
  <2>1. NodeStarts(t) = at
    BY DEF NodeStarts, n, heads
  <2> HIDE DEF starts
  <2>2. \A j \in 0..n : starts[j] = IF j = 0 THEN 3 * n + 2 ELSE starts[j - 1] + (2 + 2 * Len(EntriesOf(t, j)))
    <3> TAKE j \in 0..n
    <3>1. CASE j = 0
      BY <1>14, <3>1
    <3>2. CASE j # 0
      <4>1. j \in 1..n /\ j - 1 \in 0..n
        BY <1>1, <3>2
      <4>2. off[j] = off[j - 1] + (2 + 2 * Len(EntriesOf(t, j))) /\ off[j - 1] \in Nat /\ Len(EntriesOf(t, j)) \in Nat
        BY <1>5, <1>13, <4>1
      <4>3. starts[j] = 3 * n + 2 + off[j] /\ starts[j - 1] = 3 * n + 2 + off[j - 1]
        BY <1>14, <4>1
      <4> QED
        BY <1>1, <3>2, <4>2, <4>3
    <3> QED
      BY <3>1, <3>2
  <2>3. starts = [j \in 0..n |-> IF j = 0 THEN 3 * n + 2 ELSE starts[j - 1] + (2 + 2 * Len(EntriesOf(t, j)))]
    BY <1>14, <2>2
  <2>4. at = [j \in 0..n |-> IF j = 0 THEN 3 * n + 2 ELSE at[j - 1] + (2 + 2 * Len(EntriesOf(t, j)))]
    BY <2>3
  <2> HIDE DEF at
  <2> DEFINE T == {j \in 0..n : at[j] = starts[j]}
  <2>5. 0 \in T
    BY <1>1, <1>14, <2>4
  <2>6. ASSUME NEW j \in 0..(n - 1), j \in T PROVE j + 1 \in T
    <3>1. j + 1 \in 0..n /\ j + 1 # 0 /\ (j + 1) - 1 = j
      BY <1>1
    <3>2. at[j + 1] = at[j] + (2 + 2 * Len(EntriesOf(t, j + 1)))
      BY <2>4, <3>1
    <3>3. starts[j + 1] = starts[j] + (2 + 2 * Len(EntriesOf(t, j + 1)))
      BY <2>2, <3>1
    <3> QED
      BY <2>6, <3>1, <3>2, <3>3
  <2> HIDE DEF T
  <2>7. 0..n \subseteq T
    BY <1>1, <2>5, <2>6, InductionUpTo
  <2>8. \A j \in 0..n : at[j] = starts[j]
    BY <2>7 DEF T
  <2> QED
    BY <2>1, <2>3, <2>4, <2>8
<1> HIDE DEF starts
<1>16. \A j \in 0..n : starts[j] = Len(file1) + (1 + off[j])
  BY <1>1, <1>9, <1>13, <1>14
<1>17. ASSUME NEW j \in 1..n
       PROVE  /\ whole[starts[j - 1]] = Len(EntriesOf(t, j)) /\ whole[starts[j - 1] + 1] = heads[j]
              /\ \A q \in 1..Len(EntriesOf(t, j)) :
                   /\ whole[starts[j - 1] + 2 * q] = EntriesOf(t, j)[q]
                   /\ whole[starts[j - 1] + 2 * q + 1] = HeadNode(t, j).table[EntriesOf(t, j)[q]]
              /\ starts[j] = starts[j - 1] + (2 + 2 * Len(EntriesOf(t, j)))
              /\ starts[j] <= Len(whole) + 1
  <2>1. j - 1 \in 0..n /\ j \in 0..n
    BY <1>1
  <2> DEFINE o == off[j - 1]
             m == Len(EntriesOf(t, j))
             f == Len(file1)
  <2>2. o \in Nat /\ m \in Nat /\ f \in Nat /\ starts[j - 1] = f + (1 + o) /\ off[j] = o + (2 + 2 * m)
        /\ starts[j] = f + (1 + off[j]) /\ Len(nodes[j]) = 2 + 2 * m
    <3>1. o \in Nat /\ off[j] = o + (2 + 2 * m)
      BY <1>13, <2>1
    <3>2. m \in Nat /\ Len(nodes[j]) = 2 + 2 * m
      BY <1>5
    <3>3. f \in Nat
      BY <1>1, <1>9
    <3>4. starts[j - 1] = f + (1 + o) /\ starts[j] = f + (1 + off[j])
      BY <1>16, <2>1
    <3> QED
      BY <3>1, <3>2, <3>3, <3>4
  <2>3. off[j] <= Len(flat2) /\ \A q \in 1..(2 + 2 * m) : flat2[o + q] = nodes[j][q]
    <3>1. Len(nodes) = n /\ Len(nodes[j]) = 2 + 2 * m
      BY <1>5
    <3>2. \A i \in 1..Len(nodes) :
            off[i] <= Len(flat2) /\ \A q \in 1..Len(nodes[i]) : flat2[off[i - 1] + q] = nodes[i][q]
      BY <1>8 DEF Laid
    <3>3. off[j] <= Len(flat2) /\ \A q \in 1..Len(nodes[j]) : flat2[off[j - 1] + q] = nodes[j][q]
      BY <3>1, <3>2
    <3> QED
      BY <3>1, <3>3
  <2>4. \A q \in 1..Len(flat2) : whole[f + q] = flat2[q]
    BY <1>10
  <2>a. Len(whole) = f + Len(flat2) /\ Len(flat2) \in Nat /\ off[j] \in Nat
    BY <1>10, <1>13, <2>1
  <2> HIDE DEF o, m, f
  <2>5. \A q \in 1..(2 + 2 * m) : o + q \in 1..Len(flat2) /\ whole[f + (o + q)] = nodes[j][q]
    BY <2>2, <2>3, <2>4, <2>a
  <2>6. \A q \in 1..(2 + 2 * m) : f + (o + q) = starts[j - 1] + (q - 1)
    BY <2>2
  <2>7. \A q \in 1..(2 + 2 * m) : whole[starts[j - 1] + (q - 1)] = nodes[j][q]
    BY <2>5, <2>6
  <2>8. nodes[j][1] = m /\ nodes[j][2] = heads[j]
        /\ \A q \in 1..m : /\ nodes[j][1 + 2 * q] = EntriesOf(t, j)[q]
                           /\ nodes[j][2 + 2 * q] = HeadNode(t, j).table[EntriesOf(t, j)[q]]
    BY <1>5 DEF m
  <2>9. starts[j - 1] \in Nat
    BY <2>2
  <2>10. whole[starts[j - 1]] = m /\ whole[starts[j - 1] + 1] = heads[j]
    <3>1. 1 \in 1..(2 + 2 * m) /\ 2 \in 1..(2 + 2 * m)
      BY <2>2
    <3>2. starts[j - 1] + (1 - 1) = starts[j - 1] /\ starts[j - 1] + (2 - 1) = starts[j - 1] + 1
      BY <2>9
    <3>3. whole[starts[j - 1] + (1 - 1)] = nodes[j][1] /\ whole[starts[j - 1] + (2 - 1)] = nodes[j][2]
      BY <2>7, <3>1
    <3> QED
      BY <2>8, <3>2, <3>3
  <2>11. ASSUME NEW q \in 1..m
         PROVE /\ whole[starts[j - 1] + 2 * q] = EntriesOf(t, j)[q]
               /\ whole[starts[j - 1] + 2 * q + 1] = HeadNode(t, j).table[EntriesOf(t, j)[q]]
    <3>1. 1 + 2 * q \in 1..(2 + 2 * m) /\ 2 + 2 * q \in 1..(2 + 2 * m)
      BY <2>2
    <3>2. starts[j - 1] + ((1 + 2 * q) - 1) = starts[j - 1] + 2 * q
          /\ starts[j - 1] + ((2 + 2 * q) - 1) = starts[j - 1] + 2 * q + 1
      BY <2>9
    <3>3. whole[starts[j - 1] + ((1 + 2 * q) - 1)] = nodes[j][1 + 2 * q]
          /\ whole[starts[j - 1] + ((2 + 2 * q) - 1)] = nodes[j][2 + 2 * q]
      BY <2>7, <3>1
    <3> QED
      BY <2>8, <3>2, <3>3
  <2>12. starts[j] = starts[j - 1] + (2 + 2 * m) /\ starts[j] <= Len(whole) + 1
    BY <2>2, <2>3, <2>a
  <2> QED
    BY <2>10, <2>11, <2>12 DEF m
<1>18. starts[n] = Len(whole) + 1
  <2>1. n \in 0..n /\ off[n] = Len(flat2)
    BY <1>1, <1>5, <1>8 DEF Laid
  <2>2. starts[n] = Len(file1) + (1 + Len(flat2))
    BY <1>16, <2>1
  <2>3. Len(whole) = Len(file1) + Len(flat2) /\ Len(flat2) \in Nat /\ Len(file1) \in Nat
    BY <1>1, <1>9, <1>10
  <2> QED
    BY <2>2, <2>3
<1>19. \A j \in 1..n : HeadNode(t, j) = t[heads[j]]
  BY DEF HeadNode, heads
<1>20. SaveCheckTable(t) = whole /\ NodeStarts(t) = starts /\ HeadsOf(t) = heads /\ Len(HeadsOf(t)) = n
  BY <1>2, <1>15 DEF heads, n
<1> HIDE DEF heads
<1>21. HeadsLaid(t)
  BY <1>12, <1>19, <1>20 DEF HeadsLaid
<1>22. NodesLaid(t)
  BY <1>17, <1>20 DEF NodesLaid
<1>23. StartsLaid(t)
  BY <1>14, <1>17, <1>18, <1>20 DEF StartsLaid
<1> QED
  BY <1>10, <1>11, <1>20, <1>21, <1>22, <1>23

----------------------------------------------------------------------------
(* The parts of a table that LoadCheckTable has built *)

\* The first i head nodes, without their entries.
HeadPart(t, i) ==
  [h \in {HeadsOf(t)[k] : k \in 1..i} |->
     [end |-> t[h].end, value |-> t[h].value, table |-> [s \in {} |-> s]]]

\* All head nodes, with the entries of the first j - 1, and the first e of the next.
Known(t, j, e, h) ==
  {s \in DOMAIN t[h].table :
     \E k \in 1..j : h = HeadsOf(t)[k] /\ (k < j \/ \E q \in 1..e : s = EntriesOf(t, k)[q])}
NodePart(t, j, e) ==
  [h \in DOMAIN t |-> [end |-> t[h].end, value |-> t[h].value,
                       table |-> [s \in Known(t, j, e, h) |-> t[h].table[s]]]]
EntryCount(t, j) == IF j = 0 THEN 0 ELSE Len(EntriesOf(t, j))

\* The entries of a head node, in the order of the file.
LEMMA EntryFacts ==
  ASSUME NEW F, NEW t, TableOver(t, F), NEW k \in 1..Len(HeadsOf(t))
  PROVE  /\ HeadsOf(t)[k] \in DOMAIN t /\ HeadNode(t, k) = t[HeadsOf(t)[k]]
         /\ Len(EntriesOf(t, k)) \in Nat
         /\ \A q \in 1..Len(EntriesOf(t, k)) : EntriesOf(t, k)[q] \in DOMAIN t[HeadsOf(t)[k]].table
         /\ \A s \in DOMAIN t[HeadsOf(t)[k]].table : \E q \in 1..Len(EntriesOf(t, k)) : EntriesOf(t, k)[q] = s
         /\ \A p, q \in 1..Len(EntriesOf(t, k)) : EntriesOf(t, k)[p] = EntriesOf(t, k)[q] => p = q
<1>1. HeadsOf(t)[k] \in DOMAIN t
  BY HeadFacts
<1>2. EntriesOf(t, k) = InOrder(DOMAIN t[HeadsOf(t)[k]].table)
  BY DEF EntriesOf, HeadNode
<1>3. HeadNode(t, k) = t[HeadsOf(t)[k]]
  BY DEF HeadNode
<1>4. Iterates(EntriesOf(t, k), t[HeadsOf(t)[k]].table, F)
  <2>1. \A h \in DOMAIN t : Iterates(InOrder(DOMAIN t[h].table), t[h].table, F)
    BY NodeFacts
  <2> QED
    BY <1>1, <1>2, <2>1
<1> QED
  BY <1>1, <1>3, <1>4 DEF Iterates

LEMMA KnownEntries ==
  ASSUME NEW F, NEW t, TableOver(t, F), NEW k \in 1..Len(HeadsOf(t)), NEW j \in 0..Len(HeadsOf(t)), NEW e \in Nat
  PROVE  /\ k < j => Known(t, j, e, HeadsOf(t)[k]) = DOMAIN t[HeadsOf(t)[k]].table
         /\ k = j => Known(t, j, e, HeadsOf(t)[k])
                       = {s \in DOMAIN t[HeadsOf(t)[k]].table : \E q \in 1..e : s = EntriesOf(t, k)[q]}
         /\ k > j => Known(t, j, e, HeadsOf(t)[k]) = {}
<1>1. Len(HeadsOf(t)) \in Nat /\ j \in Nat /\ k \in Nat \ {0}
  BY HeadFacts
<1>2. \A i \in 1..j : i \in 1..Len(HeadsOf(t))
  BY <1>1
<1>3. \A i \in 1..j : HeadsOf(t)[k] = HeadsOf(t)[i] => i = k
  BY <1>2, HeadFacts
<1>4. CASE k < j
  <2>1. k \in 1..j /\ ~(k = j) /\ ~(k > j)
    BY <1>1, <1>4
  <2> QED
    BY <1>4, <2>1 DEF Known
<1>5. CASE k = j
  <2>1. k \in 1..j /\ ~(k < j) /\ ~(k > j)
    BY <1>1, <1>5
  <2>2. Known(t, j, e, HeadsOf(t)[k])
          = {s \in DOMAIN t[HeadsOf(t)[k]].table : \E q \in 1..e : s = EntriesOf(t, k)[q]}
    BY <1>3, <2>1 DEF Known
  <2> QED
    BY <2>1, <2>2
<1>6. CASE k > j
  <2>1. k \notin 1..j /\ ~(k < j) /\ ~(k = j)
    BY <1>1, <1>6
  <2> QED
    BY <1>3, <1>6, <2>1 DEF Known
<1> QED
  BY <1>1, <1>4, <1>5, <1>6

\* Two parts are equal when they know the same entries of every head node.
LEMMA SameParts ==
  ASSUME NEW F, NEW t, TableOver(t, F), NEW j, NEW e, NEW i, NEW f,
         \A k \in 1..Len(HeadsOf(t)) : Known(t, j, e, HeadsOf(t)[k]) = Known(t, i, f, HeadsOf(t)[k])
  PROVE  NodePart(t, j, e) = NodePart(t, i, f)
<1>1. \A h \in DOMAIN t : Known(t, j, e, h) = Known(t, i, f, h)
  BY HeadFacts
<1> QED
  BY <1>1 DEF NodePart

\* Before the first entry, all head nodes are known and nothing else.
LEMMA NoEntries ==
  ASSUME NEW F, NEW t, TableOver(t, F)
  PROVE  NodePart(t, 0, 0) = HeadPart(t, Len(HeadsOf(t)))
<1>1. {HeadsOf(t)[k] : k \in 1..Len(HeadsOf(t))} = DOMAIN t
  <2>1. \A k \in 1..Len(HeadsOf(t)) : HeadsOf(t)[k] \in DOMAIN t
    BY HeadFacts
  <2>2. \A h \in DOMAIN t : \E k \in 1..Len(HeadsOf(t)) : HeadsOf(t)[k] = h
    BY HeadFacts
  <2> QED
    BY <2>1, <2>2
<1>2. \A h \in DOMAIN t : Known(t, 0, 0, h) = {}
  BY DEF Known
<1>3. \A h \in DOMAIN t : [s \in Known(t, 0, 0, h) |-> t[h].table[s]] = [s \in {} |-> s]
  BY <1>2
<1> QED
  BY <1>1, <1>3 DEF NodePart, HeadPart

\* When the entries of a head node are known, none of those of the next one is.
LEMMA NextNode ==
  ASSUME NEW F, NEW t, TableOver(t, F), NEW j \in 1..Len(HeadsOf(t))
  PROVE  NodePart(t, j, 0) = NodePart(t, j - 1, EntryCount(t, j - 1))
<1>0. Len(HeadsOf(t)) \in Nat /\ j - 1 \in 0..Len(HeadsOf(t)) /\ j \in 0..Len(HeadsOf(t)) /\ j - 1 \in Nat
  BY HeadFacts
<1>1. EntryCount(t, j - 1) \in Nat
  <2>1. CASE j - 1 = 0
    BY <2>1 DEF EntryCount
  <2>2. CASE j - 1 # 0
    <3>1. j - 1 \in 1..Len(HeadsOf(t))
      BY <1>0, <2>2
    <3> QED
      BY <2>2, <3>1, EntryFacts DEF EntryCount
  <2> QED
    BY <2>1, <2>2
<1>2. ASSUME NEW k \in 1..Len(HeadsOf(t))
      PROVE Known(t, j, 0, HeadsOf(t)[k]) = Known(t, j - 1, EntryCount(t, j - 1), HeadsOf(t)[k])
  <2> DEFINE h == HeadsOf(t)[k]
  <2>1. k < j - 1 \/ k = j - 1 \/ k = j \/ k > j
    BY <1>0
  <2>2. /\ k < j => Known(t, j, 0, h) = DOMAIN t[h].table
        /\ k = j => Known(t, j, 0, h) = {s \in DOMAIN t[h].table : \E q \in 1..0 : s = EntriesOf(t, k)[q]}
        /\ k > j => Known(t, j, 0, h) = {}
    BY <1>0, KnownEntries
  <2>3. /\ k < j - 1 => Known(t, j - 1, EntryCount(t, j - 1), h) = DOMAIN t[h].table
        /\ k = j - 1 => Known(t, j - 1, EntryCount(t, j - 1), h)
              = {s \in DOMAIN t[h].table : \E q \in 1..EntryCount(t, j - 1) : s = EntriesOf(t, k)[q]}
        /\ k > j - 1 => Known(t, j - 1, EntryCount(t, j - 1), h) = {}
    BY <1>0, <1>1, KnownEntries
  <2>4. CASE k < j - 1
    <3>1. k < j
      BY <1>0, <2>4
    <3> QED
      BY <2>2, <2>3, <2>4, <3>1
  <2>5. CASE k = j - 1
    <3>1. k < j /\ j - 1 # 0 /\ EntryCount(t, j - 1) = Len(EntriesOf(t, k))
      BY <1>0, <2>5 DEF EntryCount
    <3>2. \A s \in DOMAIN t[h].table : \E q \in 1..Len(EntriesOf(t, k)) : s = EntriesOf(t, k)[q]
      BY EntryFacts
    <3> HIDE DEF h
    <3>3. {s \in DOMAIN t[h].table : \E q \in 1..EntryCount(t, j - 1) : s = EntriesOf(t, k)[q]} = DOMAIN t[h].table
      BY <3>1, <3>2
    <3> QED
      BY <2>2, <2>3, <2>5, <3>1, <3>3 DEF h
  <2>6. CASE k = j
    <3>1. k > j - 1 /\ 1..0 = {}
      BY <1>0, <2>6
    <3> QED
      BY <2>2, <2>3, <2>6, <3>1
  <2>7. CASE k > j
    <3>1. k > j - 1
      BY <1>0, <2>7
    <3> QED
      BY <2>2, <2>3, <2>7, <3>1
  <2> QED
    BY <2>1, <2>4, <2>5, <2>6, <2>7
<1> QED
  BY <1>2, SameParts

\* When every entry is known, the table is whole.
LEMMA LastEntry ==
  ASSUME NEW F, NEW t, TableOver(t, F)
  PROVE  NodePart(t, Len(HeadsOf(t)), EntryCount(t, Len(HeadsOf(t)))) = t
<1> DEFINE n == Len(HeadsOf(t))
           e == EntryCount(t, n)
<1>1. n \in Nat /\ n \in 0..n
  BY HeadFacts
<1>2. e \in Nat
  <2>1. CASE n = 0
    BY <2>1 DEF EntryCount
  <2>2. CASE n # 0
    <3>1. n \in 1..Len(HeadsOf(t))
      BY <1>1, <2>2
    <3> QED
      BY <2>2, <3>1, EntryFacts DEF EntryCount
  <2> QED
    BY <2>1, <2>2
<1>3. ASSUME NEW k \in 1..n PROVE Known(t, n, e, HeadsOf(t)[k]) = DOMAIN t[HeadsOf(t)[k]].table
  <2>1. k < n \/ k = n
    BY <1>1
  <2>2. CASE k < n
    BY <1>1, <1>2, <2>2, KnownEntries
  <2>3. CASE k = n
    <3>1. e = Len(EntriesOf(t, k))
      BY <1>1, <2>3 DEF EntryCount
    <3>2. \A s \in DOMAIN t[HeadsOf(t)[k]].table : \E q \in 1..Len(EntriesOf(t, k)) : EntriesOf(t, k)[q] = s
      BY EntryFacts
    <3>3. Known(t, n, e, HeadsOf(t)[k])
            = {s \in DOMAIN t[HeadsOf(t)[k]].table : \E q \in 1..e : s = EntriesOf(t, k)[q]}
      BY <1>1, <1>2, <2>3, KnownEntries
    <3> QED
      BY <3>1, <3>2, <3>3
  <2> QED
    BY <2>1, <2>2, <2>3
<1>4. \A h \in DOMAIN t : Known(t, n, e, h) = DOMAIN t[h].table
  BY <1>3, HeadFacts
<1> HIDE DEF n, e
<1>5. ASSUME NEW h \in DOMAIN t PROVE NodePart(t, n, e)[h] = t[h]
  <2>1. NodePart(t, n, e)[h] = [end |-> t[h].end, value |-> t[h].value,
                                table |-> [s \in Known(t, n, e, h) |-> t[h].table[s]]]
    BY DEF NodePart
  <2>2. t[h].table = [s \in DOMAIN t[h].table |-> t[h].table[s]]
    BY NodeFacts
  <2>3. t[h] = [end |-> t[h].end, value |-> t[h].value, table |-> t[h].table]
    BY DEF TableOver
  <2> QED
    BY <1>4, <2>1, <2>2, <2>3
<1>6. t = [h \in DOMAIN t |-> t[h]]
  BY DEF TableOver
<1>7. NodePart(t, n, e) = [h \in DOMAIN t |-> NodePart(t, n, e)[h]]
  BY DEF NodePart
<1>8. NodePart(t, n, e) = t
  BY <1>5, <1>6, <1>7
<1> QED
  BY <1>8 DEF n, e

LEMMA TableSizes ==
  ASSUME NEW F, NEW t, TableOver(t, F)
  PROVE  /\ Len(HeadsOf(t)) \in Nat /\ Len(SaveCheckTable(t)) \in Nat
         /\ \A j \in 0..Len(HeadsOf(t)) : EntryCount(t, j) \in Nat
         /\ \A j \in 1..Len(HeadsOf(t)) : EntryCount(t, j) = Len(EntriesOf(t, j))
<1>1. Len(HeadsOf(t)) \in Nat
  BY HeadFacts
<1>2. SaveCheckTable(t) \in Seq(F)
  BY WholeLaid
<1>3. \A j \in 1..Len(HeadsOf(t)) : Len(EntriesOf(t, j)) \in Nat
  BY EntryFacts
<1>4. \A j \in 0..Len(HeadsOf(t)) : j # 0 => j \in 1..Len(HeadsOf(t))
  BY <1>1
<1>5. \A j \in 1..Len(HeadsOf(t)) : j # 0
  BY <1>1
<1> QED
  BY <1>1, <1>2, <1>3, <1>4, <1>5 DEF EntryCount

----------------------------------------------------------------------------
(* LoadCheckTable as the function of TableFile.                            *)

\* One turn of its second loop loads the entries of one head node.
LEMMA EntriesReload ==
  ASSUME NEW F, NEW t, TableOver(t, F), NEW j \in 1..Len(HeadsOf(t))
  PROVE  LoadEntries(NodePart(t, j, 0), SaveCheckTable(t), NodeStarts(t)[j - 1])
           = [table |-> NodePart(t, j, EntryCount(t, j)), pos |-> NodeStarts(t)[j]]
<1> DEFINE h == HeadsOf(t)[j]
           n == Len(EntriesOf(t, j))
           w == SaveCheckTable(t)
           at == NodeStarts(t)[j - 1]
           E == EntriesOf(t, j)
           keys == {w[at + 2 * q] : q \in 1..w[at]}
           keyOf(s) == CHOOSE q \in 1..w[at] : w[at + 2 * q] = s
           entries == [s \in keys |-> w[at + 2 * keyOf(s) + 1]]
           old == NodePart(t, j, 0)
           new == NodePart(t, j, n)
<1>0. j \in Nat /\ j # 0 /\ j \in 0..Len(HeadsOf(t)) /\ Len(HeadsOf(t)) \in Nat
  BY TableSizes
<1>1. /\ w[at] = n /\ w[at + 1] = h
      /\ \A q \in 1..n : w[at + 2 * q] = E[q] /\ w[at + 2 * q + 1] = HeadNode(t, j).table[E[q]]
  <2>1. NodesLaid(t)
    BY WholeLaid
  <2>2. \A k \in 1..Len(HeadsOf(t)) :
          /\ SaveCheckTable(t)[NodeStarts(t)[k - 1]] = Len(EntriesOf(t, k))
          /\ SaveCheckTable(t)[NodeStarts(t)[k - 1] + 1] = HeadsOf(t)[k]
          /\ \A q \in 1..Len(EntriesOf(t, k)) :
               /\ SaveCheckTable(t)[NodeStarts(t)[k - 1] + 2 * q] = EntriesOf(t, k)[q]
               /\ SaveCheckTable(t)[NodeStarts(t)[k - 1] + 2 * q + 1]
                    = HeadNode(t, k).table[EntriesOf(t, k)[q]]
    BY <2>1 DEF NodesLaid
  <2> QED
    BY <2>2
<1>2. NodeStarts(t)[j] = at + (2 + 2 * n) /\ at \in Nat /\ n \in Nat
  <2>1. j - 1 \in 0..Len(HeadsOf(t))
    BY <1>0
  <2> QED
    BY <2>1, WholeLaid, EntryFacts DEF StartsLaid
<1>3. h \in DOMAIN t /\ HeadNode(t, j) = t[h] /\ EntryCount(t, j) = n
  BY TableSizes, EntryFacts
<1>4. /\ \A q \in 1..n : E[q] \in DOMAIN t[h].table
      /\ \A s \in DOMAIN t[h].table : \E q \in 1..n : E[q] = s
      /\ \A p, q \in 1..n : E[p] = E[q] => p = q
  BY EntryFacts
<1>5. /\ \A g \in DOMAIN t :
           /\ old[g] = [end |-> t[g].end, value |-> t[g].value, table |-> [x \in Known(t, j, 0, g) |-> t[g].table[x]]]
           /\ new[g] = [end |-> t[g].end, value |-> t[g].value, table |-> [x \in Known(t, j, n, g) |-> t[g].table[x]]]
      /\ old = [g \in DOMAIN t |-> old[g]] /\ new = [g \in DOMAIN t |-> new[g]]
  BY DEF NodePart
<1>6. \A g \in DOMAIN t : g # h => Known(t, j, 0, g) = Known(t, j, n, g)
  <2>1. ASSUME NEW k \in 1..Len(HeadsOf(t)), k # j
        PROVE  Known(t, j, 0, HeadsOf(t)[k]) = Known(t, j, n, HeadsOf(t)[k])
    <3>1. k < j \/ k > j
      BY <1>0, <2>1
    <3>2. /\ k < j => Known(t, j, 0, HeadsOf(t)[k]) = DOMAIN t[HeadsOf(t)[k]].table
          /\ k > j => Known(t, j, 0, HeadsOf(t)[k]) = {}
      BY <1>0, KnownEntries
    <3>3. /\ k < j => Known(t, j, n, HeadsOf(t)[k]) = DOMAIN t[HeadsOf(t)[k]].table
          /\ k > j => Known(t, j, n, HeadsOf(t)[k]) = {}
      BY <1>0, <1>2, KnownEntries
    <3> QED
      BY <3>1, <3>2, <3>3
  <2>2. \A g \in DOMAIN t : g # h => \E k \in 1..Len(HeadsOf(t)) : HeadsOf(t)[k] = g /\ k # j
    BY HeadFacts
  <2> QED
    BY <2>1, <2>2
<1>7. Known(t, j, n, h) = DOMAIN t[h].table
  <2>1. Known(t, j, n, h) = {x \in DOMAIN t[h].table : \E q \in 1..n : x = E[q]}
    BY <1>0, <1>2, KnownEntries
  <2> QED
    BY <1>4, <2>1
<1>8. t[h].table = [s \in DOMAIN t[h].table |-> t[h].table[s]]
  BY <1>3, NodeFacts
<1> HIDE DEF h, n, w, at, E, old, new
<1>9. entries = t[h].table
  <2>1. keys = DOMAIN t[h].table
    <3>1. \A s : s \in keys <=> \E q \in 1..n : E[q] = s
      BY <1>1
    <3> HIDE DEF keys
    <3>2. \A s : s \in DOMAIN t[h].table <=> \E q \in 1..n : E[q] = s
      BY <1>4
    <3> QED
      BY <3>1, <3>2
  <2>2. ASSUME NEW s \in DOMAIN t[h].table
        PROVE  w[at + 2 * keyOf(s) + 1] = t[h].table[s]
    <3>1. PICK q \in 1..n : E[q] = s
      BY <1>4
    <3>2. q \in 1..w[at] /\ w[at + 2 * q] = s
      BY <1>1, <3>1
    <3>3. keyOf(s) \in 1..w[at] /\ w[at + 2 * keyOf(s)] = s
      BY <3>2
    <3> HIDE DEF keyOf
    <3>4. keyOf(s) \in 1..n /\ E[keyOf(s)] = s
      BY <1>1, <3>3
    <3> QED
      BY <1>1, <1>3, <3>4
  <2> HIDE DEF keys, keyOf
  <2> QED
    BY <1>8, <2>1, <2>2
<1> HIDE DEF entries
<1>10. [old EXCEPT ![h].table = entries] = new
  <2>1. [old[h] EXCEPT !.table = entries] = new[h]
    <3>1. /\ old[h] = [end |-> t[h].end, value |-> t[h].value, table |-> [x \in Known(t, j, 0, h) |-> t[h].table[x]]]
          /\ new[h] = [end |-> t[h].end, value |-> t[h].value, table |-> t[h].table]
      BY <1>3, <1>5, <1>7, <1>8
    <3> QED
      BY <1>9, <3>1
  <2>2. \A g \in DOMAIN t : g # h => old[g] = new[g]
    BY <1>5, <1>6
  <2>3. [old EXCEPT ![h] = [old[h] EXCEPT !.table = entries]] = new
    BY <1>3, <1>5, <2>1, <2>2
  <2> QED
    BY <2>3
<1>11. LoadEntries(old, w, at) = [table |-> [old EXCEPT ![w[at + 1]].table = entries], pos |-> at + 2 + 2 * w[at]]
  BY DEF LoadEntries, entries
<1>12. at + 2 + 2 * w[at] = NodeStarts(t)[j]
  BY <1>1, <1>2
<1>13. LoadEntries(old, w, at) = [table |-> new, pos |-> NodeStarts(t)[j]]
  BY <1>1, <1>10, <1>11, <1>12
<1> QED
  BY <1>3, <1>13 DEF old, new, w, at

\* Its first loop loads the head nodes.
FileHeads(w) ==
  [h \in {w[3 * i - 1] : i \in 1..w[1]} |->
     LET i == CHOOSE k \in 1..w[1] : w[3 * k - 1] = h
     IN  [end |-> w[3 * i], value |-> w[3 * i + 1], table |-> [s \in {} |-> s]]]
LEMMA HeadsReload ==
  ASSUME NEW F, NEW t, TableOver(t, F)
  PROVE  FileHeads(SaveCheckTable(t)) = NodePart(t, 0, 0)
<1> DEFINE w == SaveCheckTable(t)
           n == Len(HeadsOf(t))
           keys == {w[3 * i - 1] : i \in 1..w[1]}
           keyOf(h) == CHOOSE k \in 1..w[1] : w[3 * k - 1] = h
           node(h) == [end |-> t[h].end, value |-> t[h].value, table |-> [s \in {} |-> s]]
<1>1. w[1] = n /\ \A k \in 1..n : w[3 * k - 1] = HeadsOf(t)[k] /\ w[3 * k] = HeadNode(t, k).end /\ w[3 * k + 1] = HeadNode(t, k).value
  BY WholeLaid DEF HeadsLaid
<1>2. /\ \A k \in 1..n : HeadsOf(t)[k] \in DOMAIN t
      /\ \A h \in DOMAIN t : \E k \in 1..n : HeadsOf(t)[k] = h
  BY HeadFacts
<1>3. HeadPart(t, n) = [h \in DOMAIN t |-> node(h)]
  <2>1. {HeadsOf(t)[k] : k \in 1..n} = DOMAIN t
    BY <1>2
  <2> QED
    BY <2>1 DEF HeadPart
<1>4. \A k \in 1..n : HeadNode(t, k) = t[HeadsOf(t)[k]]
  BY DEF HeadNode
<1> HIDE DEF w, n
<1>5. keys = DOMAIN t
  <2>1. \A h : h \in keys <=> \E k \in 1..n : HeadsOf(t)[k] = h
    BY <1>1
  <2> HIDE DEF keys
  <2> QED
    BY <1>2, <2>1
<1>6. ASSUME NEW h \in DOMAIN t
      PROVE  [end |-> w[3 * keyOf(h)], value |-> w[3 * keyOf(h) + 1], table |-> [s \in {} |-> s]] = node(h)
  <2>1. PICK k \in 1..n : HeadsOf(t)[k] = h
    BY <1>2
  <2>2. k \in 1..w[1] /\ w[3 * k - 1] = h
    BY <1>1, <2>1
  <2>3. keyOf(h) \in 1..w[1] /\ w[3 * keyOf(h) - 1] = h
    BY <2>2
  <2> HIDE DEF keyOf
  <2>4. keyOf(h) \in 1..n /\ HeadsOf(t)[keyOf(h)] = h
    BY <1>1, <2>3
  <2>5. w[3 * keyOf(h)] = t[h].end /\ w[3 * keyOf(h) + 1] = t[h].value
    BY <1>1, <1>4, <2>4
  <2> QED
    BY <2>5
<1>7. FileHeads(w) = [h \in keys |-> [end |-> w[3 * keyOf(h)], value |-> w[3 * keyOf(h) + 1], table |-> [s \in {} |-> s]]]
  BY DEF FileHeads
<1> HIDE DEF keyOf, keys, node
<1>8. FileHeads(w) = [h \in DOMAIN t |-> node(h)]
  BY <1>5, <1>6, <1>7
<1> QED
  BY <1>3, <1>8, NoEntries DEF w, n

\* What was saved is loaded as it was.
LEMMA LoadInvertsSave ==
  ASSUME NEW F, NEW t, TableOver(t, F)
  PROVE  LoadCheckTable(SaveCheckTable(t)) = t
<1> DEFINE w == SaveCheckTable(t)
           n == Len(HeadsOf(t))
           start == [table |-> FileHeads(w), pos |-> 3 * w[1] + 2]
           Turns(f) == [i \in 0..w[1] |-> IF i = 0 THEN start
                                          ELSE LET before == f[i - 1] IN LoadEntries(before.table, w, before.pos)]
           loaded == CHOOSE f : f = Turns(f)
           g == [i \in 0..n |-> [table |-> NodePart(t, i, EntryCount(t, i)), pos |-> NodeStarts(t)[i]]]
<1>1. LoadCheckTable(w) = loaded[w[1]].table
  BY DEF LoadCheckTable, FileHeads
<1>2. w[1] = n /\ n \in Nat
  BY WholeLaid, TableSizes
<1>3. start = g[0]
  <2>1. start.table = NodePart(t, 0, 0) /\ EntryCount(t, 0) = 0
    BY HeadsReload DEF EntryCount
  <2>2. NodeStarts(t)[0] = 3 * n + 2
    BY WholeLaid DEF StartsLaid
  <2>3. g[0] = [table |-> NodePart(t, 0, EntryCount(t, 0)), pos |-> NodeStarts(t)[0]]
    BY <1>2
  <2> QED
    BY <1>2, <2>1, <2>2, <2>3
<1>4. ASSUME NEW i \in 1..n PROVE LoadEntries(g[i - 1].table, w, g[i - 1].pos) = g[i]
  <2>1. i - 1 \in 0..n /\ i \in 0..n
    BY <1>2
  <2>2. g[i - 1].table = NodePart(t, i - 1, EntryCount(t, i - 1)) /\ g[i - 1].pos = NodeStarts(t)[i - 1]
    BY <2>1
  <2>3. NodePart(t, i - 1, EntryCount(t, i - 1)) = NodePart(t, i, 0)
    BY NextNode
  <2>4. g[i] = [table |-> NodePart(t, i, EntryCount(t, i)), pos |-> NodeStarts(t)[i]]
    BY <2>1
  <2> HIDE DEF g
  <2> QED
    BY <2>2, <2>3, <2>4, EntriesReload
<1>5. g = [i \in 0..n |-> g[i]]
  OBVIOUS
<1>6. g[n].table = t
  BY <1>2, LastEntry
<1> HIDE DEF start, g, w, n
<1>7. g = Turns(g)
  <2>1. \A i \in 0..n : i = 0 \/ i \in 1..n
    BY <1>2
  <2> QED
    BY <1>2, <1>3, <1>4, <1>5, <2>1
<1>8. loaded = Turns(loaded)
  BY <1>7
<1> HIDE DEF loaded
<1>9. /\ loaded[0] = start
      /\ \A i \in 1..n : loaded[i] = LoadEntries(loaded[i - 1].table, w, loaded[i - 1].pos)
  <2>1. \A i \in 0..n : loaded[i] = IF i = 0 THEN start
                                    ELSE LET before == loaded[i - 1] IN LoadEntries(before.table, w, before.pos)
    BY <1>2, <1>8
  <2>2. 0 \in 0..n /\ \A i \in 1..n : i # 0 /\ i \in 0..n
    BY <1>2
  <2> QED
    BY <2>1, <2>2
<1> DEFINE T == {i \in 0..n : loaded[i] = g[i]}
<1>10. 0 \in T
  BY <1>2, <1>3, <1>9
<1>11. ASSUME NEW i \in 0..(n - 1), i \in T PROVE i + 1 \in T
  <2>1. i + 1 \in 1..n /\ i + 1 - 1 = i /\ i + 1 \in 0..n
    BY <1>2
  <2>2. loaded[i + 1] = LoadEntries(loaded[i + 1 - 1].table, w, loaded[i + 1 - 1].pos)
    BY <1>9, <2>1
  <2>3. LoadEntries(g[i + 1 - 1].table, w, g[i + 1 - 1].pos) = g[i + 1]
    BY <1>4, <2>1
  <2> QED
    BY <1>11, <2>1, <2>2, <2>3
<1> HIDE DEF T
<1>12. 0..n \subseteq T
  BY <1>2, <1>10, <1>11, InductionUpTo
<1>13. loaded[n] = g[n]
  BY <1>2, <1>12 DEF T
<1> QED
  BY <1>1, <1>2, <1>6, <1>13 DEF w

----------------------------------------------------------------------------
(* The machine that saves and loads.                                       *)

\* The tables that are saved are tables over the integers.
LEMMA TablesOver ==
  ASSUME Parameters
  PROVE  \A t \in Tables : TableOver(t, Int)
BY DEF Parameters, IsTable, TableOver

\* The next entry of a head node joins those that are known.
LEMMA NextEntry ==
  ASSUME NEW t, TableOver(t, Int), NEW j \in 1..Len(HeadsOf(t)), NEW e \in 0..(Len(EntriesOf(t, j)) - 1)
  PROVE  NodePart(t, j, e + 1)
           = [NodePart(t, j, e) EXCEPT ![HeadsOf(t)[j]].table =
                Assigned(@, EntriesOf(t, j)[e + 1], HeadNode(t, j).table[EntriesOf(t, j)[e + 1]])]
<1> DEFINE h == HeadsOf(t)[j]
           s == EntriesOf(t, j)[e + 1]
           old == NodePart(t, j, e)
           new == NodePart(t, j, e + 1)
<1>1. /\ Len(HeadsOf(t)) \in Nat /\ j \in 0..Len(HeadsOf(t)) /\ h \in DOMAIN t /\ HeadNode(t, j) = t[h]
      /\ Len(EntriesOf(t, j)) \in Nat /\ e \in Nat /\ e + 1 \in Nat /\ e + 1 \in 1..Len(EntriesOf(t, j))
      /\ s \in DOMAIN t[h].table
  BY HeadFacts, EntryFacts
<1>2. \A g \in DOMAIN t : g # h => Known(t, j, e + 1, g) = Known(t, j, e, g)
  <2>1. ASSUME NEW k \in 1..Len(HeadsOf(t)), k # j
        PROVE  Known(t, j, e + 1, HeadsOf(t)[k]) = Known(t, j, e, HeadsOf(t)[k])
    <3>1. k < j \/ k > j
      BY <1>1, <2>1
    <3>2. /\ k < j => Known(t, j, e, HeadsOf(t)[k]) = DOMAIN t[HeadsOf(t)[k]].table
          /\ k > j => Known(t, j, e, HeadsOf(t)[k]) = {}
      BY <1>1, KnownEntries
    <3>3. /\ k < j => Known(t, j, e + 1, HeadsOf(t)[k]) = DOMAIN t[HeadsOf(t)[k]].table
          /\ k > j => Known(t, j, e + 1, HeadsOf(t)[k]) = {}
      BY <1>1, KnownEntries
    <3> QED
      BY <3>1, <3>2, <3>3
  <2>2. \A g \in DOMAIN t : g # h => \E k \in 1..Len(HeadsOf(t)) : HeadsOf(t)[k] = g /\ k # j
    BY HeadFacts
  <2> QED
    BY <2>1, <2>2
<1>3. Known(t, j, e + 1, h) = Known(t, j, e, h) \cup {s}
  <2>1. Known(t, j, e, h) = {x \in DOMAIN t[h].table : \E q \in 1..e : x = EntriesOf(t, j)[q]}
    BY <1>1, KnownEntries
  <2>2. Known(t, j, e + 1, h) = {x \in DOMAIN t[h].table : \E q \in 1..(e + 1) : x = EntriesOf(t, j)[q]}
    BY <1>1, KnownEntries
  <2>3. \A q : q \in 1..(e + 1) <=> (q \in 1..e \/ q = e + 1)
    BY <1>1
  <2> QED
    BY <1>1, <2>1, <2>2, <2>3
<1>4. \A g \in DOMAIN t :
        /\ old[g] = [end |-> t[g].end, value |-> t[g].value, table |-> [x \in Known(t, j, e, g) |-> t[g].table[x]]]
        /\ new[g] = [end |-> t[g].end, value |-> t[g].value, table |-> [x \in Known(t, j, e + 1, g) |-> t[g].table[x]]]
  BY DEF NodePart
<1>5. old = [g \in DOMAIN t |-> old[g]] /\ new = [g \in DOMAIN t |-> new[g]]
  BY DEF NodePart
<1> HIDE DEF old, new, s, h
<1> DEFINE entries == Assigned(old[h].table, s, t[h].table[s])
           node == [old[h] EXCEPT !.table = entries]
<1>5a. /\ old[h] = [end |-> t[h].end, value |-> t[h].value, table |-> [x \in Known(t, j, e, h) |-> t[h].table[x]]]
       /\ new[h] = [end |-> t[h].end, value |-> t[h].value, table |-> [x \in Known(t, j, e + 1, h) |-> t[h].table[x]]]
  BY <1>1, <1>4
<1>5b. old[h].table = [x \in Known(t, j, e, h) |-> t[h].table[x]]
  BY <1>5a
<1>6. entries = [x \in Known(t, j, e + 1, h) |-> t[h].table[x]]
  <2>1. \A x \in Known(t, j, e, h) : old[h].table[x] = t[h].table[x]
    BY <1>5b
  <2>2. entries = [x \in Known(t, j, e, h) \cup {s} |-> IF x = s THEN t[h].table[s] ELSE old[h].table[x]]
    BY <1>5b DEF Assigned
  <2> QED
    BY <1>3, <2>1, <2>2
<1> HIDE DEF entries
<1>7. node = new[h]
  BY <1>5a, <1>6
<1>8. \A g \in DOMAIN t : g # h => old[g] = new[g]
  BY <1>2, <1>4
<1>9. [old EXCEPT ![h] = node] = new
  BY <1>1, <1>5, <1>7, <1>8
<1>10. [old EXCEPT ![h] = node] = [old EXCEPT ![h].table = Assigned(@, s, t[h].table[s])]
  BY DEF entries
<1> QED
  BY <1>1, <1>9, <1>10 DEF old, new, s, h

----------------------------------------------------------------------------
(* LoadCheckTable while it reads the file of the table t.                  *)

\* Where the entry after the first e of head node j is read, and the node after j of them.
Position(t, j, e) == IF j = 0 THEN NodeStarts(t)[0] ELSE NodeStarts(t)[j - 1] + 2 + 2 * e

\* The first i head nodes are read; j head nodes and e entries of the last one are.
AtHead(t, i) ==
  /\ load.heads = Len(HeadsOf(t)) - i /\ load.nodes = Len(HeadsOf(t)) /\ load.entries = 0
  /\ load.pos = 3 * i + 2
  /\ load.checkTable = HeadPart(t, i)
AtEntry(t, j, e) ==
  /\ load.heads = 0 /\ load.nodes = Len(HeadsOf(t)) - j /\ load.entries = EntryCount(t, j) - e
  /\ load.pos = Position(t, j, e)
  /\ load.entries > 0 => load.uk = HeadsOf(t)[j]
  /\ load.checkTable = NodePart(t, j, e)

\* What LoadCheckTable has of the table t, as long as it stays inside the memory.
ReadingHeads(t) == \E i \in 0..(Len(HeadsOf(t)) - 1) : AtHead(t, i)
ReadingNodes(t) == \E j \in 0..Len(HeadsOf(t)) : \E e \in 0..EntryCount(t, j) : AtEntry(t, j, e)
Follows(t) ==
  /\ pc = "count" => load = NoLoad
  /\ pc \in {"heads", "loaded"} => ReadingHeads(t) \/ ReadingNodes(t)
  /\ pc = "loaded" => load.heads = 0 /\ load.nodes = 0 /\ load.entries = 0

Part(s, t) == s \in Beginnings(SaveCheckTable(t), 0)

LoadShape ==
  /\ load = [pos |-> load.pos, heads |-> load.heads, nodes |-> load.nodes, uk |-> load.uk,
             entries |-> load.entries, checkTable |-> load.checkTable, overread |-> load.overread]
  /\ load.pos \in Nat \ {0} /\ load.heads \in Nat /\ load.nodes \in Nat /\ load.entries \in Nat
  /\ load.overread \in BOOLEAN /\ (load.overread <=> load.pos > Len(result) + 1)
LoadInv ==
  /\ LoadShape
  /\ pc \in {"count", "heads", "loaded"} =>
       /\ \E t \in Tables : Part(result, t)
       /\ \A t \in Tables : Part(result, t) /\ ~load.overread => Follows(t)
       /\ \A t \in Tables : result = SaveCheckTable(t) => ~load.overread

\* What a save, and what ended one, leaves of a table.
SaveInv ==
  /\ file \in Contents /\ disk \subseteq Contents
  /\ pc = "opened" => file = << >>
  /\ pc \in {"written", "reported"} =>
       /\ Len(buffer) <= writesize
       /\ file = SubSeq(WholeTable, 1, writesize - Len(buffer))
       /\ buffer = SubSeq(WholeTable, writesize - Len(buffer) + 1, writesize)
  /\ pc \notin {"written", "reported"} => buffer = << >> /\ writesize = 0

IInv == TypeOK /\ SaveInv /\ LoadInv

\* After the first i head nodes comes the next one, which is stored in the map.
LEMMA NextHead ==
  ASSUME NEW t, TableOver(t, Int), NEW i \in 0..(Len(HeadsOf(t)) - 1)
  PROVE  /\ 3 * i + 5 <= Len(SaveCheckTable(t)) + 1
         /\ HeadPart(t, i + 1) =
              Assigned(HeadPart(t, i), SaveCheckTable(t)[3 * i + 2],
                       [end |-> SaveCheckTable(t)[3 * i + 3], value |-> SaveCheckTable(t)[3 * i + 4],
                        table |-> [s \in {} |-> s]])
<1> DEFINE h == HeadsOf(t)[i + 1]
           w == SaveCheckTable(t)
<1>1. /\ Len(HeadsOf(t)) \in Nat /\ i \in Nat /\ i + 1 \in 1..Len(HeadsOf(t))
      /\ 3 * (i + 1) - 1 = 3 * i + 2 /\ 3 * (i + 1) = 3 * i + 3 /\ 3 * (i + 1) + 1 = 3 * i + 4
  BY HeadFacts
<1>2. w[3 * i + 2] = h /\ w[3 * i + 3] = t[h].end /\ w[3 * i + 4] = t[h].value
  <2>1. HeadsLaid(t)
    BY WholeLaid
  <2>2. /\ w[3 * (i + 1) - 1] = h /\ w[3 * (i + 1)] = HeadNode(t, i + 1).end
        /\ w[3 * (i + 1) + 1] = HeadNode(t, i + 1).value
    BY <1>1, <2>1 DEF HeadsLaid
  <2>3. HeadNode(t, i + 1) = t[h]
    BY DEF HeadNode
  <2> QED
    BY <1>1, <2>2, <2>3
<1>3. 3 * i + 5 <= Len(w) + 1
  <2>1. StartsLaid(t)
    BY WholeLaid
  <2>2. NodeStarts(t)[0] = 3 * Len(HeadsOf(t)) + 2
    BY <2>1 DEF StartsLaid
  <2>3. \A j \in 0..Len(HeadsOf(t)) : NodeStarts(t)[j] \in Nat
    BY <2>1 DEF StartsLaid
  <2>4. /\ 1 \in 1..Len(HeadsOf(t)) /\ 0 \in 0..Len(HeadsOf(t)) /\ 1 \in 0..Len(HeadsOf(t)) /\ 1 - 1 = 0
    BY <1>1
  <2>5. NodeStarts(t)[1] = NodeStarts(t)[0] + (2 + 2 * Len(EntriesOf(t, 1))) /\ NodeStarts(t)[1] <= Len(w) + 1
    BY <2>1, <2>4 DEF StartsLaid
  <2>6. Len(EntriesOf(t, 1)) \in Nat /\ Len(w) \in Nat
    BY <2>4, TableSizes, EntryFacts
  <2> HIDE DEF w
  <2> QED
    BY <1>1, <2>2, <2>3, <2>4, <2>5, <2>6
<1>4. {HeadsOf(t)[k] : k \in 1..(i + 1)} = {HeadsOf(t)[k] : k \in 1..i} \cup {h}
  <2>1. \A k : k \in 1..(i + 1) <=> (k \in 1..i \/ k = i + 1)
    BY <1>1
  <2> QED
    BY <2>1
<1> HIDE DEF h, w
<1> DEFINE node(g) == [end |-> t[g].end, value |-> t[g].value, table |-> [s \in {} |-> s]]
           old == {HeadsOf(t)[k] : k \in 1..i}
<1>5. HeadPart(t, i) = [g \in old |-> node(g)]
  BY DEF HeadPart
<1>6. HeadPart(t, i + 1) = [g \in old \cup {h} |-> node(g)]
  BY <1>4 DEF HeadPart
<1>7. node(h) = [end |-> w[3 * i + 3], value |-> w[3 * i + 4], table |-> [s \in {} |-> s]]
  BY <1>2
<1> HIDE DEF node, old
<1>8. HeadPart(t, i + 1) = Assigned(HeadPart(t, i), h, node(h))
  BY <1>5, <1>6 DEF Assigned
<1> QED
  BY <1>2, <1>3, <1>7, <1>8 DEF w

\* After a head node whose entries are known, the next one has its number of entries and its key.
LEMMA NextStart ==
  ASSUME NEW t, TableOver(t, Int), NEW j \in 0..(Len(HeadsOf(t)) - 1)
  PROVE  /\ j + 1 \in 1..Len(HeadsOf(t))
         /\ Position(t, j, EntryCount(t, j)) = NodeStarts(t)[j]
         /\ Position(t, j + 1, 0) = NodeStarts(t)[j] + 2
         /\ NodeStarts(t)[j] \in Nat /\ NodeStarts(t)[j] + 2 <= Len(SaveCheckTable(t)) + 1
         /\ SaveCheckTable(t)[NodeStarts(t)[j]] = Len(EntriesOf(t, j + 1))
         /\ SaveCheckTable(t)[NodeStarts(t)[j] + 1] = HeadsOf(t)[j + 1]
         /\ HeadsOf(t)[j + 1] \in DOMAIN NodePart(t, j, EntryCount(t, j))
         /\ NodePart(t, j + 1, 0) = NodePart(t, j, EntryCount(t, j))
<1>1. /\ Len(HeadsOf(t)) \in Nat /\ Len(SaveCheckTable(t)) \in Nat /\ j \in Nat /\ j + 1 \in 1..Len(HeadsOf(t))
      /\ j \in 0..Len(HeadsOf(t)) /\ j + 1 - 1 = j /\ j + 1 \in 0..Len(HeadsOf(t)) /\ j + 1 # 0
  BY TableSizes
<1>2. StartsLaid(t) /\ NodesLaid(t)
  BY WholeLaid
<1>3. NodeStarts(t)[j] \in Nat /\ NodeStarts(t)[j + 1] \in Nat
  BY <1>1, <1>2 DEF StartsLaid
<1>4. \A k \in 1..Len(HeadsOf(t)) :
        /\ NodeStarts(t)[k] = NodeStarts(t)[k - 1] + (2 + 2 * Len(EntriesOf(t, k)))
        /\ NodeStarts(t)[k] <= Len(SaveCheckTable(t)) + 1
        /\ SaveCheckTable(t)[NodeStarts(t)[k - 1]] = Len(EntriesOf(t, k))
        /\ SaveCheckTable(t)[NodeStarts(t)[k - 1] + 1] = HeadsOf(t)[k]
  BY <1>2 DEF StartsLaid, NodesLaid
<1>5. /\ NodeStarts(t)[j + 1] = NodeStarts(t)[j] + (2 + 2 * Len(EntriesOf(t, j + 1)))
      /\ NodeStarts(t)[j + 1] <= Len(SaveCheckTable(t)) + 1
      /\ SaveCheckTable(t)[NodeStarts(t)[j]] = Len(EntriesOf(t, j + 1))
      /\ SaveCheckTable(t)[NodeStarts(t)[j] + 1] = HeadsOf(t)[j + 1]
  BY <1>1, <1>4
<1>6. Len(EntriesOf(t, j + 1)) \in Nat /\ HeadsOf(t)[j + 1] \in DOMAIN t
  BY <1>1, EntryFacts
<1>7. NodeStarts(t)[j] + 2 <= Len(SaveCheckTable(t)) + 1
  BY <1>1, <1>3, <1>5, <1>6
<1>8. Position(t, j, EntryCount(t, j)) = NodeStarts(t)[j]
  <2>1. CASE j = 0
    BY <2>1 DEF Position
  <2>2. CASE j # 0
    <3>1. j \in 1..Len(HeadsOf(t)) /\ j - 1 \in 0..Len(HeadsOf(t))
      BY <1>1, <2>2
    <3>2. Position(t, j, EntryCount(t, j)) = NodeStarts(t)[j - 1] + 2 + 2 * Len(EntriesOf(t, j))
      BY <2>2 DEF Position, EntryCount
    <3>3. NodeStarts(t)[j] = NodeStarts(t)[j - 1] + (2 + 2 * Len(EntriesOf(t, j)))
      BY <1>4, <3>1
    <3>4. NodeStarts(t)[j - 1] \in Nat /\ Len(EntriesOf(t, j)) \in Nat
      BY <1>2, <3>1, EntryFacts DEF StartsLaid
    <3> QED
      BY <3>2, <3>3, <3>4
  <2> QED
    BY <2>1, <2>2
<1>9. Position(t, j + 1, 0) = NodeStarts(t)[j] + 2
  <2>1. Position(t, j + 1, 0) = NodeStarts(t)[j + 1 - 1] + 2 + 2 * 0
    BY <1>1 DEF Position
  <2> QED
    BY <1>1, <1>3, <2>1
<1>10. HeadsOf(t)[j + 1] \in DOMAIN NodePart(t, j, EntryCount(t, j))
  BY <1>6 DEF NodePart
<1>11. NodePart(t, j + 1, 0) = NodePart(t, j, EntryCount(t, j))
  BY <1>1, NextNode
<1> QED
  BY <1>1, <1>3, <1>5, <1>7, <1>8, <1>9, <1>10, <1>11

\* After e entries of a head node that has more comes the next one.
LEMMA NextField ==
  ASSUME NEW t, TableOver(t, Int), NEW j \in 1..Len(HeadsOf(t)), NEW e \in 0..(Len(EntriesOf(t, j)) - 1)
  PROVE  /\ Position(t, j, e) \in Nat
         /\ Position(t, j, e + 1) = Position(t, j, e) + 2
         /\ Position(t, j, e) + 2 <= Len(SaveCheckTable(t)) + 1
         /\ NodePart(t, j, e + 1)
              = [NodePart(t, j, e) EXCEPT ![HeadsOf(t)[j]].table =
                   Assigned(@, SaveCheckTable(t)[Position(t, j, e)], SaveCheckTable(t)[Position(t, j, e) + 1])]
<1>1. /\ Len(HeadsOf(t)) \in Nat /\ Len(SaveCheckTable(t)) \in Nat /\ Len(EntriesOf(t, j)) \in Nat
      /\ j # 0 /\ j - 1 \in 0..Len(HeadsOf(t)) /\ j \in 0..Len(HeadsOf(t))
      /\ e \in Nat /\ e + 1 \in 1..Len(EntriesOf(t, j))
  BY TableSizes, EntryFacts
<1>2. StartsLaid(t) /\ NodesLaid(t)
  BY WholeLaid
<1>3. /\ NodeStarts(t)[j - 1] \in Nat /\ NodeStarts(t)[j] \in Nat
      /\ NodeStarts(t)[j] = NodeStarts(t)[j - 1] + (2 + 2 * Len(EntriesOf(t, j)))
      /\ NodeStarts(t)[j] <= Len(SaveCheckTable(t)) + 1
  BY <1>1, <1>2 DEF StartsLaid
<1>4. Position(t, j, e) = NodeStarts(t)[j - 1] + 2 + 2 * e /\ Position(t, j, e + 1) = NodeStarts(t)[j - 1] + 2 + 2 * (e + 1)
  BY <1>1 DEF Position
<1>5. /\ SaveCheckTable(t)[NodeStarts(t)[j - 1] + 2 * (e + 1)] = EntriesOf(t, j)[e + 1]
      /\ SaveCheckTable(t)[NodeStarts(t)[j - 1] + 2 * (e + 1) + 1] = HeadNode(t, j).table[EntriesOf(t, j)[e + 1]]
  BY <1>1, <1>2 DEF NodesLaid
<1>6. /\ NodeStarts(t)[j - 1] + 2 * (e + 1) = Position(t, j, e)
      /\ NodeStarts(t)[j - 1] + 2 * (e + 1) + 1 = Position(t, j, e) + 1
      /\ Position(t, j, e) \in Nat /\ Position(t, j, e + 1) = Position(t, j, e) + 2
      /\ Position(t, j, e) + 2 <= Len(SaveCheckTable(t)) + 1
  <2> DEFINE n == NodeStarts(t)[j - 1]
             m == NodeStarts(t)[j]
             c == Len(EntriesOf(t, j))
             l == Len(SaveCheckTable(t))
             p == Position(t, j, e)
             q == Position(t, j, e + 1)
  <2>1. /\ n \in Nat /\ m = n + (2 + 2 * c) /\ m <= l + 1 /\ p = n + 2 + 2 * e /\ q = n + 2 + 2 * (e + 1)
        /\ c \in Nat /\ l \in Nat /\ e \in Nat /\ e + 1 <= c
    BY <1>1, <1>3, <1>4
  <2> HIDE DEF n, m, c, l, p, q
  <2>2. n + 2 * (e + 1) = p /\ n + 2 * (e + 1) + 1 = p + 1 /\ p \in Nat /\ q = p + 2 /\ p + 2 <= l + 1
    BY <2>1
  <2> QED
    BY <2>2 DEF n, m, c, l, p, q
<1>7. NodePart(t, j, e + 1)
        = [NodePart(t, j, e) EXCEPT ![HeadsOf(t)[j]].table =
             Assigned(@, EntriesOf(t, j)[e + 1], HeadNode(t, j).table[EntriesOf(t, j)[e + 1]])]
  BY NextEntry
<1> QED
  BY <1>5, <1>6, <1>7

\* A field inside the memory is that of the table whose beginning the file is.
LEMMA FieldOfTable ==
  ASSUME NEW t, TableOver(t, Int), NEW s, Part(s, t)
  PROVE  /\ Len(s) \in Nat /\ Len(s) <= Len(SaveCheckTable(t)) /\ s \in Seq(Int)
         /\ \A p \in 1..Len(s) : s[p] = SaveCheckTable(t)[p]
         /\ Len(s) = Len(SaveCheckTable(t)) => s = SaveCheckTable(t)
<1>1. SaveCheckTable(t) \in Seq(Int)
  BY WholeLaid
<1> DEFINE w == SaveCheckTable(t)
<1>2. PICK k \in 0..Len(w) : s = SubSeq(w, 1, k)
  BY DEF Part, Beginnings
<1> HIDE DEF w
<1>3. w \in Seq(Int)
  BY <1>1 DEF w
<1>4. Len(s) = k /\ s \in Seq(Int) /\ \A p \in 1..k : s[p] = w[p]
  BY <1>2, <1>3
<1>5. k = Len(w) => s = w
  BY <1>2, <1>3
<1> QED
  BY <1>3, <1>4, <1>5 DEF w

\* n fields are read: what the other variables of LoadCheckTable must keep to.
Advances(n) ==
  /\ pc \in {"count", "heads"} /\ pc' \in {"heads", "killed"} /\ result' = result
  /\ load' = [pos |-> load.pos + n, heads |-> load'.heads, nodes |-> load'.nodes, uk |-> load'.uk,
              entries |-> load'.entries, checkTable |-> load'.checkTable,
              overread |-> load'.overread]
  /\ load'.overread \in BOOLEAN /\ (load'.overread <=> load.overread \/ load.pos + n - 1 > Len(result))
  /\ load'.heads \in Nat /\ load'.nodes \in Nat /\ load'.entries \in Nat
Keeps(t, n) ==
  /\ load.pos + n <= Len(SaveCheckTable(t)) + 1
  /\ pc' = "heads" /\ load.pos + n <= Len(result) + 1 => Follows(t)'

\* A read that follows every table it may have to do with keeps the invariant.
LEMMA ReadKeeps ==
  ASSUME Parameters, LoadInv, NEW n \in Nat \ {0}, Advances(n), result \in Seq(Int),
         \A t \in Tables : Part(result, t) /\ ~load.overread => Keeps(t, n)
  PROVE  LoadInv'
<1>1. /\ load.pos \in Nat \ {0} /\ Len(result) \in Nat /\ load.overread \in BOOLEAN
      /\ (load.overread <=> load.pos > Len(result) + 1)
  BY DEF LoadInv, LoadShape
<1>2. /\ load'.pos = load.pos + n /\ result' = result
      /\ load'.overread \in BOOLEAN /\ (load'.overread <=> load.overread \/ load.pos + n - 1 > Len(result))
  BY DEF Advances
<1>3. load'.overread <=> load.pos + n > Len(result) + 1
  BY <1>1, <1>2
<1>4. LoadShape'
  <2>1. /\ load' = [pos |-> load'.pos, heads |-> load'.heads, nodes |-> load'.nodes, uk |-> load'.uk,
                    entries |-> load'.entries, checkTable |-> load'.checkTable, overread |-> load'.overread]
        /\ load'.heads \in Nat /\ load'.nodes \in Nat /\ load'.entries \in Nat
    BY DEF Advances
  <2>2. load'.pos \in Nat \ {0} /\ load'.overread \in BOOLEAN
    BY <1>1, <1>2
  <2>3. load'.overread <=> load'.pos > Len(result') + 1
    BY <1>2, <1>3
  <2> QED
    BY <2>1, <2>2, <2>3 DEF LoadShape
<1>5. /\ \E t \in Tables : Part(result, t)
      /\ \A t \in Tables : Part(result, t) /\ ~load.overread => Follows(t)
      /\ \A t \in Tables : result = SaveCheckTable(t) => ~load.overread
  BY DEF LoadInv, Advances
<1>6. ASSUME pc' = "heads", NEW t \in Tables, Part(result, t), ~load'.overread
      PROVE  Follows(t)'
  <2>1. ~load.overread /\ load.pos + n <= Len(result) + 1
    BY <1>1, <1>2, <1>3, <1>6
  <2> QED
    BY <1>6, <2>1 DEF Keeps
<1>7. ASSUME NEW t \in Tables, result = SaveCheckTable(t)
      PROVE  ~load'.overread
  <2>1. Part(result, t)
    <3>1. TableOver(t, Int)
      BY TablesOver
    <3>2. SaveCheckTable(t) \in Seq(Int)
      BY <3>1, WholeLaid
    <3>3. SaveCheckTable(t) = SubSeq(SaveCheckTable(t), 1, Len(SaveCheckTable(t)))
      BY <3>2
    <3>4. Len(SaveCheckTable(t)) \in 0..Len(SaveCheckTable(t))
      BY <3>2
    <3> QED
      BY <1>7, <3>3, <3>4 DEF Part, Beginnings
  <2>2. ~load.overread
    BY <1>5, <1>7
  <2>3. load.pos + n <= Len(result) + 1
    BY <1>7, <2>1, <2>2 DEF Keeps
  <2> QED
    BY <1>1, <1>3, <2>3
<1>8. /\ pc' \in {"heads", "killed"}
      /\ \A t \in Tables : Part(result', t) = Part(result, t)
  BY <1>2 DEF Advances
<1> QED
  BY <1>2, <1>4, <1>5, <1>6, <1>7, <1>8 DEF LoadInv

\* The number of head nodes.
LEMMA CountKeeps ==
  ASSUME NEW t, TableOver(t, Int), pc = "count", load = NoLoad, pc' \in {"heads", "killed"},
         NEW count, load' = [After(1) EXCEPT !.heads = count, !.nodes = count],
         Len(result) \in Nat, load.pos <= Len(result) => count = SaveCheckTable(t)[1]
  PROVE  Keeps(t, 1)
<1>1. /\ Len(HeadsOf(t)) \in Nat /\ Len(SaveCheckTable(t)) \in Nat /\ EntryCount(t, 0) = 0
      /\ SaveCheckTable(t)[1] = Len(HeadsOf(t)) /\ load.pos = 1
  BY TableSizes, WholeLaid DEF EntryCount, NoLoad
<1>2. NodeStarts(t)[0] = 3 * Len(HeadsOf(t)) + 2
  BY WholeLaid DEF StartsLaid
<1>3. 1 + 1 <= Len(SaveCheckTable(t)) + 1
  <2>1. CASE Len(HeadsOf(t)) = 0
    <3>1. NodeStarts(t)[0] = Len(SaveCheckTable(t)) + 1
      BY <2>1, WholeLaid DEF StartsLaid
    <3> QED
      BY <1>1, <1>2, <2>1, <3>1
  <2>2. CASE Len(HeadsOf(t)) # 0
    <3>1. 0 \in 0..(Len(HeadsOf(t)) - 1)
      BY <1>1, <2>2
    <3>2. 3 * 0 + 5 <= Len(SaveCheckTable(t)) + 1
      BY <3>1, NextHead
    <3> QED
      BY <1>1, <3>2
  <2> QED
    BY <2>1, <2>2
<1>4. ASSUME pc' = "heads", 1 + 1 <= Len(result) + 1, Len(result) \in Nat
      PROVE  Follows(t)'
  <2>1. count = Len(HeadsOf(t))
    BY <1>1, <1>4
  <2>2. /\ load'.pos = 2 /\ load'.heads = Len(HeadsOf(t)) /\ load'.nodes = Len(HeadsOf(t)) /\ load'.entries = 0
        /\ load'.checkTable = [k \in {} |-> k]
    BY <2>1 DEF After, NoLoad
  <2>3. HeadPart(t, 0) = [k \in {} |-> k]
    <3>1. {HeadsOf(t)[k] : k \in 1..0} = {}
      OBVIOUS
    <3> QED
      BY <3>1 DEF HeadPart
  <2>4. CASE Len(HeadsOf(t)) = 0
    <3>1. NodePart(t, 0, 0) = [k \in {} |-> k]
      BY <2>3, <2>4, NoEntries
    <3>2. AtEntry(t, 0, 0)'
      BY <1>1, <1>2, <2>2, <2>4, <3>1 DEF AtEntry, Position
    <3>3. ReadingNodes(t)'
      BY <1>1, <3>2 DEF ReadingNodes
    <3> QED
      BY <1>4, <3>3 DEF Follows
  <2>5. CASE Len(HeadsOf(t)) # 0
    <3>1. AtHead(t, 0)'
      BY <1>1, <2>2, <2>3 DEF AtHead
    <3>2. 0 \in 0..(Len(HeadsOf(t)) - 1)
      BY <1>1, <2>5
    <3>3. ReadingHeads(t)'
      BY <3>1, <3>2 DEF ReadingHeads
    <3> QED
      BY <1>4, <3>3 DEF Follows
  <2> QED
    BY <2>4, <2>5
<1> QED
  BY <1>1, <1>3, <1>4 DEF Keeps

\* A head node.
StoresHead(key, end, value) ==
  load' = [After(3) EXCEPT !.heads = @ - 1, !.checkTable =
             Assigned(@, key, [end |-> end, value |-> value, table |-> [s \in {} |-> s]])]
LEMMA HeadKeeps ==
  ASSUME NEW t, TableOver(t, Int), pc = "heads", Follows(t), load.heads \in Nat \ {0}, pc' \in {"heads", "killed"},
         LoadShape, NEW key, NEW end, NEW value,
         StoresHead(key, end, value),
         Len(result) \in Nat,
         load.pos + 3 <= Len(result) + 1 =>
           /\ key = SaveCheckTable(t)[load.pos] /\ end = SaveCheckTable(t)[load.pos + 1]
           /\ value = SaveCheckTable(t)[load.pos + 2]
  PROVE  Keeps(t, 3)
<1>1. PICK i \in 0..(Len(HeadsOf(t)) - 1) : AtHead(t, i)
  <2>1. ~ ReadingNodes(t)
    BY DEF ReadingNodes, AtEntry
  <2> QED
    BY <2>1 DEF Follows, ReadingHeads
<1>2. /\ Len(HeadsOf(t)) \in Nat /\ i \in Nat /\ EntryCount(t, 0) = 0 /\ 0 \in 0..Len(HeadsOf(t)) /\ 0 \in 0..0
      /\ i + 1 \in 0..Len(HeadsOf(t))
  BY TableSizes DEF EntryCount
<1>3. /\ load.heads = Len(HeadsOf(t)) - i /\ load.nodes = Len(HeadsOf(t)) /\ load.entries = 0
      /\ load.pos = 3 * i + 2 /\ load.checkTable = HeadPart(t, i)
  BY <1>1 DEF AtHead
<1>4. load.pos + 3 <= Len(SaveCheckTable(t)) + 1
  <2>1. 3 * i + 5 <= Len(SaveCheckTable(t)) + 1
    BY NextHead
  <2>2. load.pos + 3 = 3 * i + 5
    BY <1>2, <1>3
  <2> QED
    BY <2>1, <2>2
<1>5. ASSUME pc' = "heads", load.pos + 3 <= Len(result) + 1
      PROVE  Follows(t)'
  <2>1. /\ load.pos + 1 = 3 * i + 3 /\ load.pos + 2 = 3 * i + 4
    BY <1>2, <1>3
  <2>2. HeadPart(t, i + 1) =
          Assigned(HeadPart(t, i), key, [end |-> end, value |-> value, table |-> [s \in {} |-> s]])
    BY <1>3, <1>5, <2>1, NextHead
  <2>3. /\ load'.pos = load.pos + 3 /\ load'.heads = load.heads - 1 /\ load'.nodes = load.nodes
        /\ load'.entries = load.entries
        /\ load'.checkTable =
             Assigned(load.checkTable, key, [end |-> end, value |-> value, table |-> [s \in {} |-> s]])
    BY DEF StoresHead, After, LoadShape
  <2>4. load'.checkTable = HeadPart(t, i + 1)
    BY <1>3, <2>2, <2>3
  <2>5. load'.pos = 3 * (i + 1) + 2 /\ load'.heads = Len(HeadsOf(t)) - (i + 1)
    <3>1. load'.pos = (3 * i + 2) + 3 /\ load'.heads = (Len(HeadsOf(t)) - i) - 1
      BY <1>3, <2>3
    <3>2. (3 * i + 2) + 3 = 3 * (i + 1) + 2 /\ (Len(HeadsOf(t)) - i) - 1 = Len(HeadsOf(t)) - (i + 1)
      BY <1>2
    <3> QED
      BY <3>1, <3>2
  <2>6. CASE i + 1 = Len(HeadsOf(t))
    <3>1. NodePart(t, 0, 0) = HeadPart(t, i + 1)
      BY <2>6, NoEntries
    <3>2. NodeStarts(t)[0] = 3 * Len(HeadsOf(t)) + 2
      BY WholeLaid DEF StartsLaid
    <3>3. AtEntry(t, 0, 0)'
      <4>1. load'.heads = 0 /\ load'.nodes = Len(HeadsOf(t)) - 0 /\ load'.entries = 0 - 0 /\ ~ (load'.entries > 0)
        BY <1>2, <1>3, <2>3, <2>5, <2>6
      <4>2. load'.pos = NodeStarts(t)[0] /\ load'.checkTable = NodePart(t, 0, 0)
        BY <2>4, <2>5, <2>6, <3>1, <3>2
      <4> QED
        BY <1>2, <4>1, <4>2 DEF AtEntry, Position
    <3>4. ReadingNodes(t)'
      BY <1>2, <3>3 DEF ReadingNodes
    <3> QED
      BY <1>5, <3>4 DEF Follows
  <2>7. CASE i + 1 # Len(HeadsOf(t))
    <3>1. i + 1 \in 0..(Len(HeadsOf(t)) - 1)
      BY <1>2, <2>7
    <3>2. AtHead(t, i + 1)'
      BY <1>3, <2>3, <2>4, <2>5 DEF AtHead
    <3>3. ReadingHeads(t)'
      BY <3>1, <3>2 DEF ReadingHeads
    <3> QED
      BY <1>5, <3>3 DEF Follows
  <2> QED
    BY <2>6, <2>7
<1> QED
  BY <1>4, <1>5 DEF Keeps

\* Between two head nodes, pos is where the next one begins.
AtNode(t, j, e) ==
  /\ j \in Nat /\ j + 1 \in 1..Len(HeadsOf(t)) /\ Len(HeadsOf(t)) \in Nat
  /\ load.nodes = Len(HeadsOf(t)) - j /\ load.checkTable = NodePart(t, j, e)
  /\ load.pos = NodeStarts(t)[j]
  /\ Position(t, j + 1, 0) = NodeStarts(t)[j] + 2
  /\ NodeStarts(t)[j] + 2 <= Len(SaveCheckTable(t)) + 1
  /\ SaveCheckTable(t)[NodeStarts(t)[j]] = Len(EntriesOf(t, j + 1))
  /\ SaveCheckTable(t)[NodeStarts(t)[j] + 1] = HeadsOf(t)[j + 1]
  /\ HeadsOf(t)[j + 1] \in DOMAIN NodePart(t, j, e)
  /\ NodePart(t, j + 1, 0) = NodePart(t, j, e)

LEMMA NodeAhead ==
  ASSUME NEW t, TableOver(t, Int), pc = "heads", Follows(t), load.heads = 0, load.entries = 0, load.nodes \in Nat \ {0}
  PROVE  \E j, e : AtNode(t, j, e)
<1>1. PICK j \in 0..Len(HeadsOf(t)) : \E e \in 0..EntryCount(t, j) : AtEntry(t, j, e)
  <2>1. ~ ReadingHeads(t)
    <3>1. Len(HeadsOf(t)) \in Nat
      BY TableSizes
    <3> QED
      BY <3>1 DEF ReadingHeads, AtHead
  <2> QED
    BY <2>1 DEF Follows, ReadingNodes
<1>2. PICK e \in 0..EntryCount(t, j) : AtEntry(t, j, e)
  BY <1>1
<1>3. /\ load.nodes = Len(HeadsOf(t)) - j /\ load.entries = EntryCount(t, j) - e
      /\ load.pos = Position(t, j, e) /\ load.checkTable = NodePart(t, j, e)
  BY <1>2 DEF AtEntry
<1>4. /\ Len(HeadsOf(t)) \in Nat /\ EntryCount(t, j) \in Nat /\ j \in Nat
  BY TableSizes
<1>5. e = EntryCount(t, j) /\ j \in 0..(Len(HeadsOf(t)) - 1)
  BY <1>3, <1>4
<1>6. /\ j + 1 \in 1..Len(HeadsOf(t))
      /\ load.pos = NodeStarts(t)[j]
      /\ Position(t, j + 1, 0) = NodeStarts(t)[j] + 2
      /\ NodeStarts(t)[j] + 2 <= Len(SaveCheckTable(t)) + 1
      /\ SaveCheckTable(t)[NodeStarts(t)[j]] = Len(EntriesOf(t, j + 1))
      /\ SaveCheckTable(t)[NodeStarts(t)[j] + 1] = HeadsOf(t)[j + 1]
      /\ HeadsOf(t)[j + 1] \in DOMAIN NodePart(t, j, e)
      /\ NodePart(t, j + 1, 0) = NodePart(t, j, e)
  BY <1>3, <1>5, NextStart
<1> QED
  BY <1>3, <1>4, <1>6 DEF AtNode

\* The number of entries of a head node, and its key.
LEMMA NodeKeeps ==
  ASSUME NEW t, TableOver(t, Int), pc = "heads", Follows(t), pc' \in {"heads", "killed"},
         load.heads = 0, load.entries = 0, load.nodes \in Nat \ {0},
         LoadShape, NEW valueCount, NEW uk,
         load' = [After(2) EXCEPT !.nodes = @ - 1, !.entries = valueCount, !.uk = uk,
                    !.checkTable = Defaulted(@, uk, [end |-> 0, value |-> 0, table |-> [s \in {} |-> s]])],
         Len(result) \in Nat,
         load.pos + 2 <= Len(result) + 1 =>
           valueCount = SaveCheckTable(t)[load.pos] /\ uk = SaveCheckTable(t)[load.pos + 1]
  PROVE  Keeps(t, 2)
<1>1. PICK j, e : AtNode(t, j, e)
  BY NodeAhead
<1>6. /\ j \in Nat /\ j + 1 \in 1..Len(HeadsOf(t)) /\ Len(HeadsOf(t)) \in Nat
      /\ load.nodes = Len(HeadsOf(t)) - j /\ load.checkTable = NodePart(t, j, e)
      /\ load.pos = NodeStarts(t)[j]
      /\ Position(t, j + 1, 0) = NodeStarts(t)[j] + 2
      /\ NodeStarts(t)[j] + 2 <= Len(SaveCheckTable(t)) + 1
      /\ SaveCheckTable(t)[NodeStarts(t)[j]] = Len(EntriesOf(t, j + 1))
      /\ SaveCheckTable(t)[NodeStarts(t)[j] + 1] = HeadsOf(t)[j + 1]
      /\ HeadsOf(t)[j + 1] \in DOMAIN NodePart(t, j, e)
      /\ NodePart(t, j + 1, 0) = NodePart(t, j, e)
  BY <1>1 DEF AtNode
<1>7. load.pos + 2 <= Len(SaveCheckTable(t)) + 1
  BY <1>6
<1>8. ASSUME pc' = "heads", load.pos + 2 <= Len(result) + 1
      PROVE  Follows(t)'
  <2>1. valueCount = Len(EntriesOf(t, j + 1)) /\ uk = HeadsOf(t)[j + 1]
    BY <1>6, <1>8
  <2>2. /\ load'.pos = load.pos + 2 /\ load'.heads = load.heads /\ load'.nodes = load.nodes - 1
        /\ load'.entries = valueCount /\ load'.uk = uk
        /\ load'.checkTable = Defaulted(load.checkTable, uk, [end |-> 0, value |-> 0, table |-> [s \in {} |-> s]])
    BY DEF After, LoadShape
  <2>3. load'.checkTable = NodePart(t, j + 1, 0)
    BY <1>6, <2>1, <2>2 DEF Defaulted
  <2>4. EntryCount(t, j + 1) = Len(EntriesOf(t, j + 1)) /\ EntryCount(t, j + 1) \in Nat
    <3>1. j + 1 \in 0..Len(HeadsOf(t))
      BY <1>6
    <3> QED
      BY <1>6, <3>1, TableSizes
  <2>5. load'.nodes = Len(HeadsOf(t)) - (j + 1) /\ load'.entries = EntryCount(t, j + 1) - 0
    BY <1>6, <2>1, <2>2, <2>4
  <2>6. load'.pos = Position(t, j + 1, 0)
    BY <1>6, <2>2
  <2>7. AtEntry(t, j + 1, 0)'
    BY <2>1, <2>2, <2>3, <2>5, <2>6 DEF AtEntry
  <2>8. j + 1 \in 0..Len(HeadsOf(t)) /\ 0 \in 0..EntryCount(t, j + 1)
    BY <1>6, <2>4
  <2>9. ReadingNodes(t)'
    BY <2>7, <2>8 DEF ReadingNodes
  <2> QED
    BY <1>8, <2>9 DEF Follows
<1> QED
  BY <1>7, <1>8 DEF Keeps

\* The key and the value of an entry.
LEMMA EntryKeeps ==
  ASSUME NEW t, TableOver(t, Int), pc = "heads", Follows(t), pc' \in {"heads", "killed"},
         load.heads = 0, load.entries \in Nat \ {0}, LoadShape, NEW key, NEW value,
         load' = [After(2) EXCEPT !.entries = @ - 1, !.checkTable[load.uk].table = Assigned(@, key, value)],
         Len(result) \in Nat,
         load.pos + 2 <= Len(result) + 1 =>
           key = SaveCheckTable(t)[load.pos] /\ value = SaveCheckTable(t)[load.pos + 1]
  PROVE  Keeps(t, 2)
<1>1. PICK j \in 0..Len(HeadsOf(t)) : \E e \in 0..EntryCount(t, j) : AtEntry(t, j, e)
  <2>1. ~ ReadingHeads(t)
    <3>1. Len(HeadsOf(t)) \in Nat
      BY TableSizes
    <3> QED
      BY <3>1 DEF ReadingHeads, AtHead
  <2> QED
    BY <2>1 DEF Follows, ReadingNodes
<1>2. PICK e \in 0..EntryCount(t, j) : AtEntry(t, j, e)
  BY <1>1
<1>3. /\ load.nodes = Len(HeadsOf(t)) - j /\ load.entries = EntryCount(t, j) - e
      /\ load.pos = Position(t, j, e) /\ load.uk = HeadsOf(t)[j] /\ load.checkTable = NodePart(t, j, e)
  BY <1>2 DEF AtEntry
<1>4. /\ Len(HeadsOf(t)) \in Nat /\ EntryCount(t, j) \in Nat /\ j \in Nat /\ e \in Nat
  BY TableSizes
<1>5. j \in 1..Len(HeadsOf(t))
  <2>1. EntryCount(t, 0) = 0
    BY DEF EntryCount
  <2>2. j # 0
    BY <1>3, <1>4, <2>1
  <2> QED
    BY <1>4, <2>2
<1>6. EntryCount(t, j) = Len(EntriesOf(t, j))
  BY <1>5, TableSizes
<1>7. e \in 0..(Len(EntriesOf(t, j)) - 1) /\ e + 1 \in 0..EntryCount(t, j)
  BY <1>3, <1>4, <1>6
<1>8. /\ Position(t, j, e) \in Nat
      /\ Position(t, j, e + 1) = Position(t, j, e) + 2
      /\ Position(t, j, e) + 2 <= Len(SaveCheckTable(t)) + 1
      /\ NodePart(t, j, e + 1)
           = [NodePart(t, j, e) EXCEPT ![HeadsOf(t)[j]].table =
                Assigned(@, SaveCheckTable(t)[Position(t, j, e)], SaveCheckTable(t)[Position(t, j, e) + 1])]
  BY <1>5, <1>7, NextField
<1>9. load.pos + 2 <= Len(SaveCheckTable(t)) + 1
  BY <1>3, <1>8
<1>10. ASSUME pc' = "heads", load.pos + 2 <= Len(result) + 1
       PROVE  Follows(t)'
  <2>1. /\ load'.pos = load.pos + 2 /\ load'.heads = load.heads /\ load'.nodes = load.nodes
        /\ load'.entries = load.entries - 1 /\ load'.uk = load.uk
        /\ load'.checkTable = [load.checkTable EXCEPT ![load.uk].table = Assigned(@, key, value)]
    BY DEF After, LoadShape
  <2>2. key = SaveCheckTable(t)[Position(t, j, e)] /\ value = SaveCheckTable(t)[Position(t, j, e) + 1]
    BY <1>3, <1>10
  <2>3. load'.checkTable = NodePart(t, j, e + 1)
    BY <1>3, <1>8, <2>1, <2>2
  <2>4. load'.entries = EntryCount(t, j) - (e + 1) /\ load'.pos = Position(t, j, e + 1)
    BY <1>3, <1>4, <1>8, <2>1
  <2>5. AtEntry(t, j, e + 1)'
    BY <1>3, <2>1, <2>3, <2>4 DEF AtEntry
  <2>6. ReadingNodes(t)'
    BY <1>7, <2>5 DEF ReadingNodes
  <2> QED
    BY <1>10, <2>6 DEF Follows
<1> QED
  BY <1>9, <1>10 DEF Keeps

----------------------------------------------------------------------------
(* The invariant of the whole machine.                                     *)

LEMMA WholeIsPart ==
  ASSUME NEW t, TableOver(t, Int)
  PROVE  /\ SaveCheckTable(t) \in Seq(Int)
         /\ SaveCheckTable(t) = SubSeq(SaveCheckTable(t), 1, Len(SaveCheckTable(t)))
         /\ \A k \in 0..Len(SaveCheckTable(t)) :
              /\ Part(SubSeq(SaveCheckTable(t), 1, k), t)
              /\ Beginnings(SubSeq(SaveCheckTable(t), 1, k), 0) \subseteq Beginnings(SaveCheckTable(t), 0)
         /\ Part(<< >>, t)
<1> DEFINE w == SaveCheckTable(t)
<1>1. w \in Seq(Int)
  BY WholeLaid
<1> HIDE DEF w
<1>2. w = SubSeq(w, 1, Len(w)) /\ SubSeq(w, 1, 0) = << >> /\ Len(w) \in Nat
  BY <1>1
<1>3. ASSUME NEW k \in 0..Len(w)
      PROVE  /\ SubSeq(w, 1, k) \in Beginnings(w, 0)
             /\ Beginnings(SubSeq(w, 1, k), 0) \subseteq Beginnings(w, 0)
  <2>1. Len(SubSeq(w, 1, k)) = k
    BY <1>1
  <2>2. \A i \in 0..k : i \in 0..Len(w) /\ SubSeq(SubSeq(w, 1, k), 1, i) = SubSeq(w, 1, i)
    BY <1>1
  <2> QED
    BY <2>1, <2>2 DEF Beginnings
<1>4. 0 \in 0..Len(w)
  BY <1>2
<1>5. SubSeq(w, 1, 0) \in Beginnings(w, 0)
  BY <1>3, <1>4
<1> QED
  BY <1>1, <1>2, <1>3, <1>5 DEF w, Part

\* The contents of a file are the beginning of a saved table.
LEMMA PartIsContents ==
  ASSUME NEW t \in Tables, NEW s, Part(s, t)
  PROVE  s \in Contents
BY DEF Part, Contents

LEMMA LoadReset ==
  ASSUME load' = NoLoad, result' = << >>, pc' \notin {"count", "heads", "loaded"}
  PROVE  LoadInv'
<1>1. /\ load'.pos = 1 /\ load'.heads = 0 /\ load'.nodes = 0 /\ load'.entries = 0 /\ load'.overread = FALSE
      /\ load' = [pos |-> load'.pos, heads |-> load'.heads, nodes |-> load'.nodes, uk |-> load'.uk,
                  entries |-> load'.entries, checkTable |-> load'.checkTable, overread |-> load'.overread]
  BY DEF NoLoad
<1>2. Len(result') = 0
  OBVIOUS
<1>3. load'.overread <=> load'.pos > Len(result') + 1
  BY <1>1, <1>2
<1>4. 1 \in Nat \ {0} /\ 0 \in Nat /\ FALSE \in BOOLEAN
  OBVIOUS
<1>5. LoadShape'
  BY <1>1, <1>3, <1>4 DEF LoadShape
<1> QED
  BY <1>5 DEF LoadInv

LEMMA LoadUntouched ==
  ASSUME LoadInv, load' = load, result' = result,
         pc' \in {"count", "heads", "loaded"} => pc' = pc
  PROVE  LoadInv'
<1>1. LoadShape'
  BY DEF LoadInv, LoadShape
<1>2. ASSUME pc' \in {"count", "heads", "loaded"}
      PROVE  pc' = pc /\ \A t \in Tables : Follows(t) => Follows(t)'
  BY <1>2 DEF Follows, ReadingHeads, ReadingNodes, AtHead, AtEntry
<1>3. ASSUME pc' \in {"count", "heads", "loaded"}
      PROVE  /\ \E t \in Tables : Part(result', t)
             /\ \A t \in Tables : Part(result', t) /\ ~load'.overread => Follows(t)'
             /\ \A t \in Tables : result' = SaveCheckTable(t) => ~load'.overread
  <2>1. /\ \E t \in Tables : Part(result, t)
        /\ \A t \in Tables : Part(result, t) /\ ~load.overread => Follows(t)
        /\ \A t \in Tables : result = SaveCheckTable(t) => ~load.overread
    BY <1>2, <1>3 DEF LoadInv
  <2> QED
    BY <1>2, <1>3, <2>1
<1> QED
  BY <1>1, <1>3 DEF LoadInv

\* The invariant implies the type of the variables of LoadCheckTable.
SaveTypes ==
  /\ pc \in {"start", "opened", "written", "reported", "closed",
             "count", "heads", "loaded", "exited", "killed"}
  /\ saving \in Tables
  /\ buffer \in Seq(Int) /\ Len(buffer) < BufferFields
  /\ writesize \in 0..Len(WholeTable)
  /\ faults \in 0..MaxFaults

LEMMA Types == LoadInv => (SaveTypes <=> TypeOK)
BY DEF LoadInv, LoadShape, SaveTypes, TypeOK

LEMMA ReadCountKeeps ==
  ASSUME Parameters, LoadInv, ReadCount
  PROVE  LoadInv'
<1>1. pc = "count" /\ result' = result /\ pc' \in {"heads", "killed"}
  BY DEF ReadCount, LoadStep, MayDie
<1>2. PICK t \in Tables : Part(result, t)
  BY <1>1 DEF LoadInv
<1>3. result \in Seq(Int) /\ Len(result) \in Nat
  BY <1>2, FieldOfTable, TablesOver
<1>4. PICK count \in Field(load.pos) : load' = [After(1) EXCEPT !.heads = count, !.nodes = count]
  BY DEF ReadCount
<1>5. LoadShape
  BY DEF LoadInv
<1>6. ASSUME NEW u \in Tables, Part(result, u), load.pos <= Len(result)
      PROVE  count = SaveCheckTable(u)[1] /\ count \in Nat
  <2>1. ~load.overread
    BY <1>3, <1>5, <1>6 DEF LoadShape
  <2>2. load.pos = 1
    BY <1>1, <1>6, <2>1 DEF LoadInv, Follows, NoLoad
  <2>3. count = result[1]
    BY <1>4, <1>6, <2>2 DEF Field
  <2>4. TableOver(u, Int) /\ 1 \in 1..Len(result)
    BY <1>3, <1>6, <2>2, TablesOver
  <2>5. SaveCheckTable(u)[1] = result[1]
    BY <1>6, <2>4, FieldOfTable
  <2>6. SaveCheckTable(u)[1] \in Nat
    BY <2>4, WholeLaid, TableSizes
  <2> QED
    BY <2>3, <2>5, <2>6
<1>7. count \in Nat
  <2>1. CASE load.pos <= Len(result)
    BY <1>2, <1>6, <2>1
  <2>2. CASE ~(load.pos <= Len(result))
    BY <1>4, <2>2 DEF Field, Parameters
  <2> QED
    BY <2>1, <2>2
<1>8. Advances(1)
  <2>1. /\ load' = [pos |-> load.pos + 1, heads |-> load'.heads, nodes |-> load'.nodes, uk |-> load'.uk,
                    entries |-> load'.entries, checkTable |-> load'.checkTable, overread |-> load'.overread]
        /\ load'.heads = count /\ load'.nodes = count /\ load'.entries = load.entries
        /\ load'.overread = (load.overread \/ load.pos + 1 - 1 > Len(result))
    BY <1>4, <1>5 DEF After, LoadShape
  <2>2. load.entries \in Nat
    BY <1>5 DEF LoadShape
  <2> QED
    BY <1>1, <1>7, <2>1, <2>2 DEF Advances
<1>9. ASSUME NEW u \in Tables, Part(result, u), ~load.overread
      PROVE  Keeps(u, 1)
  <2>1. TableOver(u, Int) /\ load = NoLoad
    BY <1>1, <1>9, TablesOver DEF LoadInv, Follows
  <2>2. load.pos <= Len(result) => count = SaveCheckTable(u)[1]
    BY <1>6, <1>9
  <2> QED
    BY <1>1, <1>3, <1>4, <2>1, <2>2, CountKeeps
<1> QED
  BY <1>3, <1>8, <1>9, ReadKeeps

LEMMA ReadHeadKeeps ==
  ASSUME Parameters, LoadInv, ReadHead
  PROVE  LoadInv'
<1>1. pc = "heads" /\ result' = result /\ pc' \in {"heads", "killed"} /\ load.heads \in Nat \ {0} /\ LoadShape
  BY DEF ReadHead, LoadStep, MayDie, LoadInv, LoadShape
<1>2. PICK t \in Tables : Part(result, t)
  BY <1>1 DEF LoadInv
<1>3. result \in Seq(Int) /\ Len(result) \in Nat
  BY <1>2, FieldOfTable, TablesOver
<1>4. PICK key \in Field(load.pos), end \in Field(load.pos + 1), value \in Field(load.pos + 2) :
        StoresHead(key, end, value)
  BY DEF ReadHead, StoresHead
<1>5. load.pos \in Nat \ {0} /\ load.heads - 1 \in Nat /\ load.nodes \in Nat /\ load.entries \in Nat /\ load.overread \in BOOLEAN
  BY <1>1 DEF LoadShape
<1>6. Advances(3)
  <2>1. /\ load' = [pos |-> load.pos + 3, heads |-> load'.heads, nodes |-> load'.nodes, uk |-> load'.uk,
                    entries |-> load'.entries, checkTable |-> load'.checkTable, overread |-> load'.overread]
        /\ load'.heads = load.heads - 1 /\ load'.nodes = load.nodes /\ load'.entries = load.entries
        /\ load'.overread = (load.overread \/ load.pos + 3 - 1 > Len(result))
    BY <1>1, <1>4 DEF StoresHead, After, LoadShape
  <2> QED
    BY <1>1, <1>5, <2>1 DEF Advances
<1>7. ASSUME NEW u \in Tables, Part(result, u), ~load.overread
      PROVE  Keeps(u, 3)
  <2>1. TableOver(u, Int) /\ Follows(u)
    BY <1>1, <1>7, TablesOver DEF LoadInv
  <2>2. \A p \in 1..Len(result) : result[p] = SaveCheckTable(u)[p]
    BY <1>7, <2>1, FieldOfTable
  <2>3. ASSUME load.pos + 3 <= Len(result) + 1
        PROVE  /\ key = SaveCheckTable(u)[load.pos] /\ end = SaveCheckTable(u)[load.pos + 1]
               /\ value = SaveCheckTable(u)[load.pos + 2]
    <3>1. load.pos \in 1..Len(result) /\ load.pos + 1 \in 1..Len(result) /\ load.pos + 2 \in 1..Len(result)
      <4>1. \A p \in Nat \ {0}, n \in Nat : p + 3 <= n + 1 => p \in 1..n /\ p + 1 \in 1..n /\ p + 2 \in 1..n
        OBVIOUS
      <4> QED
        BY <1>3, <1>5, <2>3, <4>1
    <3>2. key = result[load.pos] /\ end = result[load.pos + 1] /\ value = result[load.pos + 2]
      BY <1>3, <1>4, <3>1 DEF Field
    <3> QED
      BY <2>2, <3>1, <3>2
  <2> QED
    BY <1>1, <1>3, <1>4, <2>1, <2>3, HeadKeeps
<1> QED
  BY <1>3, <1>6, <1>7, ReadKeeps

LEMMA ReadNodeKeeps ==
  ASSUME Parameters, LoadInv, ReadNode
  PROVE  LoadInv'
<1>1. /\ pc = "heads" /\ result' = result /\ pc' \in {"heads", "killed"} /\ LoadShape
      /\ load.heads = 0 /\ load.entries = 0 /\ load.nodes \in Nat \ {0}
  BY DEF ReadNode, LoadStep, MayDie, LoadInv, LoadShape
<1>2. PICK t \in Tables : Part(result, t)
  BY <1>1 DEF LoadInv
<1>3. result \in Seq(Int) /\ Len(result) \in Nat
  BY <1>2, FieldOfTable, TablesOver
<1>4. PICK valueCount \in Field(load.pos), uk \in Field(load.pos + 1) :
        load' = [After(2) EXCEPT !.nodes = @ - 1, !.entries = valueCount, !.uk = uk,
                   !.checkTable = Defaulted(@, uk, [end |-> 0, value |-> 0, table |-> [s \in {} |-> s]])]
  BY DEF ReadNode
<1>5. load.pos \in Nat \ {0} /\ load.heads \in Nat /\ load.nodes - 1 \in Nat
      /\ load.overread \in BOOLEAN /\ (load.overread <=> load.pos > Len(result) + 1)
  BY <1>1 DEF LoadShape
<1>6. ASSUME load.pos <= Len(result)
      PROVE  valueCount \in Nat
  <2>1. ~load.overread
    BY <1>3, <1>5, <1>6
  <2>2. TableOver(t, Int) /\ Follows(t)
    BY <1>1, <1>2, <2>1, TablesOver DEF LoadInv
  <2>3. PICK j, e : AtNode(t, j, e)
    BY <1>1, <2>2, NodeAhead
  <2>4. SaveCheckTable(t)[load.pos] \in Nat
    BY <2>2, <2>3, EntryFacts DEF AtNode
  <2>5. load.pos \in 1..Len(result)
    BY <1>3, <1>5, <1>6
  <2>6. valueCount = result[load.pos] /\ result[load.pos] = SaveCheckTable(t)[load.pos]
    BY <1>2, <1>4, <1>6, <2>2, <2>5, FieldOfTable DEF Field
  <2> QED
    BY <2>4, <2>6
<1>7. valueCount \in Nat
  <2>1. CASE load.pos <= Len(result)
    BY <1>6, <2>1
  <2>2. CASE ~(load.pos <= Len(result))
    BY <1>4, <2>2 DEF Field, Parameters
  <2> QED
    BY <2>1, <2>2
<1>8. Advances(2)
  <2>1. /\ load' = [pos |-> load.pos + 2, heads |-> load'.heads, nodes |-> load'.nodes, uk |-> load'.uk,
                    entries |-> load'.entries, checkTable |-> load'.checkTable, overread |-> load'.overread]
        /\ load'.heads = load.heads /\ load'.nodes = load.nodes - 1 /\ load'.entries = valueCount
        /\ load'.overread = (load.overread \/ load.pos + 2 - 1 > Len(result))
    BY <1>1, <1>4 DEF After, LoadShape
  <2> QED
    BY <1>1, <1>5, <1>7, <2>1 DEF Advances
<1>9. ASSUME NEW u \in Tables, Part(result, u), ~load.overread
      PROVE  Keeps(u, 2)
  <2>1. TableOver(u, Int) /\ Follows(u)
    BY <1>1, <1>9, TablesOver DEF LoadInv
  <2>2. \A p \in 1..Len(result) : result[p] = SaveCheckTable(u)[p]
    BY <1>9, <2>1, FieldOfTable
  <2>3. ASSUME load.pos + 2 <= Len(result) + 1
        PROVE  valueCount = SaveCheckTable(u)[load.pos] /\ uk = SaveCheckTable(u)[load.pos + 1]
    <3>1. load.pos \in 1..Len(result) /\ load.pos + 1 \in 1..Len(result)
      BY <1>3, <1>5, <2>3
    <3>2. valueCount = result[load.pos] /\ uk = result[load.pos + 1]
      BY <1>3, <1>4, <3>1 DEF Field
    <3> QED
      BY <2>2, <3>1, <3>2
  <2> QED
    BY <1>1, <1>3, <1>4, <2>1, <2>3, NodeKeeps
<1> QED
  BY <1>3, <1>8, <1>9, ReadKeeps

LEMMA ReadEntryKeeps ==
  ASSUME Parameters, LoadInv, ReadEntry
  PROVE  LoadInv'
<1>1. /\ pc = "heads" /\ result' = result /\ pc' \in {"heads", "killed"} /\ LoadShape
      /\ load.heads = 0 /\ load.entries \in Nat \ {0}
  BY DEF ReadEntry, LoadStep, MayDie, LoadInv, LoadShape
<1>2. PICK t \in Tables : Part(result, t)
  BY <1>1 DEF LoadInv
<1>3. result \in Seq(Int) /\ Len(result) \in Nat
  BY <1>2, FieldOfTable, TablesOver
<1>4. PICK key \in Field(load.pos), value \in Field(load.pos + 1) :
        load' = [After(2) EXCEPT !.entries = @ - 1, !.checkTable[load.uk].table = Assigned(@, key, value)]
  BY DEF ReadEntry
<1>5. load.pos \in Nat \ {0} /\ load.heads \in Nat /\ load.nodes \in Nat /\ load.entries - 1 \in Nat /\ load.overread \in BOOLEAN
  BY <1>1 DEF LoadShape
<1>6. Advances(2)
  <2>1. /\ load' = [pos |-> load.pos + 2, heads |-> load'.heads, nodes |-> load'.nodes, uk |-> load'.uk,
                    entries |-> load'.entries, checkTable |-> load'.checkTable, overread |-> load'.overread]
        /\ load'.heads = load.heads /\ load'.nodes = load.nodes /\ load'.entries = load.entries - 1
        /\ load'.overread = (load.overread \/ load.pos + 2 - 1 > Len(result))
    BY <1>1, <1>4 DEF After, LoadShape
  <2> QED
    BY <1>1, <1>5, <2>1 DEF Advances
<1>7. ASSUME NEW u \in Tables, Part(result, u), ~load.overread
      PROVE  Keeps(u, 2)
  <2>1. TableOver(u, Int) /\ Follows(u)
    BY <1>1, <1>7, TablesOver DEF LoadInv
  <2>2. \A p \in 1..Len(result) : result[p] = SaveCheckTable(u)[p]
    BY <1>7, <2>1, FieldOfTable
  <2>3. ASSUME load.pos + 2 <= Len(result) + 1
        PROVE  key = SaveCheckTable(u)[load.pos] /\ value = SaveCheckTable(u)[load.pos + 1]
    <3>1. load.pos \in 1..Len(result) /\ load.pos + 1 \in 1..Len(result)
      BY <1>3, <1>5, <2>3
    <3>2. key = result[load.pos] /\ value = result[load.pos + 1]
      BY <1>3, <1>4, <3>1 DEF Field
    <3> QED
      BY <2>2, <3>1, <3>2
  <2> QED
    BY <1>1, <1>3, <1>4, <2>1, <2>3, EntryKeeps
<1> QED
  BY <1>3, <1>6, <1>7, ReadKeeps

LEMMA OpenToLoadKeeps ==
  ASSUME Parameters, SaveInv, LoadInv, OpenToLoad
  PROVE  LoadInv'
<1>1. load' = NoLoad /\ load'.overread = FALSE /\ load'.pos = 1
  BY DEF OpenToLoad, NoLoad
<1>2. CASE file = Absent
  <2>1. pc' = "exited" /\ result' = result
    BY <1>2 DEF OpenToLoad
  <2>2. LoadShape'
    BY <1>1 DEF LoadShape, NoLoad
  <2> QED
    BY <2>1, <2>2 DEF LoadInv
<1>3. CASE file # Absent
  <2>1. pc' = "count" /\ result' = file
    BY <1>3 DEF OpenToLoad
  <2>2. PICK t \in Tables : Part(file, t)
    BY <1>3 DEF SaveInv, Contents, Part
  <2>3. Len(file) \in Nat
    BY <2>2, FieldOfTable DEF Parameters
  <2>4. load'.overread <=> load'.pos > Len(result') + 1
    BY <1>1, <2>1, <2>3
  <2>5. LoadShape'
    BY <1>1, <2>4 DEF LoadShape, NoLoad
  <2>6. \A u \in Tables : Follows(u)'
    BY <1>1, <2>1 DEF Follows
  <2>7. Part(result', t)
    BY <2>1, <2>2
  <2> QED
    BY <1>1, <2>5, <2>6, <2>7 DEF LoadInv
<1> QED
  BY <1>2, <1>3

LEMMA LoadedKeeps ==
  ASSUME LoadInv, Loaded
  PROVE  LoadInv'
<1>1. pc = "heads" /\ pc' = "loaded" /\ load' = load /\ result' = result
      /\ load.heads = 0 /\ load.nodes = 0 /\ load.entries = 0
  BY DEF Loaded, LoadStep
<1>2. LoadShape'
  BY <1>1 DEF LoadInv, LoadShape
<1>3. \A t \in Tables : Follows(t) => Follows(t)'
  BY <1>1 DEF Follows, ReadingHeads, ReadingNodes, AtHead, AtEntry
<1>4. /\ \E t \in Tables : Part(result', t)
      /\ \A t \in Tables : Part(result', t) /\ ~load'.overread => Follows(t)'
      /\ \A t \in Tables : result' = SaveCheckTable(t) => ~load'.overread
  <2>1. /\ \E t \in Tables : Part(result, t)
        /\ \A t \in Tables : Part(result, t) /\ ~load.overread => Follows(t)
        /\ \A t \in Tables : result = SaveCheckTable(t) => ~load.overread
    BY <1>1 DEF LoadInv
  <2> QED
    BY <1>1, <1>3, <2>1
<1> QED
  BY <1>2, <1>4 DEF LoadInv

\* What a save writes over an empty file, and over the beginning of what it saves.
LEMMA Overwrites ==
  ASSUME NEW w \in Seq(Int), NEW m \in 0..Len(w), NEW k \in m..Len(w)
  PROVE  Overwritten(SubSeq(w, 1, m), SubSeq(w, 1, k)) = SubSeq(w, 1, k)
<1> DEFINE old == SubSeq(w, 1, m)
           s == SubSeq(w, 1, k)
<1>1. old \in Seq(Int) /\ Len(old) = m /\ s \in Seq(Int) /\ Len(s) = k
  OBVIOUS
<1> HIDE DEF old, s
<1>2. SubSeq(old, Len(s) + 1, Len(old)) = << >>
  BY <1>1
<1>3. s \o << >> = s
  BY <1>1
<1> QED
  BY <1>2, <1>3 DEF Overwritten, old, s

LEMMA WriteKeeps ==
  ASSUME Parameters, SaveTypes, SaveInv, Write
  PROVE  SaveTypes' /\ SaveInv'
<1> DEFINE w == WholeTable
<1>1. saving \in Tables /\ TableOver(saving, Int) /\ w = SaveCheckTable(saving) /\ w \in Seq(Int) /\ WholeTable' = w
  <2>1. saving \in Tables /\ TableOver(saving, Int) /\ saving' = saving
    BY TablesOver DEF SaveTypes, Write
  <2> QED
    BY <2>1, WholeLaid DEF WholeTable
<1>2. file = << >> /\ pc' = "written" /\ saving' = saving /\ disk' = disk \cup Beginnings(file', 0)
      /\ file \in Contents /\ disk \subseteq Contents
  BY DEF Write, SaveInv
<1>3. PICK n \in 0..Len(w), passed \in 0..Len(w) :
        /\ passed <= n /\ n - passed < BufferFields
        /\ n < Len(w) => faults < MaxFaults
        /\ faults' = IF n < Len(w) THEN faults + 1 ELSE faults
        /\ writesize' = n
        /\ file' = Overwritten(file, SubSeq(w, 1, passed))
        /\ buffer' = SubSeq(w, passed + 1, n)
  BY DEF Write
<1> HIDE DEF w
<1>4. Len(w) \in Nat /\ 0 \in 0..Len(w) /\ passed \in 0..Len(w) /\ SubSeq(w, 1, 0) = << >>
  BY <1>1
<1>5. file' = SubSeq(w, 1, passed)
  BY <1>1, <1>2, <1>3, <1>4, Overwrites
<1>6. buffer' \in Seq(Int) /\ Len(buffer') = n - passed
  BY <1>1, <1>3
<1>7. faults' \in 0..MaxFaults
  BY <1>3 DEF SaveTypes, Parameters
<1>8. SaveTypes'
  BY <1>1, <1>2, <1>3, <1>6, <1>7 DEF SaveTypes
<1>9. file' \in Contents /\ disk' \subseteq Contents
  <2>1. /\ SubSeq(w, 1, passed) \in Beginnings(w, 0)
        /\ Beginnings(SubSeq(w, 1, passed), 0) \subseteq Beginnings(w, 0)
    BY <1>1, <1>4, WholeIsPart DEF Part
  <2>2. Beginnings(w, 0) \subseteq Contents
    BY <1>1 DEF Contents
  <2> QED
    BY <1>2, <1>5, <2>1, <2>2
<1>10. writesize' - Len(buffer') = passed /\ Len(buffer') <= writesize'
  BY <1>3, <1>4, <1>6
<1> QED
  BY <1>1, <1>2, <1>3, <1>5, <1>8, <1>9, <1>10 DEF SaveInv, w

\* fclose writes the n fields of the buffer that it can.
LEMMA CloseWrites ==
  ASSUME Parameters, SaveTypes, SaveInv, Close
  PROVE  \E n \in 0..Len(buffer) :
           /\ n < Len(buffer) => faults < MaxFaults
           /\ faults' = IF n < Len(buffer) THEN faults + 1 ELSE faults
           /\ writesize - Len(buffer) + n \in 0..Len(WholeTable)
           /\ file' = SubSeq(WholeTable, 1, writesize - Len(buffer) + n)
<1> DEFINE w == WholeTable
           b == Len(buffer)
           m == writesize - b
<1>1. saving \in Tables /\ TableOver(saving, Int) /\ w = SaveCheckTable(saving) /\ w \in Seq(Int)
  <2>1. saving \in Tables /\ TableOver(saving, Int)
    BY TablesOver DEF SaveTypes
  <2> QED
    BY <2>1, WholeLaid DEF WholeTable
<1>2. PICK n \in 0..b :
        /\ n < b => faults < MaxFaults
        /\ faults' = IF n < b THEN faults + 1 ELSE faults
        /\ file' = Overwritten(file, SubSeq(w, 1, m + n))
  BY DEF Close
<1>3. b \in Nat /\ writesize \in 0..Len(w) /\ b <= writesize /\ file = SubSeq(w, 1, m)
  BY DEF Close, SaveInv, SaveTypes
<1>4. buffer = SubSeq(w, m + 1, writesize)
  BY DEF Close, SaveInv
<1> HIDE DEF w, b
<1>5. Len(w) \in Nat
  BY <1>1
<1>6. m \in 0..Len(w) /\ m + n \in m..Len(w) /\ m + n \in 0..Len(w)
  BY <1>2, <1>3, <1>5
<1> HIDE DEF m
<1>7. file' = SubSeq(w, 1, m + n)
  BY <1>1, <1>2, <1>3, <1>6, Overwrites
<1> QED
  BY <1>2, <1>6, <1>7 DEF w, b, m

LEMMA CloseKeeps ==
  ASSUME Parameters, SaveTypes, SaveInv, Close
  PROVE  SaveTypes' /\ SaveInv'
<1> DEFINE w == WholeTable
<1>1. PICK n \in 0..Len(buffer) :
        /\ n < Len(buffer) => faults < MaxFaults
        /\ faults' = IF n < Len(buffer) THEN faults + 1 ELSE faults
        /\ writesize - Len(buffer) + n \in 0..Len(w)
        /\ file' = SubSeq(w, 1, writesize - Len(buffer) + n)
  BY CloseWrites
<1>2. /\ pc' = "closed" /\ saving' = saving /\ buffer' = << >> /\ writesize' = 0
      /\ disk' = disk \cup Beginnings(file', writesize - Len(buffer))
      /\ disk \subseteq Contents /\ Len(buffer) \in Nat /\ Len(buffer) <= writesize /\ writesize \in Nat
  BY DEF Close, SaveInv, SaveTypes
<1>3. saving \in Tables /\ TableOver(saving, Int) /\ w = SaveCheckTable(saving) /\ w \in Seq(Int) /\ WholeTable' = w
  <2>1. saving \in Tables /\ TableOver(saving, Int) /\ saving' = saving
    BY <1>2, TablesOver DEF SaveTypes
  <2> QED
    BY <2>1, WholeLaid DEF WholeTable
<1> DEFINE k == writesize - Len(buffer) + n
<1> HIDE DEF w
<1>4. file' \in Beginnings(w, 0) /\ Beginnings(file', 0) \subseteq Beginnings(w, 0)
  BY <1>1, <1>3, WholeIsPart DEF Part
<1>5. Beginnings(file', writesize - Len(buffer)) \subseteq Beginnings(file', 0)
  <2>1. writesize - Len(buffer) \in Nat
    BY <1>2
  <2> HIDE DEF k
  <2>2. \A a \in Nat, i \in Int : i \in a..Len(file') => i \in 0..Len(file')
    OBVIOUS
  <2> QED
    BY <2>1, <2>2 DEF Beginnings
<1>6. Beginnings(w, 0) \subseteq Contents
  BY <1>3 DEF Contents
<1>7. file' \in Contents /\ disk' \subseteq Contents
  BY <1>2, <1>4, <1>5, <1>6
<1>8. faults' \in 0..MaxFaults
  BY <1>1, <1>2 DEF SaveTypes, Parameters
<1>9. Len(w) \in Nat
  BY <1>3
<1>10. SaveTypes'
  BY <1>2, <1>3, <1>8, <1>9 DEF SaveTypes, Parameters, w
<1> QED
  BY <1>2, <1>7, <1>10 DEF SaveInv

\* While no save runs, the file and the disk stay what they are.
LEMMA SaveUntouched ==
  ASSUME SaveTypes, SaveInv, UNCHANGED <<saving, file, disk, buffer, writesize, faults>>,
         pc \notin {"opened", "written", "reported"},
         pc' \in {"start", "closed", "count", "heads", "loaded", "exited", "killed"}
  PROVE  SaveTypes' /\ SaveInv'
<1>1. WholeTable' = WholeTable
  BY DEF WholeTable
<1> QED
  BY <1>1 DEF SaveTypes, SaveInv

LEMMA InitHolds == Parameters /\ Init => IInv
<1> SUFFICES ASSUME Parameters, Init PROVE IInv
  OBVIOUS
<1>1. LoadInv
  <2>1. LoadShape
    BY DEF Init, NoLoad, LoadShape
  <2> QED
    BY <2>1 DEF Init, LoadInv
<1>2. WholeTable \in Seq(Int)
  BY WholeLaid, TablesOver DEF Init, WholeTable
<1>3. 0 \in 0..Len(WholeTable) /\ << >> \in Seq(Int) /\ Len(<< >>) = 0 /\ 0 < BufferFields /\ 0 \in 0..MaxFaults
  BY <1>2 DEF Parameters
<1>4. SaveTypes
  BY <1>3 DEF Init, SaveTypes
<1>5. SaveInv
  BY DEF Init, SaveInv, Contents
<1> QED
  BY <1>1, <1>4, <1>5, Types DEF IInv

LEMMA NextHolds == Parameters /\ IInv /\ [Next]_vars => IInv'
<1> SUFFICES ASSUME Parameters, IInv, [Next]_vars PROVE IInv'
  OBVIOUS
<1>1. SaveTypes /\ SaveInv /\ LoadInv
  BY Types DEF IInv
<1>2. (SaveTypes /\ SaveInv /\ LoadInv)' => IInv'
  <2>1. LoadInv' => (SaveTypes' <=> TypeOK')
    BY DEF LoadInv, LoadShape, SaveTypes, TypeOK
  <2> QED
    BY <2>1 DEF IInv
<1>3. \A t \in Tables : << >> \in Beginnings(SaveCheckTable(t), 0)
  BY WholeIsPart, TablesOver DEF Part
<1>4. << >> \in Contents
  BY <1>1, <1>3 DEF SaveTypes, Contents
<1>5. \A t \in Tables : Len(SaveCheckTable(t)) \in Nat
  BY TableSizes DEF Parameters
<1>6. ASSUME NEW t \in Tables, OpenToSave(t) PROVE IInv'
  <2>1. LoadInv'
    BY <1>1, <1>6, LoadUntouched DEF OpenToSave
  <2>2. Len(WholeTable') \in Nat
    BY <1>5, <1>6 DEF OpenToSave, WholeTable
  <2>3. SaveTypes'
    BY <1>1, <1>6, <2>2 DEF OpenToSave, SaveTypes, SaveInv
  <2>4. SaveInv'
    BY <1>1, <1>4, <1>6 DEF OpenToSave, SaveInv, Truncated
  <2> QED
    BY <1>2, <2>1, <2>3, <2>4
<1>7. CASE Write
  <2>1. LoadInv'
    BY <1>1, <1>7, LoadUntouched DEF Write
  <2> QED
    BY <1>1, <1>2, <1>7, <2>1, WriteKeeps
<1>8. CASE SyncAndReport
  <2>1. LoadInv'
    BY <1>1, <1>8, LoadUntouched DEF SyncAndReport
  <2>2. WholeTable' = WholeTable
    BY <1>8 DEF SyncAndReport, WholeTable
  <2>3. SaveTypes' /\ SaveInv'
    BY <1>1, <1>8, <2>2 DEF SyncAndReport, SaveTypes, SaveInv
  <2> QED
    BY <1>2, <2>1, <2>3
<1>9. CASE Close
  <2>1. LoadInv'
    BY <1>1, <1>9, LoadUntouched DEF Close
  <2> QED
    BY <1>1, <1>2, <1>9, <2>1, CloseKeeps
<1>10. CASE OpenToLoad
  <2>1. LoadInv'
    BY <1>1, <1>10, OpenToLoadKeeps
  <2>2. SaveTypes' /\ SaveInv'
    BY <1>1, <1>10, SaveUntouched DEF OpenToLoad
  <2> QED
    BY <1>2, <2>1, <2>2
<1>11. CASE ReadCount
  <2>1. LoadInv'
    BY <1>1, <1>11, ReadCountKeeps
  <2>2. SaveTypes' /\ SaveInv'
    BY <1>1, <1>11, SaveUntouched DEF ReadCount, LoadStep, MayDie
  <2> QED
    BY <1>2, <2>1, <2>2
<1>12. CASE ReadHead
  <2>1. LoadInv'
    BY <1>1, <1>12, ReadHeadKeeps
  <2>2. SaveTypes' /\ SaveInv'
    BY <1>1, <1>12, SaveUntouched DEF ReadHead, LoadStep, MayDie
  <2> QED
    BY <1>2, <2>1, <2>2
<1>13. CASE ReadNode
  <2>1. LoadInv'
    BY <1>1, <1>13, ReadNodeKeeps
  <2>2. SaveTypes' /\ SaveInv'
    BY <1>1, <1>13, SaveUntouched DEF ReadNode, LoadStep, MayDie
  <2> QED
    BY <1>2, <2>1, <2>2
<1>14. CASE ReadEntry
  <2>1. LoadInv'
    BY <1>1, <1>14, ReadEntryKeeps
  <2>2. SaveTypes' /\ SaveInv'
    BY <1>1, <1>14, SaveUntouched DEF ReadEntry, LoadStep, MayDie
  <2> QED
    BY <1>2, <2>1, <2>2
<1>15. CASE Loaded
  <2>1. LoadInv'
    BY <1>1, <1>15, LoadedKeeps
  <2>2. SaveTypes' /\ SaveInv'
    BY <1>1, <1>15, SaveUntouched DEF Loaded, LoadStep
  <2> QED
    BY <1>2, <2>1, <2>2
<1>16. CASE Restart
  <2>1. LoadInv'
    BY <1>16, LoadReset DEF Restart
  <2>2. SaveTypes' /\ SaveInv'
    BY <1>1, <1>16, SaveUntouched DEF Restart
  <2> QED
    BY <1>2, <2>1, <2>2
<1>17. CASE Crash
  <2>1. LoadInv'
    BY <1>17, LoadReset DEF Crash
  <2>2. WholeTable' = WholeTable /\ Len(WholeTable) \in Nat /\ faults + 1 \in 0..MaxFaults /\ 0 < BufferFields
    BY <1>1, <1>5, <1>17 DEF Crash, WholeTable, SaveTypes, Parameters
  <2>3. SaveTypes' /\ SaveInv'
    BY <1>1, <1>17, <2>2 DEF Crash, SaveTypes, SaveInv
  <2> QED
    BY <1>2, <2>1, <2>3
<1>18. CASE PowerFailure
  <2>1. LoadInv'
    BY <1>18, LoadReset DEF PowerFailure
  <2>2. WholeTable' = WholeTable /\ Len(WholeTable) \in Nat /\ faults + 1 \in 0..MaxFaults /\ 0 < BufferFields
    BY <1>1, <1>5, <1>18 DEF PowerFailure, WholeTable, SaveTypes, Parameters
  <2>3. SaveTypes' /\ SaveInv'
    BY <1>1, <1>18, <2>2 DEF PowerFailure, SaveTypes, SaveInv
  <2> QED
    BY <1>2, <2>1, <2>3
<1>19. CASE UNCHANGED vars
  <2>1. LoadInv'
    BY <1>1, <1>19, LoadUntouched DEF vars
  <2>2. WholeTable' = WholeTable
    BY <1>19 DEF vars, WholeTable
  <2>3. SaveTypes' /\ SaveInv'
    BY <1>1, <1>19, <2>2 DEF vars, SaveTypes, SaveInv
  <2> QED
    BY <1>2, <2>1, <2>3
<1> QED
  BY <1>6, <1>7, <1>8, <1>9, <1>10, <1>11, <1>12, <1>13, <1>14, <1>15, <1>16, <1>17, <1>18, <1>19 DEF Next

----------------------------------------------------------------------------
(* The theorems.                                                           *)

\* At the end LoadCheckTable has read every field, and has the table.
LEMMA AtTheEnd ==
  ASSUME NEW t, TableOver(t, Int), Follows(t), pc = "loaded"
  PROVE  load.pos = Len(SaveCheckTable(t)) + 1 /\ load.checkTable = t
<1>1. load.heads = 0 /\ load.nodes = 0 /\ load.entries = 0
  BY DEF Follows
<1>2. Len(HeadsOf(t)) \in Nat
  BY TableSizes
<1>3. PICK j \in 0..Len(HeadsOf(t)) : \E e \in 0..EntryCount(t, j) : AtEntry(t, j, e)
  <2>1. ~ ReadingHeads(t)
    BY <1>1, <1>2 DEF ReadingHeads, AtHead
  <2> QED
    BY <2>1 DEF Follows, ReadingNodes
<1>4. PICK e \in 0..EntryCount(t, j) : AtEntry(t, j, e)
  BY <1>3
<1>5. EntryCount(t, j) \in Nat
  BY TableSizes
<1>6. j = Len(HeadsOf(t)) /\ e = EntryCount(t, j) /\ load.pos = Position(t, j, e) /\ load.checkTable = NodePart(t, j, e)
  BY <1>1, <1>2, <1>4, <1>5 DEF AtEntry
<1>7. StartsLaid(t)
  BY WholeLaid
<1>8. NodeStarts(t)[j] = Len(SaveCheckTable(t)) + 1
  BY <1>6, <1>7 DEF StartsLaid
<1>9. Position(t, j, e) = NodeStarts(t)[j]
  <2>1. CASE j = 0
    BY <2>1 DEF Position
  <2>2. CASE j # 0
    <3>1. j \in 1..Len(HeadsOf(t)) /\ j - 1 \in 0..Len(HeadsOf(t))
      BY <1>2, <2>2
    <3>2. NodeStarts(t)[j] = NodeStarts(t)[j - 1] + (2 + 2 * Len(EntriesOf(t, j)))
      BY <1>7, <3>1 DEF StartsLaid
    <3>3. NodeStarts(t)[j - 1] \in Nat /\ Len(EntriesOf(t, j)) \in Nat
      BY <1>7, <3>1, EntryFacts DEF StartsLaid
    <3>4. Position(t, j, e) = NodeStarts(t)[j - 1] + 2 + 2 * Len(EntriesOf(t, j))
      BY <1>6, <2>2 DEF Position, EntryCount
    <3> QED
      BY <3>2, <3>3, <3>4
  <2> QED
    BY <2>1, <2>2
<1> QED
  BY <1>6, <1>8, <1>9, LastEntry

LEMMA InvLoads == Parameters /\ IInv => LoadsWholeTables
<1> SUFFICES ASSUME Parameters, IInv, pc = "loaded" PROVE InsideMeansWhole /\ ReloadsTheTable
  BY DEF LoadsWholeTables
<1>1. /\ LoadShape /\ saving \in Tables
      /\ \E t \in Tables : Part(result, t)
      /\ \A t \in Tables : Part(result, t) /\ ~load.overread => Follows(t)
      /\ \A t \in Tables : result = SaveCheckTable(t) => ~load.overread
  BY DEF IInv, LoadInv, TypeOK
<1>2. InsideMeansWhole
  <2> SUFFICES ASSUME ~load.overread
               PROVE  /\ load.pos = Len(result) + 1
                      /\ load.checkTable \in Tables
                      /\ SaveCheckTable(load.checkTable) = result
    BY DEF InsideMeansWhole
  <2>1. PICK t \in Tables : Part(result, t)
    BY <1>1
  <2>2. TableOver(t, Int) /\ Follows(t)
    BY <1>1, <2>1, TablesOver
  <2>3. load.pos = Len(SaveCheckTable(t)) + 1 /\ load.checkTable = t
    BY <2>2, AtTheEnd
  <2>4. load.pos <= Len(result) + 1
    <3>1. Len(result) \in Nat
      BY <2>1, <2>2, FieldOfTable
    <3> QED
      BY <1>1, <3>1 DEF LoadShape
  <2>5. /\ Len(result) \in Nat /\ Len(result) <= Len(SaveCheckTable(t)) /\ Len(SaveCheckTable(t)) \in Nat
        /\ Len(result) = Len(SaveCheckTable(t)) => result = SaveCheckTable(t)
    BY <2>1, <2>2, FieldOfTable, TableSizes
  <2>6. Len(result) = Len(SaveCheckTable(t))
    BY <2>3, <2>4, <2>5
  <2> QED
    BY <2>3, <2>5, <2>6
<1>3. ReloadsTheTable
  <2> SUFFICES ASSUME result = WholeTable
               PROVE  ~load.overread /\ load.checkTable = saving /\ load.checkTable = LoadCheckTable(result)
    BY DEF ReloadsTheTable
  <2>1. result = SaveCheckTable(saving) /\ TableOver(saving, Int)
    BY <1>1, TablesOver DEF WholeTable
  <2>2. ~load.overread
    BY <1>1, <2>1
  <2>3. Part(result, saving)
    <3>1. SaveCheckTable(saving) \in Seq(Int)
      BY <2>1, WholeLaid
    <3>2. Len(SaveCheckTable(saving)) \in 0..Len(SaveCheckTable(saving))
      BY <3>1
    <3> QED
      BY <2>1, <3>2, WholeIsPart
  <2>4. load.checkTable = saving
    BY <1>1, <2>1, <2>2, <2>3, AtTheEnd
  <2> QED
    BY <2>1, <2>2, <2>4, LoadInvertsSave
<1> QED
  BY <1>2, <1>3

LEMMA InvSaves == Parameters /\ IInv /\ [Next]_vars => CleanSaveStep
<1> SUFFICES ASSUME Parameters, IInv, [Next]_vars, pc = "reported", pc' = "closed",
                    writesize = Len(WholeTable), faults' = faults
             PROVE  file' = WholeTable
  BY DEF CleanSaveStep
<1>1. SaveTypes /\ SaveInv
  BY Types DEF IInv
<1>2. Close
  BY DEF Next, vars, OpenToSave, Write, SyncAndReport, OpenToLoad, ReadCount, ReadHead, ReadNode, ReadEntry,
         Loaded, Restart, Crash, PowerFailure, MayDie
<1>3. PICK n \in 0..Len(buffer) :
        /\ faults' = IF n < Len(buffer) THEN faults + 1 ELSE faults
        /\ file' = SubSeq(WholeTable, 1, writesize - Len(buffer) + n)
  BY <1>1, <1>2, CloseWrites
<1>4. faults \in Nat /\ Len(buffer) \in Nat /\ writesize \in Nat
  BY <1>1 DEF SaveTypes, SaveInv
<1>5. n = Len(buffer)
  BY <1>3, <1>4
<1>6. writesize - Len(buffer) + n = Len(WholeTable)
  BY <1>4, <1>5
<1>7. WholeTable = SubSeq(WholeTable, 1, Len(WholeTable))
  BY <1>1, WholeIsPart, TablesOver DEF WholeTable, SaveTypes
<1> QED
  BY <1>3, <1>6, <1>7

\* The programs that save and load a table keep the types of their variables, for all
\* tables, sizes of the buffer, contents of foreign memory and numbers of failures.
THEOREM TypeCorrect == Spec => []TypeOK
<1>0. Parameters
  BY StoreAssumption
<1>1. Init => IInv
  BY <1>0, InitHolds
<1>2. IInv /\ [Next]_vars => IInv'
  BY <1>0, NextHolds
<1>3. IInv => TypeOK
  BY DEF IInv
<1> QED
  BY <1>1, <1>2, <1>3, PTL DEF Spec

\* LoadCheckTable takes no beginning of a file for a table while it stays inside its memory,
\* and loads a whole file as the table that was saved, as the function LoadCheckTable says,
\* whichever programs were killed and whatever was lost before.
THEOREM TablesReload == Spec => []LoadsWholeTables
<1>0. Parameters
  BY StoreAssumption
<1>1. Init => IInv
  BY <1>0, InitHolds
<1>2. IInv /\ [Next]_vars => IInv'
  BY <1>0, NextHolds
<1>3. IInv => LoadsWholeTables
  BY <1>0, InvLoads
<1> QED
  BY <1>1, <1>2, <1>3, PTL DEF Spec

\* The destructor leaves the whole table when nothing fails, also over a torn file.
THEOREM CleanSaves == Spec => CleanSaveIsWhole
<1>0. Parameters
  BY StoreAssumption
<1>1. Init => IInv
  BY <1>0, InitHolds
<1>2. IInv /\ [Next]_vars => IInv'
  BY <1>0, NextHolds
<1>3. IInv /\ [Next]_vars => [CleanSaveStep]_vars
  BY <1>0, InvSaves
<1> QED
  BY <1>1, <1>2, <1>3, PTL DEF Spec, CleanSaveIsWhole
=============================================================================
