-------------------------- MODULE CsvDocumentProofs --------------------------
(***************************************************************************)
(* Proofs about CsvText and CsvDocument.                                   *)
(***************************************************************************)
EXTENDS CsvDocument, FoldFacts

----------------------------------------------------------------------------
(* Quotes: every one doubled, and every two of them one again *)

UnescapeStep(s, c) ==
  IF c = QuoteChar /\ s.half THEN [s EXCEPT !.half = FALSE]
                             ELSE [out |-> Append(s.out, c), half |-> c = QuoteChar]

Unescaping(C) == [out : Seq(C), half : BOOLEAN]
Nothing == [out |-> << >>, half |-> FALSE]

\* What Unescaped is left with after each of the characters.
Unescapings(C, cell) ==
  {f \in [0..Len(cell) -> Unescaping(C)] :
     f[0] = Nothing /\ \A n \in 1..Len(cell) : f[n] = UnescapeStep(f[n - 1], cell[n])}

LEMMA UnescapeStepType ==
  ASSUME NEW C, NEW s \in Unescaping(C), NEW c \in C
  PROVE  UnescapeStep(s, c) \in Unescaping(C)
<1>1. s.out \in Seq(C) /\ s.half \in BOOLEAN
  BY DEF Unescaping
<1>2. Append(s.out, c) \in Seq(C) /\ (c = QuoteChar) \in BOOLEAN
  BY <1>1
<1>3. [out |-> Append(s.out, c), half |-> c = QuoteChar] \in Unescaping(C)
  BY <1>2 DEF Unescaping
<1>4. [s EXCEPT !.half = FALSE] \in Unescaping(C)
  BY DEF Unescaping
<1> QED
  BY <1>3, <1>4 DEF UnescapeStep

LEMMA UnescapeUnfolds ==
  ASSUME NEW C, NEW cell \in Seq(C)
  PROVE  \E f \in Unescapings(C, cell) : Unescaped(cell) = f[Len(cell)].out
<1> DEFINE k == Len(cell)
           V == Unescaping(C)
           step == [i \in 1..k |-> [s \in V |-> UnescapeStep(s, cell[i])]]
           tab == CHOOSE g : g = [s \in SUBSET (DOMAIN cell) |->
                    IF s = {} THEN Nothing ELSE UnescapeStep(g[s \ {Max(s)}], cell[Max(s)])]
<1>1. k \in Nat /\ DOMAIN cell = 1..k /\ \A i \in 1..k : cell[i] \in C
  OBVIOUS
<1>2. Unescaped(cell) = tab[DOMAIN cell].out
  BY DEF Unescaped, FoldLeft, MapThenFoldSet, UnescapeStep, Nothing
<1>3. Nothing \in V
  BY DEF Nothing, Unescaping
<1>4. \A i \in 1..k : \A s \in V : UnescapeStep(s, cell[i]) \in V
  BY <1>1, UnescapeStepType
<1>5. step \in [1..k -> [V -> V]] /\ \A i \in 1..k : \A s \in V : step[i][s] = UnescapeStep(s, cell[i])
  BY <1>4
<1> HIDE DEF V, step
<1>6. PICK g \in LeftFolds(k, V, Nothing, step) : TRUE
  BY <1>1, <1>3, <1>5, LeftFoldExists
<1>7. /\ g \in [SUBSET (1..k) -> V] /\ g[{}] = Nothing
      /\ \A s \in SUBSET (1..k) : s # {} => g[s] = step[Max(s)][g[s \ {Max(s)}]]
  BY <1>6 DEF LeftFolds
<1> HIDE DEF k
<1>8. ASSUME NEW s \in SUBSET (1..k), s # {}
      PROVE  g[s] = UnescapeStep(g[s \ {Max(s)}], cell[Max(s)])
  <2>1. Max(s) \in 1..k /\ g[s \ {Max(s)}] \in V
    BY <1>1, <1>7, <1>8, MaxUpTo
  <2> QED
    BY <1>5, <1>7, <1>8, <2>1
<1>9. \A s \in SUBSET (1..k) : g[s] = IF s = {} THEN Nothing ELSE UnescapeStep(g[s \ {Max(s)}], cell[Max(s)])
  BY <1>7, <1>8
<1>10. g = [s \in SUBSET (DOMAIN cell) |->
              IF s = {} THEN Nothing ELSE UnescapeStep(g[s \ {Max(s)}], cell[Max(s)])]
  BY <1>1, <1>7, <1>9
<1>11. tab = [s \in SUBSET (DOMAIN cell) |->
              IF s = {} THEN Nothing ELSE UnescapeStep(tab[s \ {Max(s)}], cell[Max(s)])]
  BY <1>10
<1> HIDE DEF tab
<1>12. tab[{}] = Nothing
       /\ \A s \in SUBSET (1..k) : s # {} => tab[s] = UnescapeStep(tab[s \ {Max(s)}], cell[Max(s)])
  BY <1>1, <1>11
<1>13. \A s \in SUBSET (1..k) : s # {} /\ tab[s \ {Max(s)}] \in V =>
         tab[s] = step[Max(s)][tab[s \ {Max(s)}]]
  BY <1>5, <1>12, <1>1, MaxUpTo
<1> DEFINE f == [n \in 0..k |-> tab[1..n]]
<1>14. f \in Recursively(k, V, Nothing, step)
  BY <1>1, <1>3, <1>5, <1>12, <1>13, LeftFoldRuns
<1>15. f[k] = tab[1..k]
  BY <1>1
<1> HIDE DEF f
<1>16. /\ f \in [0..k -> V] /\ f[0] = Nothing
       /\ \A n \in 1..k : f[n] = step[n][f[n - 1]]
  BY <1>14 DEF Recursively
<1>17. ASSUME NEW n \in 1..k PROVE f[n] = UnescapeStep(f[n - 1], cell[n])
  <2>1. n - 1 \in 0..k
    BY <1>1
  <2>2. f[n - 1] \in V
    BY <1>16, <2>1
  <2> QED
    BY <1>5, <1>16, <2>2
<1>18. Unescaped(cell) = f[k].out
  BY <1>1, <1>2, <1>15
<1> QED
  BY <1>16, <1>17, <1>18 DEF Unescapings, k, V

LEMMA UnescapedType ==
  ASSUME NEW C, NEW cell \in Seq(C)
  PROVE  Unescaped(cell) \in Seq(C)
<1>1. PICK f \in Unescapings(C, cell) : Unescaped(cell) = f[Len(cell)].out
  BY UnescapeUnfolds
<1>2. Len(cell) \in 0..Len(cell)
  OBVIOUS
<1>3. f[Len(cell)] \in Unescaping(C)
  BY <1>1, <1>2 DEF Unescapings
<1> QED
  BY <1>1, <1>3 DEF Unescaping

\* Sequences of one and of two.
LEMMA OneAndTwo ==
  ASSUME NEW C, NEW a \in C, NEW b \in C
  PROVE  /\ <<a>> \in Seq(C) /\ Len(<<a>>) = 1 /\ <<a>>[1] = a
         /\ <<a, b>> \in Seq(C) /\ Len(<<a, b>>) = 2 /\ <<a, b>>[1] = a /\ <<a, b>>[2] = b
  OBVIOUS

\* A character that is not a quote is kept; so is a quote, and the next one is not.
LEMMA UnescapeStepIs ==
  ASSUME NEW s, NEW c
  PROVE  /\ c # QuoteChar => UnescapeStep([out |-> s, half |-> FALSE], c) = [out |-> Append(s, c), half |-> FALSE]
         /\ UnescapeStep([out |-> s, half |-> FALSE], QuoteChar) = [out |-> Append(s, QuoteChar), half |-> TRUE]
         /\ UnescapeStep([out |-> s, half |-> TRUE], QuoteChar) = [out |-> s, half |-> FALSE]
<1> DEFINE t == [out |-> s, half |-> FALSE]
           u == [out |-> s, half |-> TRUE]
<1>1. t.out = s /\ ~t.half /\ u.half /\ [u EXCEPT !.half = FALSE] = t
  <2>1. t.out = s
    OBVIOUS
  <2>2. ~t.half
    OBVIOUS
  <2>3. u.half
    OBVIOUS
  <2>4. ASSUME NEW k PROVE [u EXCEPT !.half = k] = [out |-> s, half |-> k]
    <3>1. DOMAIN [u EXCEPT !.half = k] = {"out", "half"}
      OBVIOUS
    <3>2. [u EXCEPT !.half = k].out = s /\ [u EXCEPT !.half = k].half = k
      OBVIOUS
    <3> QED
      BY <3>1, <3>2
  <2> QED
    BY <2>1, <2>2, <2>3, <2>4, Zenon
<1> HIDE DEF t, u
<1>2. \A x : UnescapeStep(t, x) = [out |-> Append(s, x), half |-> x = QuoteChar]
  BY <1>1, Zenon DEF UnescapeStep
<1>3. UnescapeStep(u, QuoteChar) = t
  BY <1>1, Zenon DEF UnescapeStep
<1>4. c # QuoteChar => (c = QuoteChar) = FALSE
  BY Zenon
<1>5. (QuoteChar = QuoteChar) = TRUE
  BY Zenon
<1> QED
  BY <1>2, <1>3, <1>4, <1>5, Zenon DEF t, u

\* What Escaped makes of each character.
Doubled(cell) ==
  [i \in DOMAIN cell |-> IF cell[i] = QuoteChar THEN <<QuoteChar, QuoteChar>> ELSE <<cell[i]>>]

LEMMA DoubledType ==
  ASSUME NEW C, NEW cell \in Seq(C)
  PROVE  /\ Doubled(cell) \in Seq(Seq(C)) /\ Len(Doubled(cell)) = Len(cell)
         /\ \A i \in 1..Len(cell) :
              /\ cell[i] = QuoteChar => /\ Len(Doubled(cell)[i]) = 2
                                        /\ Doubled(cell)[i][1] = QuoteChar
                                        /\ Doubled(cell)[i][2] = QuoteChar
              /\ cell[i] # QuoteChar => /\ Len(Doubled(cell)[i]) = 1
                                        /\ Doubled(cell)[i][1] = cell[i]
<1>1. Len(cell) \in Nat /\ DOMAIN cell = 1..Len(cell) /\ \A i \in 1..Len(cell) : cell[i] \in C
  OBVIOUS
<1>2. \A i \in 1..Len(cell) :
        Doubled(cell)[i] = IF cell[i] = QuoteChar THEN <<QuoteChar, QuoteChar>> ELSE <<cell[i]>>
  BY <1>1 DEF Doubled
<1>3. ASSUME NEW i \in 1..Len(cell) PROVE Doubled(cell)[i] \in Seq(C)
  <2>1. CASE cell[i] = QuoteChar
    <3>1. QuoteChar \in C /\ Doubled(cell)[i] = <<QuoteChar, QuoteChar>>
      BY <1>1, <1>2, <2>1, Zenon
    <3> QED
      BY <3>1, OneAndTwo
  <2>2. CASE cell[i] # QuoteChar
    <3>1. cell[i] \in C /\ Doubled(cell)[i] = <<cell[i]>>
      BY <1>1, <1>2, <2>2, Zenon
    <3> QED
      BY <3>1, OneAndTwo
  <2> QED
    BY <2>1, <2>2
<1>4. Doubled(cell) = [i \in 1..Len(cell) |-> Doubled(cell)[i]]
  BY <1>1 DEF Doubled
<1> DEFINE w == Doubled(cell)
           n == Len(cell)
           S == Seq(C)
<1>5. n \in Nat /\ w = [i \in 1..n |-> w[i]] /\ \A i \in 1..n : w[i] \in S
  BY <1>1, <1>3, <1>4
<1> HIDE DEF w, n, S
<1>6. w \in Seq(S) /\ Len(w) = n
  BY <1>5, FunctionIsSeq
<1>7. \A i \in 1..Len(cell) : cell[i] = QuoteChar =>
        Len(Doubled(cell)[i]) = 2 /\ Doubled(cell)[i][1] = QuoteChar /\ Doubled(cell)[i][2] = QuoteChar
  <2> SUFFICES ASSUME NEW i \in 1..Len(cell), cell[i] = QuoteChar
               PROVE  Len(Doubled(cell)[i]) = 2 /\ Doubled(cell)[i][1] = QuoteChar /\ Doubled(cell)[i][2] = QuoteChar
    OBVIOUS
  <2>1. QuoteChar \in C /\ Doubled(cell)[i] = <<QuoteChar, QuoteChar>>
    BY <1>1, <1>2, Zenon
  <2> QED
    BY <2>1, OneAndTwo
<1>8. \A i \in 1..Len(cell) : cell[i] # QuoteChar =>
        Len(Doubled(cell)[i]) = 1 /\ Doubled(cell)[i][1] = cell[i]
  <2> SUFFICES ASSUME NEW i \in 1..Len(cell), cell[i] # QuoteChar
               PROVE  Len(Doubled(cell)[i]) = 1 /\ Doubled(cell)[i][1] = cell[i]
    OBVIOUS
  <2>1. cell[i] \in C /\ Doubled(cell)[i] = <<cell[i]>>
    BY <1>1, <1>2, Zenon
  <2> QED
    BY <2>1, OneAndTwo
<1> QED
  BY <1>6, <1>7, <1>8 DEF w, n, S

LEMMA EscapedIs ==
  ASSUME NEW C, NEW cell \in Seq(C)
  PROVE  /\ Escaped(cell) \in Seq(C)
         /\ \E off \in Offsets(Doubled(cell)) : Laid(Escaped(cell), Doubled(cell), off)
<1>1. Escaped(cell) = FlattenSeq(Doubled(cell))
  BY DEF Escaped, Doubled
<1>2. Doubled(cell) \in Seq(Seq(C))
  BY DoubledType
<1> QED
  BY <1>1, <1>2, FlattenLayout

\* The first n elements of a sequence, one after the other.
LEMMA FrontBySteps ==
  ASSUME NEW S, NEW s \in Seq(S)
  PROVE  /\ SubSeq(s, 1, 0) = << >>
         /\ \A n \in 0..(Len(s) - 1) : SubSeq(s, 1, n + 1) = Append(SubSeq(s, 1, n), s[n + 1])
         /\ SubSeq(s, 1, Len(s)) = s
<1>1. SubSeq(s, 1, 0) = << >>
  OBVIOUS
<1>2. ASSUME NEW n \in 0..(Len(s) - 1)
      PROVE  SubSeq(s, 1, n + 1) = Append(SubSeq(s, 1, n), s[n + 1])
  <2>1. n \in Nat /\ n + 1 <= Len(s) /\ n + 1 \in Nat /\ Len(s) \in Nat
    OBVIOUS
  <2> DEFINE a == SubSeq(s, 1, n)
             b == SubSeq(s, 1, n + 1)
  <2>2. a \in Seq(S) /\ IsPiece(a, s, 1, n)
    BY <2>1, Piece
  <2> DEFINE m == n + 1
  <2>a. m \in Nat /\ m <= Len(s) /\ 1 <= m + 1
    BY <2>1
  <2> HIDE DEF m
  <2>b. SubSeq(s, 1, m) \in Seq(S) /\ IsPiece(SubSeq(s, 1, m), s, 1, m)
    BY <2>a, Piece
  <2>3. b \in Seq(S) /\ IsPiece(b, s, 1, n + 1)
    BY <2>b DEF m
  <2> HIDE DEF a, b
  <2>4. Len(a) = n /\ \A q \in 1..n : a[q] = s[q]
    BY <2>1, <2>2 DEF IsPiece
  <2>5. Len(b) = n + 1 /\ \A q \in 1..(n + 1) : b[q] = s[q]
    BY <2>1, <2>3 DEF IsPiece
  <2>6. b = Append(a, s[n + 1])
    BY <2>1, <2>2, <2>3, <2>4, <2>5
  <2> QED
    BY <2>6 DEF a, b
<1>3. SubSeq(s, 1, Len(s)) = s
  OBVIOUS
<1> QED
  BY <1>1, <1>2, <1>3

\* What Escaped doubles, Unescaped makes one again.
LEMMA UnescapesEscaped ==
  ASSUME NEW C, NEW cell \in Seq(C)
  PROVE  Unescaped(Escaped(cell)) = cell
<1> DEFINE e == Escaped(cell)
           w == Doubled(cell)
<1>1. e \in Seq(C) /\ w \in Seq(Seq(C)) /\ Len(w) = Len(cell) /\ Len(cell) \in Nat
  BY EscapedIs, DoubledType
<1>2. PICK off \in Offsets(w) : Laid(e, w, off)
  BY EscapedIs
<1>3. PICK f \in Unescapings(C, e) : Unescaped(e) = f[Len(e)].out
  BY <1>1, UnescapeUnfolds
<1> DEFINE T == {i \in 0..Len(cell) : f[off[i]] = [out |-> SubSeq(cell, 1, i), half |-> FALSE]}
<1>4. /\ off[0] = 0 /\ off[Len(cell)] = Len(e)
      /\ \A i \in 0..Len(cell) : off[i] \in Nat
      /\ \A i \in 1..Len(cell) : off[i] = off[i - 1] + Len(w[i]) /\ off[i] <= Len(e)
      /\ \A i \in 1..Len(cell) : \A q \in 1..Len(w[i]) : e[off[i - 1] + q] = w[i][q]
  BY <1>1, <1>2 DEF Offsets, Laid
<1>5. f[0] = Nothing /\ \A n \in 1..Len(e) : f[n] = UnescapeStep(f[n - 1], e[n])
  BY <1>3 DEF Unescapings
<1> HIDE DEF e, w
<1>6. 0 \in T
  <2>1. SubSeq(cell, 1, 0) = << >>
    BY FrontBySteps
  <2>2. f[off[0]] = [out |-> << >>, half |-> FALSE] /\ 0 \in 0..Len(cell)
    BY <1>1, <1>4, <1>5 DEF Nothing
  <2> QED
    BY <2>1, <2>2
<1>7. ASSUME NEW n \in 0..(Len(cell) - 1), n \in T PROVE n + 1 \in T
  <2>1. n + 1 \in 1..Len(cell) /\ n + 1 \in 0..Len(cell) /\ (n + 1) - 1 = n /\ n \in 0..Len(cell)
    BY <1>1
  <2> DEFINE s == SubSeq(cell, 1, n)
             c == cell[n + 1]
  <2>2. f[off[n]] = [out |-> s, half |-> FALSE] /\ SubSeq(cell, 1, n + 1) = Append(s, c)
    BY <1>7, FrontBySteps
  <2>3. off[n] \in Nat /\ off[n + 1] = off[n] + Len(w[n + 1]) /\ off[n + 1] <= Len(e) /\ Len(e) \in Nat
        /\ \A q \in 1..Len(w[n + 1]) : e[off[n] + q] = w[n + 1][q]
    <3> DEFINE i == n + 1
    <3>1. i \in 1..Len(cell) /\ i - 1 = n /\ n \in 0..Len(cell)
      BY <2>1
    <3> HIDE DEF i
    <3>2. off[i] = off[n] + Len(w[i]) /\ off[i] <= Len(e) /\ \A q \in 1..Len(w[i]) : e[off[n] + q] = w[i][q]
      BY <1>4, <3>1
    <3>3. off[n] \in Nat /\ Len(e) \in Nat
      BY <1>1, <1>4, <3>1
    <3> QED
      BY <3>2, <3>3 DEF i
  <2> HIDE DEF s, c, T
  <2>4. CASE c = QuoteChar
    <3>1. Len(w[n + 1]) = 2 /\ w[n + 1][1] = QuoteChar /\ w[n + 1][2] = QuoteChar
      BY <2>1, <2>4, DoubledType DEF c, w
    <3>2. 1 \in 1..2 /\ 2 \in 1..2
      OBVIOUS
    <3>3. off[n + 1] = off[n] + 2 /\ e[off[n] + 1] = QuoteChar /\ e[off[n] + 2] = QuoteChar
      BY <2>3, <3>1, <3>2
    <3>4. off[n] + 1 \in 1..Len(e) /\ off[n] + 2 \in 1..Len(e)
          /\ (off[n] + 1) - 1 = off[n] /\ (off[n] + 2) - 1 = off[n] + 1
      <4> DEFINE x == off[n]
                 y == off[n + 1]
                 l == Len(e)
      <4>1. x \in Nat /\ y = x + 2 /\ y <= l /\ l \in Nat
        BY <2>3, <3>3
      <4> HIDE DEF x, y, l
      <4>2. x + 1 \in 1..l /\ x + 2 \in 1..l /\ (x + 1) - 1 = x /\ (x + 2) - 1 = x + 1
        BY <4>1
      <4> QED
        BY <4>2 DEF x, l
    <3>5. f[off[n] + 1] = UnescapeStep(f[off[n]], QuoteChar)
          /\ f[off[n] + 2] = UnescapeStep(f[off[n] + 1], QuoteChar)
      BY <1>5, <3>3, <3>4
    <3>6. f[off[n] + 1] = [out |-> Append(s, QuoteChar), half |-> TRUE]
      BY <2>2, <3>5, UnescapeStepIs, Zenon
    <3>7. f[off[n] + 2] = [out |-> Append(s, QuoteChar), half |-> FALSE]
      BY <3>5, <3>6, UnescapeStepIs, Zenon
    <3> QED
      BY <2>1, <2>2, <2>4, <3>3, <3>7 DEF T
  <2>5. CASE c # QuoteChar
    <3>1. Len(w[n + 1]) = 1 /\ w[n + 1][1] = c
      BY <2>1, <2>5, DoubledType DEF c, w
    <3>3. off[n + 1] = off[n] + 1 /\ e[off[n] + 1] = c
      BY <2>3, <3>1
    <3>4. off[n] + 1 \in 1..Len(e) /\ (off[n] + 1) - 1 = off[n]
      BY <2>3, <3>3
    <3>5. f[off[n] + 1] = UnescapeStep(f[off[n]], c)
      BY <1>5, <3>3, <3>4
    <3>6. f[off[n] + 1] = [out |-> Append(s, c), half |-> FALSE]
      BY <2>2, <2>5, <3>5, UnescapeStepIs, Zenon
    <3> QED
      BY <2>1, <2>2, <3>3, <3>6 DEF T
  <2> QED
    BY <2>4, <2>5
<1> HIDE DEF T
<1>8. 0..Len(cell) \subseteq T
  BY <1>1, <1>6, <1>7, InductionUpTo
<1>9. f[Len(e)] = [out |-> SubSeq(cell, 1, Len(cell)), half |-> FALSE]
  <2>1. Len(cell) \in 0..Len(cell)
    BY <1>1
  <2> QED
    BY <1>4, <1>8, <2>1 DEF T
<1>10. Unescaped(e) = cell
  BY <1>3, <1>9, FrontBySteps
<1> QED
  BY <1>10 DEF e

----------------------------------------------------------------------------
(* What ParseCsv does with a character *)

St(d, r, cell, q, cr, lf) ==
  [data |-> d, row |-> r, cell |-> cell, quoted |-> q, cr |-> cr, lf |-> lf]

LEMMA StFields ==
  ASSUME NEW d, NEW r, NEW cell, NEW q, NEW cr, NEW lf
  PROVE  LET s == St(d, r, cell, q, cr, lf)
         IN  s.data = d /\ s.row = r /\ s.cell = cell /\ s.quoted = q /\ s.cr = cr /\ s.lf = lf
  BY DEF St

LEMMA StCell ==
  ASSUME NEW d, NEW r, NEW cell, NEW q, NEW cr, NEW lf, NEW x
  PROVE  [St(d, r, cell, q, cr, lf) EXCEPT !.cell = x] = St(d, r, x, q, cr, lf)
<1> DEFINE F == {"data", "row", "cell", "quoted", "cr", "lf"}
           t == [St(d, r, cell, q, cr, lf) EXCEPT !.cell = x]
<1>1. DOMAIN t = F /\ t = [f \in F |-> t[f]]
  BY DEF St
<1>2. t.data = d /\ t.row = r /\ t.cell = x /\ t.quoted = q /\ t.cr = cr /\ t.lf = lf
  BY DEF St
<1> HIDE DEF t
<1>3. t = St(d, r, x, q, cr, lf)
  BY <1>1, <1>2 DEF St
<1> QED
  BY <1>3 DEF t

LEMMA StQuoted ==
  ASSUME NEW d, NEW r, NEW cell, NEW q, NEW cr, NEW lf, NEW x
  PROVE  [St(d, r, cell, q, cr, lf) EXCEPT !.quoted = x] = St(d, r, cell, x, cr, lf)
<1> DEFINE F == {"data", "row", "cell", "quoted", "cr", "lf"}
           t == [St(d, r, cell, q, cr, lf) EXCEPT !.quoted = x]
<1>1. DOMAIN t = F /\ t = [f \in F |-> t[f]]
  BY DEF St
<1>2. t.data = d /\ t.row = r /\ t.cell = cell /\ t.quoted = x /\ t.cr = cr /\ t.lf = lf
  BY DEF St
<1> HIDE DEF t
<1>3. t = St(d, r, cell, x, cr, lf)
  BY <1>1, <1>2 DEF St
<1> QED
  BY <1>3 DEF t

LEMMA StCr ==
  ASSUME NEW d, NEW r, NEW cell, NEW q, NEW cr, NEW lf, NEW x
  PROVE  [St(d, r, cell, q, cr, lf) EXCEPT !.cr = x] = St(d, r, cell, q, x, lf)
<1> DEFINE F == {"data", "row", "cell", "quoted", "cr", "lf"}
           t == [St(d, r, cell, q, cr, lf) EXCEPT !.cr = x]
<1>1. DOMAIN t = F /\ t = [f \in F |-> t[f]]
  BY DEF St
<1>2. t.data = d /\ t.row = r /\ t.cell = cell /\ t.quoted = q /\ t.cr = x /\ t.lf = lf
  BY DEF St
<1> HIDE DEF t
<1>3. t = St(d, r, cell, q, x, lf)
  BY <1>1, <1>2 DEF St
<1> QED
  BY <1>3 DEF t

LEMMA StLf ==
  ASSUME NEW d, NEW r, NEW cell, NEW q, NEW cr, NEW lf, NEW x
  PROVE  [St(d, r, cell, q, cr, lf) EXCEPT !.lf = x] = St(d, r, cell, q, cr, x)
<1> DEFINE F == {"data", "row", "cell", "quoted", "cr", "lf"}
           t == [St(d, r, cell, q, cr, lf) EXCEPT !.lf = x]
<1>1. DOMAIN t = F /\ t = [f \in F |-> t[f]]
  BY DEF St
<1>2. t.data = d /\ t.row = r /\ t.cell = cell /\ t.quoted = q /\ t.cr = cr /\ t.lf = x
  BY DEF St
<1> HIDE DEF t
<1>3. t = St(d, r, cell, q, cr, x)
  BY <1>1, <1>2 DEF St
<1> QED
  BY <1>3 DEF t

\* The row that ends with the cell.
RowWith(p, r, cell) == Append(r, Unquote(p, Trim(p, cell)))

IsComment(p, row) == p.skipComments /\ row[1] # << >> /\ row[1][1] = Comment

LEMMA EndCellIs ==
  ASSUME NEW p, NEW d, NEW r, NEW cell, NEW q, NEW cr, NEW lf
  PROVE  EndCell(p, St(d, r, cell, q, cr, lf)) = St(d, RowWith(p, r, cell), << >>, q, cr, lf)
<1> DEFINE F == {"data", "row", "cell", "quoted", "cr", "lf"}
           s == St(d, r, cell, q, cr, lf)
           t == EndCell(p, s)
<1>1. s.row = r /\ s.cell = cell
  BY DEF St
<1>2. DOMAIN t = F /\ t = [f \in F |-> t[f]]
  BY DEF St, EndCell
<1>3. t.data = d /\ t.row = Append(s.row, Unquote(p, Trim(p, s.cell))) /\ t.cell = << >>
      /\ t.quoted = q /\ t.cr = cr /\ t.lf = lf
  BY DEF St, EndCell
<1> HIDE DEF s, t
<1>4. t.row = RowWith(p, r, cell)
  BY <1>1, <1>3 DEF RowWith
<1>5. t = St(d, RowWith(p, r, cell), << >>, q, cr, lf)
  BY <1>2, <1>3, <1>4 DEF St
<1> QED
  BY <1>5 DEF s, t

\* Character, one case after the other.
CharacterDoes(p, d, r, cell, q, cr, lf, c) ==
  LET after == Character(p, St(d, r, cell, q, cr, lf), c)
      breaks == ~(p.quotedLinebreaks /\ q)
  IN  /\ c = QuoteChar =>
           after = St(d, r, Append(cell, c), IF cell = << >> \/ cell[1] = QuoteChar THEN ~q ELSE q, cr, lf)
      /\ c = Separator /\ ~q => after = St(d, RowWith(p, r, cell), << >>, q, cr, lf)
      /\ c = "\r" /\ breaks => after = St(d, r, cell, q, cr + 1, lf)
      /\ c = "\n" /\ breaks => after = EndLine(p, St(d, r, cell, q, cr, lf))
      /\ (c # QuoteChar /\ (c = Separator => q) /\ (c = "\r" => ~breaks) /\ (c = "\n" => ~breaks)) =>
           after = St(d, r, Append(cell, c), q, cr, lf)

LEMMA CharacterIs ==
  ASSUME NEW p, NEW d, NEW r, NEW cell, NEW q, NEW cr, NEW lf, NEW c
  PROVE  CharacterDoes(p, d, r, cell, q, cr, lf, c)
<1> DEFINE s == St(d, r, cell, q, cr, lf)
           breaks == ~(p.quotedLinebreaks /\ q)
           kept == St(d, r, Append(cell, c), q, cr, lf)
<1>1. /\ s.data = d /\ s.row = r /\ s.cell = cell /\ s.quoted = q /\ s.cr = cr /\ s.lf = lf
      /\ kept.quoted = q
  BY DEF St
<1>2. [s EXCEPT !.cell = Append(s.cell, c)] = kept
  <2>0. ASSUME NEW x PROVE [s EXCEPT !.cell = x] = St(d, r, x, q, cr, lf)
    BY StCell
  <2>1. [s EXCEPT !.cell = Append(cell, c)] = kept
    BY <2>0, Zenon
  <2> QED
    BY <1>1, <2>1, Zenon
<1>3. ASSUME NEW x PROVE [kept EXCEPT !.quoted = x] = St(d, r, Append(cell, c), x, cr, lf)
  BY StQuoted
<1>4. QuoteChar # Separator /\ QuoteChar # "\r" /\ QuoteChar # "\n" /\ Separator # "\r"
      /\ Separator # "\n" /\ "\r" # "\n"
  BY DEF QuoteChar, Separator
<1>5. [s EXCEPT !.cr = s.cr + 1] = St(d, r, cell, q, cr + 1, lf)
  <2>1. [s EXCEPT !.cr = cr + 1] = St(d, r, cell, q, cr + 1, lf)
    BY StCr
  <2> QED
    BY <1>1, <2>1, Zenon
<1>6. EndCell(p, s) = St(d, RowWith(p, r, cell), << >>, q, cr, lf)
  BY EndCellIs
<1> HIDE DEF s, kept
<1>7. Character(p, s, c) =
       CASE c = QuoteChar            -> [kept EXCEPT !.quoted =
                                          IF cell = << >> \/ cell[1] = QuoteChar THEN ~q ELSE q]
         [] c = Separator /\ ~q      -> EndCell(p, s)
         [] c = "\r" /\ breaks       -> [s EXCEPT !.cr = @ + 1]
         [] c = "\n" /\ breaks       -> EndLine(p, s)
         [] OTHER                    -> kept
  BY <1>1, <1>2 DEF Character
<1>8. c = QuoteChar => Character(p, s, c) = [kept EXCEPT !.quoted =
                                          IF cell = << >> \/ cell[1] = QuoteChar THEN ~q ELSE q]
  BY <1>4, <1>7
<1>9. c = Separator /\ ~q => Character(p, s, c) = EndCell(p, s)
  BY <1>4, <1>7
<1>10. c = "\r" /\ breaks => Character(p, s, c) = [s EXCEPT !.cr = @ + 1]
  BY <1>4, <1>7
<1>11. c = "\n" /\ breaks => Character(p, s, c) = EndLine(p, s)
  BY <1>4, <1>7
<1>12. c # QuoteChar /\ (c = Separator => q) /\ (c = "\r" => ~breaks) /\ (c = "\n" => ~breaks) =>
         Character(p, s, c) = kept
  BY <1>4, <1>7
<1>13. [kept EXCEPT !.quoted = IF cell = << >> \/ cell[1] = QuoteChar THEN ~q ELSE q]
        = St(d, r, Append(cell, c), IF cell = << >> \/ cell[1] = QuoteChar THEN ~q ELSE q, cr, lf)
  BY <1>3, Zenon
<1> QED
  BY <1>5, <1>6, <1>8, <1>9, <1>10, <1>11, <1>12, <1>13, Zenon DEF s, kept, CharacterDoes

EndLineDoes(p, d, r, cell, q, cr, lf) ==
  EndLine(p, St(d, r, cell, q, cr, lf)) =
    IF p.skipEmpty /\ r = << >> /\ cell = << >> THEN St(d, r, cell, q, cr, lf + 1)
    ELSE St(IF IsComment(p, RowWith(p, r, cell)) THEN d ELSE Append(d, RowWith(p, r, cell)),
            << >>, << >>, FALSE, cr, lf + 1)

LEMMA EndLineIs ==
  ASSUME NEW p, NEW d, NEW r, NEW cell, NEW q, NEW cr, NEW lf
  PROVE  EndLineDoes(p, d, r, cell, q, cr, lf)
<1> DEFINE s == St(d, r, cell, q, cr, lf)
           row == RowWith(p, r, cell)
<1>1. s.data = d /\ s.row = r /\ s.cell = cell /\ s.cr = cr /\ s.lf = lf
  BY StFields
<1>2. EndCell(p, s).row = row
  <2>1. EndCell(p, s) = St(d, row, << >>, q, cr, lf)
    BY EndCellIs
  <2> QED
    BY <2>1 DEF St
<1>3. [s EXCEPT !.lf = s.lf + 1] = St(d, r, cell, q, cr, lf + 1)
  <2>0. ASSUME NEW x PROVE [s EXCEPT !.lf = x] = St(d, r, cell, q, cr, x)
    BY StLf
  <2> QED
    BY <1>1, <2>0, Zenon
<1> HIDE DEF s, row
<1> QED
  BY <1>1, <1>2, <1>3, Zenon DEF EndLine, IsComment, St, s, row, EndLineDoes

----------------------------------------------------------------------------
(* What it can be reading, and that it comes to an end *)

ParseStates(C) ==
  [data : Seq(Seq(Seq(C))), row : Seq(Seq(C)), cell : Seq(C), quoted : BOOLEAN, cr : Nat, lf : Nat]

IsParams(p) ==
  /\ p.trim \in BOOLEAN /\ p.autoQuote \in BOOLEAN /\ p.quotedLinebreaks \in BOOLEAN
  /\ p.skipComments \in BOOLEAN /\ p.skipEmpty \in BOOLEAN

LEMMA StType ==
  ASSUME NEW C, NEW d \in Seq(Seq(Seq(C))), NEW r \in Seq(Seq(C)), NEW cell \in Seq(C),
         NEW q \in BOOLEAN, NEW cr \in Nat, NEW lf \in Nat
  PROVE  St(d, r, cell, q, cr, lf) \in ParseStates(C)
  BY DEF St, ParseStates

LEMMA StOfParts ==
  ASSUME NEW C, NEW s \in ParseStates(C)
  PROVE  /\ s = St(s.data, s.row, s.cell, s.quoted, s.cr, s.lf)
         /\ s.data \in Seq(Seq(Seq(C))) /\ s.row \in Seq(Seq(C)) /\ s.cell \in Seq(C)
         /\ s.quoted \in BOOLEAN /\ s.cr \in Nat /\ s.lf \in Nat
<1>1. /\ s.data \in Seq(Seq(Seq(C))) /\ s.row \in Seq(Seq(C)) /\ s.cell \in Seq(C)
      /\ s.quoted \in BOOLEAN /\ s.cr \in Nat /\ s.lf \in Nat
  BY DEF ParseStates
<1>2. s = St(s.data, s.row, s.cell, s.quoted, s.cr, s.lf)
  BY DEF ParseStates, St
<1> QED
  BY <1>1, <1>2

LEMMA LeastOf ==
  ASSUME NEW T \in SUBSET Nat, T # {}
  PROVE  Min(T) \in T /\ \A y \in T : Min(T) <= y
<1>1. \E x \in T : \A y \in T : x <= y
  BY LeastElement
<1> QED
  BY <1>1 DEF Min

\* Trim leaves what is between the first and the last that is not a space.
LEMMA TrimIs ==
  ASSUME NEW C, NEW cell \in Seq(C), NEW p, p.trim \in BOOLEAN
  PROVE  /\ Trim(p, cell) \in Seq(C)
         /\ Trim(p, << >>) = << >>
         /\ (p.trim => cell # << >> /\ cell[1] \notin Space /\ cell[Len(cell)] \notin Space) =>
              Trim(p, cell) = cell
<1> DEFINE kept == {i \in DOMAIN cell : cell[i] \notin Space}
<1>1. Len(cell) \in Nat /\ DOMAIN cell = 1..Len(cell) /\ kept \in SUBSET (1..Len(cell))
  OBVIOUS
<1>2. Trim(p, cell) = IF ~p.trim THEN cell ELSE IF kept = {} THEN << >> ELSE SubSeq(cell, Min(kept), Max(kept))
  BY DEF Trim
<1>a. \A i \in 1..Len(cell) : cell[i] \notin Space => i \in kept
  BY <1>1
<1> HIDE DEF kept
<1>3. ASSUME kept # {} PROVE Min(kept) \in kept /\ Max(kept) \in kept /\ \A y \in kept : Min(kept) <= y /\ y <= Max(kept)
  <2>1. kept \in SUBSET Nat
    BY <1>1
  <2> QED
    BY <1>1, <1>3, <2>1, LeastOf, MaxUpTo
<1>4. Trim(p, cell) \in Seq(C)
  <2>1. ASSUME kept # {} PROVE SubSeq(cell, Min(kept), Max(kept)) \in Seq(C)
    <3> DEFINE m == Min(kept)
               n == Max(kept)
    <3>0. m \in 1..Len(cell) /\ n \in 1..Len(cell) /\ m <= n
      <4>1. m \in kept /\ n \in kept /\ \A y \in kept : m <= y
        BY <1>3, <2>1
      <4> QED
        BY <1>1, <4>1
    <3>1. m \in Nat \ {0} /\ n \in Nat /\ n <= Len(cell) /\ m <= n + 1
      BY <1>1, <3>0
    <3> HIDE DEF m, n
    <3>2. SubSeq(cell, m, n) \in Seq(C)
      BY <3>1, Piece
    <3> QED
      BY <3>2 DEF m, n
  <2>2. << >> \in Seq(C)
    OBVIOUS
  <2> QED
    BY <1>2, <2>1, <2>2
<1>5. Trim(p, << >>) = << >>
  BY DEF Trim
<1>6. ASSUME p.trim, cell # << >>, cell[1] \notin Space, cell[Len(cell)] \notin Space
      PROVE  Trim(p, cell) = cell
  <2>1. 1 \in kept /\ Len(cell) \in kept
    BY <1>1, <1>a, <1>6
  <2>2. Min(kept) = 1 /\ Max(kept) = Len(cell)
    <3>1. Min(kept) \in 1..Len(cell) /\ Max(kept) \in 1..Len(cell) /\ Min(kept) <= 1 /\ Len(cell) <= Max(kept)
      BY <1>1, <1>3, <2>1
    <3> QED
      BY <1>1, <3>1
  <2>3. SubSeq(cell, 1, Len(cell)) = cell
    OBVIOUS
  <2> QED
    BY <1>2, <1>6, <2>1, <2>2, <2>3
<1>7. ~p.trim => Trim(p, cell) = cell
  BY <1>2
<1> QED
  BY <1>4, <1>5, <1>6, <1>7

LEMMA UnquoteType ==
  ASSUME NEW C, NEW cell \in Seq(C), NEW p
  PROVE  Unquote(p, cell) \in Seq(C)
<1>1. ASSUME Len(cell) >= 2 PROVE Unescaped(SubSeq(cell, 2, Len(cell) - 1)) \in Seq(C)
  <2> DEFINE n == Len(cell) - 1
  <2>1. n \in Nat /\ n <= Len(cell) /\ 2 <= n + 1
    BY <1>1
  <2> HIDE DEF n
  <2>2. SubSeq(cell, 2, n) \in Seq(C)
    BY <2>1, Piece
  <2>3. Unescaped(SubSeq(cell, 2, n)) \in Seq(C)
    BY <2>2, UnescapedType
  <2> QED
    BY <2>3 DEF n
<1> QED
  BY <1>1 DEF Unquote

LEMMA RowWithType ==
  ASSUME NEW C, NEW p, IsParams(p), NEW r \in Seq(Seq(C)), NEW cell \in Seq(C)
  PROVE  RowWith(p, r, cell) \in Seq(Seq(C))
<1>1. Trim(p, cell) \in Seq(C)
  BY TrimIs DEF IsParams
<1> DEFINE t == Trim(p, cell)
<1> HIDE DEF t
<1>2. Unquote(p, t) \in Seq(C)
  BY <1>1, UnquoteType DEF t
<1>3. Append(r, Unquote(p, t)) \in Seq(Seq(C))
  BY <1>2
<1> QED
  BY <1>3 DEF RowWith, t

LEMMA EndLineType ==
  ASSUME NEW C, NEW p, IsParams(p), NEW d \in Seq(Seq(Seq(C))), NEW r \in Seq(Seq(C)),
         NEW cell \in Seq(C), NEW q \in BOOLEAN, NEW cr \in Nat, NEW lf \in Nat
  PROVE  EndLine(p, St(d, r, cell, q, cr, lf)) \in ParseStates(C)
<1> DEFINE row == RowWith(p, r, cell)
           e == IF IsComment(p, row) THEN d ELSE Append(d, row)
<1>1. row \in Seq(Seq(C))
  BY RowWithType
<1>2. e \in Seq(Seq(Seq(C))) /\ lf + 1 \in Nat /\ << >> \in Seq(Seq(C)) /\ << >> \in Seq(C)
  BY <1>1
<1>3. EndLine(p, St(d, r, cell, q, cr, lf)) =
        IF p.skipEmpty /\ r = << >> /\ cell = << >> THEN St(d, r, cell, q, cr, lf + 1)
        ELSE St(e, << >>, << >>, FALSE, cr, lf + 1)
  <2>1. EndLineDoes(p, d, r, cell, q, cr, lf)
    BY EndLineIs
  <2> QED
    BY <2>1, Zenon DEF EndLineDoes
<1>4. St(d, r, cell, q, cr, lf + 1) \in ParseStates(C)
  BY <1>2, StType
<1> HIDE DEF e
<1>5. St(e, << >>, << >>, FALSE, cr, lf + 1) \in ParseStates(C)
  <2>1. FALSE \in BOOLEAN
    OBVIOUS
  <2> DEFINE b == FALSE
  <2>2. b \in BOOLEAN
    OBVIOUS
  <2> HIDE DEF b
  <2>3. St(e, << >>, << >>, b, cr, lf + 1) \in ParseStates(C)
    BY <1>2, <2>2, StType
  <2> QED
    BY <2>3, Zenon DEF b
<1> QED
  BY <1>3, <1>4, <1>5, Zenon

LEMMA CharacterType ==
  ASSUME NEW C, NEW p, IsParams(p), NEW s \in ParseStates(C), NEW c \in C
  PROVE  Character(p, s, c) \in ParseStates(C)
<1> DEFINE d == s.data
           r == s.row
           cell == s.cell
           q == s.quoted
           cr == s.cr
           lf == s.lf
           breaks == ~(p.quotedLinebreaks /\ q)
<1>1. /\ s = St(d, r, cell, q, cr, lf)
      /\ d \in Seq(Seq(Seq(C))) /\ r \in Seq(Seq(C)) /\ cell \in Seq(C)
      /\ q \in BOOLEAN /\ cr \in Nat /\ lf \in Nat
  BY StOfParts
<1> HIDE DEF d, r, cell, q, cr, lf
<1>a. CharacterDoes(p, d, r, cell, q, cr, lf, c)
  BY CharacterIs
<1>2. Append(cell, c) \in Seq(C) /\ cr + 1 \in Nat /\ << >> \in Seq(C)
  BY <1>1
<1>3. CASE c = QuoteChar
  <2> DEFINE t == IF cell = << >> \/ cell[1] = QuoteChar THEN ~q ELSE q
  <2>1. t \in BOOLEAN
    BY <1>1, Zenon
  <2>2. Character(p, s, c) = St(d, r, Append(cell, c), t, cr, lf)
    BY <1>1, <1>3, <1>a, Zenon DEF CharacterDoes
  <2> HIDE DEF t
  <2>3. St(d, r, Append(cell, c), t, cr, lf) \in ParseStates(C)
    BY <1>1, <1>2, <2>1, StType
  <2> QED
    BY <2>2, <2>3, Zenon
<1>4. CASE c = Separator /\ ~q
  <2>1. Character(p, s, c) = St(d, RowWith(p, r, cell), << >>, q, cr, lf)
    BY <1>1, <1>4, <1>a, Zenon DEF CharacterDoes
  <2> DEFINE row == RowWith(p, r, cell)
  <2>2. row \in Seq(Seq(C))
    BY <1>1, RowWithType
  <2> HIDE DEF row
  <2>3. St(d, row, << >>, q, cr, lf) \in ParseStates(C)
    BY <1>1, <1>2, <2>2, StType
  <2> QED
    BY <2>1, <2>3, Zenon DEF row
<1>5. CASE c = "\r" /\ breaks
  <2>1. Character(p, s, c) = St(d, r, cell, q, cr + 1, lf)
    BY <1>1, <1>5, <1>a, Zenon DEF CharacterDoes
  <2>2. St(d, r, cell, q, cr + 1, lf) \in ParseStates(C)
    BY <1>1, <1>2, StType
  <2> QED
    BY <2>1, <2>2, Zenon
<1>6. CASE c = "\n" /\ breaks
  <2>1. Character(p, s, c) = EndLine(p, St(d, r, cell, q, cr, lf))
    BY <1>1, <1>6, <1>a, Zenon DEF CharacterDoes
  <2>2. EndLine(p, St(d, r, cell, q, cr, lf)) \in ParseStates(C)
    BY <1>1, EndLineType
  <2> QED
    BY <2>1, <2>2, Zenon
<1>7. CASE c # QuoteChar /\ (c = Separator => q) /\ (c = "\r" => ~breaks) /\ (c = "\n" => ~breaks)
  <2>1. Character(p, s, c) = St(d, r, Append(cell, c), q, cr, lf)
    BY <1>1, <1>7, <1>a, Zenon DEF CharacterDoes
  <2>2. St(d, r, Append(cell, c), q, cr, lf) \in ParseStates(C)
    BY <1>1, <1>2, StType
  <2> QED
    BY <2>1, <2>2, Zenon
<1> QED
  BY <1>3, <1>4, <1>5, <1>6, <1>7, Zenon

\* What ParseCsv has read after each of the characters.
Parsings(p, C, text) ==
  {f \in [0..Len(text) -> ParseStates(C)] :
     f[0] = NoRows /\ \A n \in 1..Len(text) : f[n] = Character(p, f[n - 1], text[n])}

RowsOf(p, s) == IF s.cell # << >> \/ s.row # << >> THEN Append(s.data, EndCell(p, s).row) ELSE s.data

LEMMA ParseUnfolds ==
  ASSUME NEW C, NEW p, IsParams(p), NEW text \in Seq(C)
  PROVE  \E f \in Parsings(p, C, text) :
           LET s == f[Len(text)]
           IN  ParseCsv(p, text) = [data |-> RowsOf(p, s), hasCR |-> s.cr > s.lf \div 2]
<1> DEFINE k == Len(text)
           V == ParseStates(C)
           step == [i \in 1..k |-> [s \in V |-> Character(p, s, text[i])]]
           tab == CHOOSE g : g = [s \in SUBSET (DOMAIN text) |->
                    IF s = {} THEN NoRows ELSE Character(p, g[s \ {Max(s)}], text[Max(s)])]
<1>1. k \in Nat /\ DOMAIN text = 1..k /\ \A i \in 1..k : text[i] \in C
  OBVIOUS
<1>2. ParseCsv(p, text) = [data  |-> RowsOf(p, tab[DOMAIN text]),
                           hasCR |-> tab[DOMAIN text].cr > tab[DOMAIN text].lf \div 2]
  BY DEF ParseCsv, FoldLeft, MapThenFoldSet, RowsOf
<1>3. NoRows \in V
  BY DEF NoRows, ParseStates
<1>4. \A i \in 1..k : \A s \in V : Character(p, s, text[i]) \in V
  BY <1>1, CharacterType
<1>5. step \in [1..k -> [V -> V]] /\ \A i \in 1..k : \A s \in V : step[i][s] = Character(p, s, text[i])
  BY <1>4
<1> HIDE DEF V, step
<1>6. PICK g \in LeftFolds(k, V, NoRows, step) : TRUE
  BY <1>1, <1>3, <1>5, LeftFoldExists
<1>7. /\ g \in [SUBSET (1..k) -> V] /\ g[{}] = NoRows
      /\ \A s \in SUBSET (1..k) : s # {} => g[s] = step[Max(s)][g[s \ {Max(s)}]]
  BY <1>6 DEF LeftFolds
<1> HIDE DEF k
<1>8. ASSUME NEW s \in SUBSET (1..k), s # {}
      PROVE  g[s] = Character(p, g[s \ {Max(s)}], text[Max(s)])
  <2>1. Max(s) \in 1..k /\ g[s \ {Max(s)}] \in V
    BY <1>1, <1>7, <1>8, MaxUpTo
  <2> QED
    BY <1>5, <1>7, <1>8, <2>1
<1>9. \A s \in SUBSET (1..k) : g[s] = IF s = {} THEN NoRows ELSE Character(p, g[s \ {Max(s)}], text[Max(s)])
  BY <1>7, <1>8
<1>10. g = [s \in SUBSET (DOMAIN text) |->
              IF s = {} THEN NoRows ELSE Character(p, g[s \ {Max(s)}], text[Max(s)])]
  BY <1>1, <1>7, <1>9
<1>11. tab = [s \in SUBSET (DOMAIN text) |->
              IF s = {} THEN NoRows ELSE Character(p, tab[s \ {Max(s)}], text[Max(s)])]
  BY <1>10
<1> HIDE DEF tab
<1>12. tab[{}] = NoRows
       /\ \A s \in SUBSET (1..k) : s # {} => tab[s] = Character(p, tab[s \ {Max(s)}], text[Max(s)])
  BY <1>1, <1>11
<1>13. \A s \in SUBSET (1..k) : s # {} /\ tab[s \ {Max(s)}] \in V =>
         tab[s] = step[Max(s)][tab[s \ {Max(s)}]]
  BY <1>5, <1>12, <1>1, MaxUpTo
<1> DEFINE f == [n \in 0..k |-> tab[1..n]]
<1>14. f \in Recursively(k, V, NoRows, step)
  BY <1>1, <1>3, <1>5, <1>12, <1>13, LeftFoldRuns
<1>15. f[k] = tab[1..k]
  BY <1>1
<1> HIDE DEF f
<1>16. /\ f \in [0..k -> V] /\ f[0] = NoRows
       /\ \A n \in 1..k : f[n] = step[n][f[n - 1]]
  BY <1>14 DEF Recursively
<1>17. ASSUME NEW n \in 1..k PROVE f[n] = Character(p, f[n - 1], text[n])
  <2>1. n - 1 \in 0..k
    BY <1>1
  <2>2. f[n - 1] \in V
    BY <1>16, <2>1
  <2> QED
    BY <1>5, <1>16, <2>2
<1>18. tab[DOMAIN text] = f[k]
  BY <1>1, <1>15
<1>19. f \in Parsings(p, C, text)
  BY <1>16, <1>17 DEF Parsings, k, V
<1>20. ParseCsv(p, text) = [data |-> RowsOf(p, f[k]), hasCR |-> f[k].cr > f[k].lf \div 2]
  BY <1>2, <1>18, Zenon
<1> QED
  BY <1>19, <1>20 DEF k

LEMMA ReadType ==
  ASSUME NEW C, NEW p, IsParams(p), NEW text \in Seq(C)
  PROVE  LET read == ReadCsv(p, text)
         IN  read.data \in Seq(Seq(Seq(C))) /\ read.hasCR \in BOOLEAN /\ read.hasBOM \in BOOLEAN
<1>1. ASSUME NEW t \in Seq(C)
      PROVE  ParseCsv(p, t).data \in Seq(Seq(Seq(C))) /\ ParseCsv(p, t).hasCR \in BOOLEAN
  <2>1. PICK f \in Parsings(p, C, t) :
          LET s == f[Len(t)]
          IN  ParseCsv(p, t) = [data |-> RowsOf(p, s), hasCR |-> s.cr > s.lf \div 2]
    BY ParseUnfolds
  <2> DEFINE s == f[Len(t)]
  <2>2. s \in ParseStates(C)
    <3>1. Len(t) \in 0..Len(t)
      OBVIOUS
    <3> QED
      BY <3>1 DEF Parsings
  <2>3. ParseCsv(p, t).data = RowsOf(p, s) /\ ParseCsv(p, t).hasCR \in BOOLEAN
    BY <2>1
  <2> HIDE DEF s
  <2>4. /\ s = St(s.data, s.row, s.cell, s.quoted, s.cr, s.lf)
        /\ s.data \in Seq(Seq(Seq(C))) /\ s.row \in Seq(Seq(C)) /\ s.cell \in Seq(C)
    BY <2>2, StOfParts
  <2> DEFINE row == RowWith(p, s.row, s.cell)
  <2>5. EndCell(p, s).row = row
    <3>1. EndCell(p, St(s.data, s.row, s.cell, s.quoted, s.cr, s.lf)) = St(s.data, row, << >>, s.quoted, s.cr, s.lf)
      BY EndCellIs
    <3>2. EndCell(p, s) = St(s.data, row, << >>, s.quoted, s.cr, s.lf)
      BY <2>4, <3>1, Zenon
    <3> QED
      BY <3>2 DEF St
  <2>6. row \in Seq(Seq(C))
    BY <2>4, RowWithType
  <2> HIDE DEF row
  <2>7. Append(s.data, row) \in Seq(Seq(Seq(C)))
    BY <2>4, <2>6
  <2> QED
    BY <2>3, <2>4, <2>5, <2>7 DEF RowsOf
<1> DEFINE marked == text # << >> /\ text[1] = BOM
           t == IF marked THEN Tail(text) ELSE text
<1>2. t \in Seq(C)
  OBVIOUS
<1>3. marked \in BOOLEAN
  OBVIOUS
<1>4. ReadCsv(p, text) = [data |-> ParseCsv(p, t).data, hasCR |-> ParseCsv(p, t).hasCR, hasBOM |-> marked]
  BY DEF ReadCsv
<1> HIDE DEF t, marked
<1> QED
  BY <1>1, <1>2, <1>3, <1>4

----------------------------------------------------------------------------
(* What is written *)

NeedsQuotes(p, cell) == p.autoQuote /\ {Separator, " "} \cap Range(cell) # {}

Marks == {Separator, QuoteChar, "\r", "\n", BOM}

LEMMA QuotedType ==
  ASSUME NEW C, Marks \subseteq C, NEW p, NEW cell \in Seq(C)
  PROVE  Quoted(p, cell) \in Seq(C)
<1>1. QuoteChar \in C /\ <<QuoteChar>> \in Seq(C)
  BY OneAndTwo DEF Marks
<1>2. Escaped(cell) \in Seq(C)
  BY EscapedIs
<1> DEFINE e == Escaped(cell)
           o == <<QuoteChar>>
<1>3. e \in Seq(C) /\ o \in Seq(C)
  BY <1>1, <1>2
<1> HIDE DEF e, o
<1>4. o \o e \o o \in Seq(C)
  BY <1>3
<1> QED
  BY <1>4 DEF Quoted, e, o

\* What WriteRow makes of each cell, and what it ends a line with.
CellText(p, row, i) == Quoted(p, row[i]) \o (IF i < Len(row) THEN <<Separator>> ELSE << >>)
CellTexts(p, row)   == [i \in DOMAIN row |-> CellText(p, row, i)]
LineEnd(hasCR)      == IF hasCR THEN <<"\r", "\n">> ELSE <<"\n">>

LEMMA CellTextsType ==
  ASSUME NEW C, Marks \subseteq C, NEW p, NEW row \in Seq(Seq(C))
  PROVE  /\ CellTexts(p, row) \in Seq(Seq(C)) /\ Len(CellTexts(p, row)) = Len(row)
         /\ \A i \in 1..Len(row) : CellTexts(p, row)[i] = CellText(p, row, i)
<1>1. Len(row) \in Nat /\ DOMAIN row = 1..Len(row) /\ \A i \in 1..Len(row) : row[i] \in Seq(C)
  OBVIOUS
<1>2. ASSUME NEW i \in 1..Len(row) PROVE CellText(p, row, i) \in Seq(C)
  <2> DEFINE a == Quoted(p, row[i])
             b == IF i < Len(row) THEN <<Separator>> ELSE << >>
  <2>1. a \in Seq(C)
    BY <1>1, QuotedType
  <2>2. b \in Seq(C)
    <3>1. Separator \in C
      BY DEF Marks
    <3>2. <<Separator>> \in Seq(C) /\ << >> \in Seq(C)
      BY <3>1, OneAndTwo
    <3> QED
      BY <3>2
  <2> HIDE DEF a, b
  <2>3. a \o b \in Seq(C)
    BY <2>1, <2>2
  <2> QED
    BY <2>3 DEF CellText, a, b
<1> DEFINE w == CellTexts(p, row)
           n == Len(row)
           S == Seq(C)
<1>3. n \in Nat /\ w = [i \in 1..n |-> w[i]] /\ \A i \in 1..n : w[i] = CellText(p, row, i) /\ w[i] \in S
  BY <1>1, <1>2 DEF CellTexts
<1> HIDE DEF w, n, S
<1>4. w \in Seq(S) /\ Len(w) = n
  BY <1>3, FunctionIsSeq
<1> QED
  BY <1>3, <1>4 DEF w, n, S

LEMMA LineEndType ==
  ASSUME NEW C, Marks \subseteq C, NEW hasCR \in BOOLEAN
  PROVE  LineEnd(hasCR) \in Seq(C)
<1>1. "\r" \in C /\ "\n" \in C
  BY DEF Marks
<1>2. <<"\r", "\n">> \in Seq(C) /\ <<"\n">> \in Seq(C)
  BY <1>1, OneAndTwo
<1> QED
  BY <1>2 DEF LineEnd

LEMMA WriteRowIs ==
  ASSUME NEW C, Marks \subseteq C, NEW p, NEW row \in Seq(Seq(C)), NEW hasCR \in BOOLEAN
  PROVE  /\ WriteRow(p, row, hasCR) = FlattenSeq(CellTexts(p, row)) \o LineEnd(hasCR)
         /\ FlattenSeq(CellTexts(p, row)) \in Seq(C) /\ LineEnd(hasCR) \in Seq(C)
         /\ WriteRow(p, row, hasCR) \in Seq(C)
<1>1. WriteRow(p, row, hasCR) = FlattenSeq(CellTexts(p, row)) \o LineEnd(hasCR)
  BY DEF WriteRow, CellTexts, CellText, LineEnd
<1> DEFINE a == FlattenSeq(CellTexts(p, row))
           b == LineEnd(hasCR)
<1>2. a \in Seq(C) /\ b \in Seq(C)
  BY CellTextsType, FlattenLayout, LineEndType
<1> HIDE DEF a, b
<1>3. a \o b \in Seq(C)
  BY <1>2
<1> QED
  BY <1>1, <1>2, <1>3 DEF a, b

\* What WriteCsv makes of each row.
RowTexts(p, data, hasCR) == [r \in DOMAIN data |-> WriteRow(p, data[r], hasCR)]

IsRowTexts(C, p, data, hasCR, w) ==
  /\ w \in Seq(Seq(C)) /\ Len(w) = Len(data) /\ FlattenSeq(w) \in Seq(C)
  /\ \A r \in 1..Len(data) : w[r] = WriteRow(p, data[r], hasCR)

LEMMA RowTextsAre ==
  ASSUME NEW C, Marks \subseteq C, NEW p, NEW data \in Seq(Seq(Seq(C))), NEW hasCR \in BOOLEAN
  PROVE  IsRowTexts(C, p, data, hasCR, RowTexts(p, data, hasCR))
<1> DEFINE w == RowTexts(p, data, hasCR)
           n == Len(data)
           S == Seq(C)
           b == FlattenSeq(w)
<1>1. n \in Nat /\ DOMAIN data = 1..n /\ \A r \in 1..n : data[r] \in Seq(Seq(C))
  OBVIOUS
<1>2. \A r \in 1..n : WriteRow(p, data[r], hasCR) \in S
  BY <1>1, WriteRowIs
<1>3. w = [r \in 1..n |-> w[r]] /\ \A r \in 1..n : w[r] = WriteRow(p, data[r], hasCR) /\ w[r] \in S
  BY <1>1, <1>2 DEF RowTexts
<1> HIDE DEF w, n, S
<1>4. w \in Seq(S) /\ Len(w) = n
  BY <1>1, <1>3, FunctionIsSeq
<1>5. b \in Seq(C)
  BY <1>4, FlattenLayout DEF S
<1> QED
  BY <1>3, <1>4, <1>5 DEF w, n, S, b, IsRowTexts

LEMMA WriteCsvIs ==
  ASSUME NEW C, Marks \subseteq C, NEW p, NEW data \in Seq(Seq(Seq(C))), NEW hasCR \in BOOLEAN,
         NEW hasBOM \in BOOLEAN
  PROVE  /\ WriteCsv(p, data, hasCR, hasBOM)
              = (IF hasBOM THEN <<BOM>> ELSE << >>) \o FlattenSeq(RowTexts(p, data, hasCR))
         /\ WriteCsv(p, data, hasCR, hasBOM) \in Seq(C)
<1> DEFINE a == IF hasBOM THEN <<BOM>> ELSE << >>
           b == FlattenSeq(RowTexts(p, data, hasCR))
<1>1. WriteCsv(p, data, hasCR, hasBOM) = a \o b
  BY DEF WriteCsv, RowTexts
<1>2. a \in Seq(C)
  <2>1. BOM \in C
    BY DEF Marks
  <2>2. <<BOM>> \in Seq(C) /\ << >> \in Seq(C)
    BY <2>1, OneAndTwo
  <2> QED
    BY <2>2
<1>3. b \in Seq(C)
  BY RowTextsAre DEF IsRowTexts
<1> HIDE DEF a, b
<1>4. a \o b \in Seq(C)
  BY <1>2, <1>3
<1> QED
  BY <1>1, <1>4 DEF a, b

----------------------------------------------------------------------------
(* A cell is read as it was written *)

\* In a cell outside of quotes, and inside.
Outside(d, r, cell, cr, lf) == St(d, r, cell, FALSE, cr, lf)
Within(d, r, cell, cr, lf)  == St(d, r, cell, TRUE, cr, lf)

\* What the parser does there.
Steps(p, d, r, cell, cr, lf, c) ==
  /\ c = QuoteChar /\ (cell = << >> \/ cell[1] = QuoteChar) =>
       /\ Character(p, Outside(d, r, cell, cr, lf), c) = Within(d, r, Append(cell, c), cr, lf)
       /\ Character(p, Within(d, r, cell, cr, lf), c) = Outside(d, r, Append(cell, c), cr, lf)
  /\ c = QuoteChar /\ ~(cell = << >> \/ cell[1] = QuoteChar) =>
       Character(p, Outside(d, r, cell, cr, lf), c) = Outside(d, r, Append(cell, c), cr, lf)
  /\ c = Separator =>
       Character(p, Outside(d, r, cell, cr, lf), c) = Outside(d, RowWith(p, r, cell), << >>, cr, lf)
  /\ c = "\r" => Character(p, Outside(d, r, cell, cr, lf), c) = Outside(d, r, cell, cr + 1, lf)
  /\ c = "\n" => Character(p, Outside(d, r, cell, cr, lf), c) = EndLine(p, Outside(d, r, cell, cr, lf))
  /\ c \notin {QuoteChar, Separator, "\r", "\n"} =>
       Character(p, Outside(d, r, cell, cr, lf), c) = Outside(d, r, Append(cell, c), cr, lf)
  /\ c \notin {QuoteChar, "\r", "\n"} =>
       Character(p, Within(d, r, cell, cr, lf), c) = Within(d, r, Append(cell, c), cr, lf)

LEMMA StepsAre ==
  ASSUME NEW p, NEW d, NEW r, NEW cell, NEW cr, NEW lf, NEW c
  PROVE  Steps(p, d, r, cell, cr, lf, c)
<1>1. CharacterDoes(p, d, r, cell, FALSE, cr, lf, c)
  BY CharacterIs
<1>2. CharacterDoes(p, d, r, cell, TRUE, cr, lf, c)
  BY CharacterIs
<1>3. (~FALSE) = TRUE /\ (~TRUE) = FALSE
  OBVIOUS
<1>4. ~(p.quotedLinebreaks /\ FALSE)
  OBVIOUS
<1>5. c \notin {QuoteChar, Separator, "\r", "\n"} => c # QuoteChar /\ c # Separator /\ c # "\r" /\ c # "\n"
  OBVIOUS
<1>6. c \notin {QuoteChar, "\r", "\n"} => c # QuoteChar /\ c # "\r" /\ c # "\n"
  OBVIOUS
<1>7. c = QuoteChar /\ (cell = << >> \/ cell[1] = QuoteChar) =>
       /\ Character(p, Outside(d, r, cell, cr, lf), c) = Within(d, r, Append(cell, c), cr, lf)
       /\ Character(p, Within(d, r, cell, cr, lf), c) = Outside(d, r, Append(cell, c), cr, lf)
  BY <1>1, <1>2, <1>3, Zenon DEF CharacterDoes, Outside, Within
<1>8. c = QuoteChar /\ ~(cell = << >> \/ cell[1] = QuoteChar) =>
       Character(p, Outside(d, r, cell, cr, lf), c) = Outside(d, r, Append(cell, c), cr, lf)
  BY <1>1, <1>3, Zenon DEF CharacterDoes, Outside
<1>9. c = Separator =>
       Character(p, Outside(d, r, cell, cr, lf), c) = Outside(d, RowWith(p, r, cell), << >>, cr, lf)
  BY <1>1, Zenon DEF CharacterDoes, Outside
<1>10. c = "\r" => Character(p, Outside(d, r, cell, cr, lf), c) = Outside(d, r, cell, cr + 1, lf)
  BY <1>1, <1>4, Zenon DEF CharacterDoes, Outside
<1>11. c = "\n" => Character(p, Outside(d, r, cell, cr, lf), c) = EndLine(p, Outside(d, r, cell, cr, lf))
  BY <1>1, <1>4, Zenon DEF CharacterDoes, Outside
<1>12. c \notin {QuoteChar, Separator, "\r", "\n"} =>
       Character(p, Outside(d, r, cell, cr, lf), c) = Outside(d, r, Append(cell, c), cr, lf)
  BY <1>1, <1>5, Zenon DEF CharacterDoes, Outside
<1>13. c \notin {QuoteChar, "\r", "\n"} =>
       Character(p, Within(d, r, cell, cr, lf), c) = Within(d, r, Append(cell, c), cr, lf)
  BY <1>2, <1>6, Zenon DEF CharacterDoes, Within
<1> QED
  BY <1>7, <1>8, <1>9, <1>10, <1>11, <1>12, <1>13, Zenon DEF Steps

\* str stands in the text, after n characters.
Stands(text, n, str) ==
  /\ n \in Nat /\ n + Len(str) <= Len(text)
  /\ \A q \in 1..Len(str) : text[n + q] = str[q]

\* The character that stands next is the one that is read next.
LEMMA ReadsNext ==
  ASSUME NEW C, NEW p, NEW text \in Seq(C), NEW f \in Parsings(p, C, text), NEW n, NEW str \in Seq(C),
         Stands(text, n, str), NEW i \in 0..(Len(str) - 1)
  PROVE  f[n + (i + 1)] = Character(p, f[n + i], str[i + 1])
<1>1. Len(text) \in Nat /\ Len(str) \in Nat /\ n \in Nat /\ n + Len(str) <= Len(text)
      /\ \A q \in 1..Len(str) : text[n + q] = str[q]
  BY DEF Stands
<1>2. i + 1 \in 1..Len(str) /\ n + (i + 1) \in 1..Len(text) /\ (n + (i + 1)) - 1 = n + i
  BY <1>1
<1>3. \A m \in 1..Len(text) : f[m] = Character(p, f[m - 1], text[m])
  BY DEF Parsings
<1>4. text[n + (i + 1)] = str[i + 1]
  BY <1>1, <1>2
<1> DEFINE m == n + (i + 1)
<1>5. m \in 1..Len(text) /\ m - 1 = n + i
  BY <1>2
<1> HIDE DEF m
<1>6. f[m] = Character(p, f[m - 1], text[m])
  BY <1>3, <1>5
<1>7. f[m] = Character(p, f[n + i], text[m])
  BY <1>5, <1>6
<1> QED
  BY <1>4, <1>7 DEF m

\* A cell that begins with no quote and holds neither separators nor linebreaks.
LEMMA ReadsPlain ==
  ASSUME NEW C, NEW p, NEW text \in Seq(C), NEW f \in Parsings(p, C, text), NEW n, NEW str \in Seq(C),
         Stands(text, n, str), str # << >> => str[1] # QuoteChar,
         \A q \in 1..Len(str) : str[q] \notin {Separator, "\r", "\n"},
         NEW d, NEW r, NEW cr, NEW lf, f[n] = Outside(d, r, << >>, cr, lf)
  PROVE  f[n + Len(str)] = Outside(d, r, str, cr, lf)
<1>1. Len(str) \in Nat /\ n \in Nat
  BY DEF Stands
<1> DEFINE T == {i \in 0..Len(str) : f[n + i] = Outside(d, r, SubSeq(str, 1, i), cr, lf)}
<1>2. 0 \in T
  <2>1. n + 0 = n /\ 0 \in 0..Len(str) /\ SubSeq(str, 1, 0) = << >>
    BY <1>1, FrontBySteps
  <2> QED
    BY <2>1
<1>3. ASSUME NEW i \in 0..(Len(str) - 1), i \in T PROVE i + 1 \in T
  <2> DEFINE s == SubSeq(str, 1, i)
             c == str[i + 1]
  <2>1. i \in Nat /\ i <= Len(str) /\ i + 1 \in 1..Len(str) /\ i + 1 \in 0..Len(str)
    BY <1>1
  <2>2. f[n + i] = Outside(d, r, s, cr, lf)
    BY <1>3
  <2>3. f[n + (i + 1)] = Character(p, f[n + i], c)
    BY ReadsNext
  <2>4. SubSeq(str, 1, i + 1) = Append(s, c)
    BY FrontBySteps
  <2>5. c \notin {Separator, "\r", "\n"}
    BY <2>1
  <2>6. s \in Seq(C) /\ Len(s) = i /\ \A q \in 1..i : s[q] = str[q]
    <3>1. s \in Seq(C) /\ IsPiece(s, str, 1, i)
      BY <2>1, Piece
    <3> QED
      BY <2>1, <3>1 DEF IsPiece
  <2>7. c = QuoteChar => ~(s = << >> \/ s[1] = QuoteChar)
    <3>1. ASSUME i = 0, c = QuoteChar PROVE FALSE
      <4>1. str # << >> /\ c = str[1]
        BY <2>1, <3>1
      <4> QED
        BY <3>1, <4>1
    <3>2. ASSUME i # 0 PROVE s # << >> /\ s[1] # QuoteChar
      <4>1. 1 \in 1..i /\ str # << >> /\ Len(s) # 0
        BY <2>1, <2>6, <3>2
      <4>2. s[1] = str[1]
        BY <2>6, <4>1
      <4> QED
        BY <4>1, <4>2
    <3> QED
      BY <3>1, <3>2, Zenon
  <2>8. Steps(p, d, r, s, cr, lf, c)
    BY StepsAre
  <2> HIDE DEF s, c
  <2>9. c # QuoteChar => c \notin {QuoteChar, Separator, "\r", "\n"}
    BY <2>5
  <2>10. Character(p, Outside(d, r, s, cr, lf), c) = Outside(d, r, Append(s, c), cr, lf)
    BY <2>7, <2>8, <2>9, Zenon DEF Steps
  <2>11. f[n + (i + 1)] = Outside(d, r, SubSeq(str, 1, i + 1), cr, lf)
    BY <2>2, <2>3, <2>4, <2>10, Zenon
  <2> QED
    BY <2>1, <2>11
<1> HIDE DEF T
<1>4. 0..Len(str) \subseteq T
  BY <1>1, <1>2, <1>3, InductionUpTo
<1>5. f[n + Len(str)] = Outside(d, r, SubSeq(str, 1, Len(str)), cr, lf)
  BY <1>1, <1>4 DEF T
<1> QED
  BY <1>5, FrontBySteps, Zenon

\* x, then all of e, then x again.
LEMMA Enclosed ==
  ASSUME NEW C, NEW e \in Seq(C), NEW x \in C
  PROVE  LET s == <<x>> \o e \o <<x>>
         IN  /\ s \in Seq(C) /\ Len(s) = Len(e) + 2 /\ s[1] = x /\ s[Len(e) + 2] = x
             /\ \A q \in 1..Len(e) : s[q + 1] = e[q]
             /\ SubSeq(s, 2, Len(s) - 1) = e
<1> DEFINE o == <<x>>
           a == o \o e
           s == a \o o
           k == Len(e)
<1>1. o \in Seq(C) /\ Len(o) = 1 /\ o[1] = x
  BY OneAndTwo
<1>2. k \in Nat
  OBVIOUS
<1> HIDE DEF o
<1>3. a \in Seq(C) /\ Concatenates(a, o, e)
  BY <1>1, Concatenation
<1> HIDE DEF a
<1>4. s \in Seq(C) /\ Concatenates(s, a, o)
  BY <1>1, <1>3, Concatenation
<1> HIDE DEF s, k
<1>5. Len(a) = k + 1 /\ a[1] = x /\ \A q \in 1..k : a[q + 1] = e[q]
  <2>1. Len(a) = 1 + k /\ (\A i \in 1..1 : a[i] = o[i]) /\ \A i \in 1..k : a[1 + i] = e[i]
    BY <1>1, <1>3 DEF Concatenates, k
  <2> QED
    BY <1>1, <1>2, <2>1
<1>6. Len(s) = k + 2 /\ (\A q \in 1..(k + 1) : s[q] = a[q]) /\ s[k + 2] = x
  <2>1. /\ Len(s) = (k + 1) + 1 /\ \A i \in 1..(k + 1) : s[i] = a[i]
        /\ \A i \in 1..1 : s[(k + 1) + i] = o[i]
    BY <1>1, <1>4, <1>5 DEF Concatenates
  <2>2. s[(k + 1) + 1] = x /\ (k + 1) + 1 = k + 2
    BY <1>1, <1>2, <2>1
  <2> QED
    BY <1>2, <2>1, <2>2
<1>7. s[1] = x /\ \A q \in 1..k : s[q + 1] = e[q]
  <2>1. 1 \in 1..(k + 1) /\ \A q \in 1..k : q + 1 \in 1..(k + 1)
    BY <1>2
  <2> QED
    BY <1>5, <1>6, <2>1
<1>8. SubSeq(s, 2, Len(s) - 1) = e
  <2> DEFINE b == SubSeq(s, 2, k + 1)
             n == k + 1
  <2>1. n \in Nat /\ n <= Len(s) /\ 2 <= n + 1 /\ 2 \in Nat \ {0}
    BY <1>2, <1>6
  <2> HIDE DEF n
  <2>2. SubSeq(s, 2, n) \in Seq(C) /\ IsPiece(SubSeq(s, 2, n), s, 2, n)
    BY <1>4, <2>1, Piece
  <2>3. b \in Seq(C) /\ IsPiece(b, s, 2, k + 1)
    BY <2>2 DEF n
  <2> HIDE DEF b
  <2>4. b \in Seq(C) /\ Len(b) = k /\ \A q \in 1..k : b[q] = s[q + 1]
    BY <1>2, <2>3 DEF IsPiece
  <2>5. b = e
    BY <1>7, <2>4 DEF k
  <2>6. Len(s) - 1 = k + 1
    BY <1>2, <1>6
  <2> QED
    BY <2>5, <2>6 DEF b
<1> QED
  BY <1>4, <1>6, <1>7, <1>8 DEF o, a, s, k

\* Where str begins with a quote, every other one leads out of the quotes.
Toggles(f, n, str, i, d, r, cr, lf) ==
  /\ str[i + 1] = QuoteChar /\ f[n + i] = Outside(d, r, SubSeq(str, 1, i), cr, lf) =>
       f[n + (i + 1)] = Within(d, r, SubSeq(str, 1, i + 1), cr, lf)
  /\ str[i + 1] = QuoteChar /\ f[n + i] = Within(d, r, SubSeq(str, 1, i), cr, lf) =>
       f[n + (i + 1)] = Outside(d, r, SubSeq(str, 1, i + 1), cr, lf)
  /\ str[i + 1] \notin {QuoteChar, "\r", "\n"} /\ f[n + i] = Within(d, r, SubSeq(str, 1, i), cr, lf) =>
       f[n + (i + 1)] = Within(d, r, SubSeq(str, 1, i + 1), cr, lf)

LEMMA QuotesToggle ==
  ASSUME NEW C, NEW p, NEW text \in Seq(C), NEW f \in Parsings(p, C, text), NEW n, NEW str \in Seq(C),
         Stands(text, n, str), str[1] = QuoteChar, NEW i \in 0..(Len(str) - 1),
         NEW d, NEW r, NEW cr, NEW lf
  PROVE  Toggles(f, n, str, i, d, r, cr, lf)
<1> DEFINE s == SubSeq(str, 1, i)
           c == str[i + 1]
<1>1. Len(str) \in Nat /\ i \in Nat /\ i <= Len(str)
  OBVIOUS
<1>2. f[n + (i + 1)] = Character(p, f[n + i], c)
  BY ReadsNext
<1>3. SubSeq(str, 1, i + 1) = Append(s, c)
  BY FrontBySteps
<1>4. s = << >> \/ s[1] = QuoteChar
  <2>1. s \in Seq(C) /\ IsPiece(s, str, 1, i)
    BY <1>1, Piece
  <2>2. Len(s) = i /\ \A q \in 1..i : s[q] = str[q]
    BY <1>1, <2>1 DEF IsPiece
  <2>3. ASSUME i = 0 PROVE s = << >>
    BY <2>3, FrontBySteps
  <2>4. ASSUME i # 0 PROVE s[1] = QuoteChar
    <3>1. 1 \in 1..i
      BY <1>1, <2>4
    <3> QED
      BY <2>2, <3>1
  <2> QED
    BY <2>3, <2>4
<1>5. Steps(p, d, r, s, cr, lf, c)
  BY StepsAre
<1> HIDE DEF s, c
<1>6. c = QuoteChar =>
       /\ Character(p, Outside(d, r, s, cr, lf), c) = Within(d, r, Append(s, c), cr, lf)
       /\ Character(p, Within(d, r, s, cr, lf), c) = Outside(d, r, Append(s, c), cr, lf)
  BY <1>4, <1>5, Zenon DEF Steps
<1>7. c \notin {QuoteChar, "\r", "\n"} =>
       Character(p, Within(d, r, s, cr, lf), c) = Within(d, r, Append(s, c), cr, lf)
  BY <1>5, Zenon DEF Steps
<1>8. c = QuoteChar /\ f[n + i] = Outside(d, r, s, cr, lf) =>
        f[n + (i + 1)] = Within(d, r, SubSeq(str, 1, i + 1), cr, lf)
  BY <1>2, <1>3, <1>6, Zenon
<1>9. c = QuoteChar /\ f[n + i] = Within(d, r, s, cr, lf) =>
        f[n + (i + 1)] = Outside(d, r, SubSeq(str, 1, i + 1), cr, lf)
  BY <1>2, <1>3, <1>6, Zenon
<1>10. c \notin {QuoteChar, "\r", "\n"} /\ f[n + i] = Within(d, r, s, cr, lf) =>
        f[n + (i + 1)] = Within(d, r, SubSeq(str, 1, i + 1), cr, lf)
  BY <1>2, <1>3, <1>7, Zenon
<1> QED
  BY <1>8, <1>9, <1>10, Zenon DEF Toggles, s, c

\* A cell in quotes, whatever its quotes and separators.
Enquoted(cell) == <<QuoteChar>> \o Escaped(cell) \o <<QuoteChar>>

LEMMA ReadsQuoted ==
  ASSUME NEW C, NEW p, NEW text \in Seq(C), NEW f \in Parsings(p, C, text), NEW n,
         QuoteChar \in C, NEW cell \in Seq(C), \A q \in 1..Len(cell) : cell[q] \notin {"\r", "\n"},
         NEW str, str = Enquoted(cell), Stands(text, n, str),
         NEW d, NEW r, NEW cr, NEW lf, f[n] = Outside(d, r, << >>, cr, lf)
  PROVE  f[n + Len(str)] = Outside(d, r, str, cr, lf)
<1> DEFINE e == Escaped(cell)
           w == Doubled(cell)
           k == Len(cell)
           At(m) == SubSeq(str, 1, m)
<1>1. e \in Seq(C) /\ w \in Seq(Seq(C)) /\ Len(w) = k /\ k \in Nat /\ Len(e) \in Nat
  BY EscapedIs, DoubledType
<1>2. PICK off \in Offsets(w) : Laid(e, w, off)
  BY EscapedIs
<1>3. /\ off[0] = 0 /\ off[k] = Len(e)
      /\ \A i \in 0..k : off[i] \in Nat
      /\ \A i \in 1..k : off[i] = off[i - 1] + Len(w[i]) /\ off[i] <= Len(e)
      /\ \A i \in 1..k : \A q \in 1..Len(w[i]) : e[off[i - 1] + q] = w[i][q]
  BY <1>1, <1>2 DEF Offsets, Laid
<1>4. str \in Seq(C) /\ Len(str) = Len(e) + 2 /\ str[1] = QuoteChar /\ str[Len(e) + 2] = QuoteChar
      /\ \A q \in 1..Len(e) : str[q + 1] = e[q]
  BY <1>1, Enclosed DEF Enquoted
<1>5. n \in Nat
  BY DEF Stands
<1>6. \A i \in 0..(Len(str) - 1) : Toggles(f, n, str, i, d, r, cr, lf)
  BY <1>4, QuotesToggle
<1> DEFINE T == {i \in 0..k : f[n + (off[i] + 1)] = Within(d, r, At(off[i] + 1), cr, lf)}
<1> HIDE DEF w, e
<1>7. 0 \in T
  <2>1. 0 \in 0..(Len(str) - 1) /\ str[0 + 1] = QuoteChar /\ n + 0 = n /\ 0 + 1 = 1
    BY <1>1, <1>4, <1>5
  <2>2. Toggles(f, n, str, 0, d, r, cr, lf)
    BY <1>6, <2>1
  <2>3. SubSeq(str, 1, 0) = << >>
    BY <1>4, FrontBySteps
  <2>4. f[n + 0] = Outside(d, r, SubSeq(str, 1, 0), cr, lf)
    BY <2>1, <2>3, Zenon
  <2>5. f[n + (0 + 1)] = Within(d, r, At(0 + 1), cr, lf)
    BY <2>1, <2>2, <2>4, Zenon DEF Toggles
  <2>6. 0 \in 0..k
    BY <1>1
  <2> QED
    BY <1>3, <2>5, <2>6, Zenon
<1>8. ASSUME NEW j \in 0..(k - 1), j \in T PROVE j + 1 \in T
  <2> DEFINE c == cell[j + 1]
             v == w[j + 1]
             x == off[j]
             y == off[j + 1]
             l == Len(e)
  <2>1. j + 1 \in 1..k /\ j + 1 \in 0..k /\ j \in 0..k
    BY <1>1
  <2>2. x \in Nat /\ y = x + Len(v) /\ y <= l /\ l \in Nat /\ \A q \in 1..Len(v) : e[x + q] = v[q]
    <3> DEFINE i == j + 1
    <3>1. i \in 1..k /\ i - 1 = j /\ j \in 0..k
      BY <1>1
    <3> HIDE DEF i
    <3>2. off[i] = off[j] + Len(w[i]) /\ off[i] <= Len(e) /\ \A q \in 1..Len(w[i]) : e[off[j] + q] = w[i][q]
      BY <1>3, <3>1
    <3>3. off[j] \in Nat /\ Len(e) \in Nat
      BY <1>1, <1>3, <3>1
    <3> QED
      BY <3>2, <3>3 DEF i
  <2>3. f[n + (x + 1)] = Within(d, r, At(x + 1), cr, lf)
    BY <1>8
  <2>4. c \notin {"\r", "\n"}
    BY <2>1
  <2>5. /\ c = QuoteChar => Len(v) = 2 /\ v[1] = QuoteChar /\ v[2] = QuoteChar
        /\ c # QuoteChar => Len(v) = 1 /\ v[1] = c
    <3>1. \A i \in 1..k :
              /\ cell[i] = QuoteChar => /\ Len(w[i]) = 2 /\ w[i][1] = QuoteChar /\ w[i][2] = QuoteChar
              /\ cell[i] # QuoteChar => /\ Len(w[i]) = 1 /\ w[i][1] = cell[i]
      BY DoubledType DEF w
    <3> QED
      BY <2>1, <3>1
  <2>6. j + 1 \in T <=> f[n + (y + 1)] = Within(d, r, At(y + 1), cr, lf)
    BY <2>1
  <2> HIDE DEF c, v, x, y, l, T, At
  <2>7. CASE c = QuoteChar
    <3>a. Len(v) = 2 /\ v[1] = QuoteChar /\ v[2] = QuoteChar
      BY <2>5, <2>7, Zenon
    <3>b. 1 \in 1..2 /\ 2 \in 1..2
      OBVIOUS
    <3>1. y = x + 2 /\ e[x + 1] = QuoteChar /\ e[x + 2] = QuoteChar
      BY ONLY <2>2, <3>a, <3>b
    <3>2. x + 1 \in 1..l /\ x + 2 \in 1..l /\ (x + 1) + 1 = x + 2 /\ (x + 2) + 1 = y + 1
          /\ x + 1 \in 0..(l + 1) /\ x + 2 \in 0..(l + 1)
      BY <2>2, <3>1
    <3>3. str[(x + 1) + 1] = QuoteChar /\ str[(x + 2) + 1] = QuoteChar
      BY <1>4, <3>1, <3>2 DEF l
    <3>4. (Len(str) - 1) = l + 1
      BY <1>1, <1>4 DEF l
    <3>5. Toggles(f, n, str, x + 1, d, r, cr, lf) /\ Toggles(f, n, str, x + 2, d, r, cr, lf)
      BY <1>6, <3>2, <3>4
    <3>6. f[n + (x + 2)] = Outside(d, r, At(x + 2), cr, lf)
      BY <2>3, <3>2, <3>3, <3>5, Zenon DEF Toggles, At
    <3>7. f[n + (y + 1)] = Within(d, r, At(y + 1), cr, lf)
      BY <3>2, <3>3, <3>5, <3>6, Zenon DEF Toggles, At
    <3> QED
      BY <2>6, <3>7
  <2>8. CASE c # QuoteChar
    <3>a. Len(v) = 1 /\ v[1] = c
      BY <2>5, <2>8, Zenon
    <3>b. 1 \in 1..1
      OBVIOUS
    <3>1. y = x + 1 /\ e[x + 1] = c
      BY ONLY <2>2, <3>a, <3>b
    <3>2. x + 1 \in 1..l /\ (x + 1) + 1 = y + 1 /\ x + 1 \in 0..(l + 1)
      BY <2>2, <3>1
    <3>3. str[(x + 1) + 1] = c
      BY <1>4, <3>1, <3>2 DEF l
    <3>4. (Len(str) - 1) = l + 1
      BY <1>1, <1>4 DEF l
    <3>5. Toggles(f, n, str, x + 1, d, r, cr, lf)
      BY <1>6, <3>2, <3>4
    <3>6. c \notin {QuoteChar, "\r", "\n"}
      BY <2>4, <2>8
    <3>7. f[n + (y + 1)] = Within(d, r, At(y + 1), cr, lf)
      BY <2>3, <3>2, <3>3, <3>5, <3>6, Zenon DEF Toggles, At
    <3> QED
      BY <2>6, <3>7
  <2> QED
    BY <2>7, <2>8
<1> HIDE DEF T
<1>9. 0..k \subseteq T
  BY <1>1, <1>7, <1>8, InductionUpTo
<1> DEFINE l == Len(e)
<1>10. f[n + (l + 1)] = Within(d, r, At(l + 1), cr, lf)
  <2>1. k \in 0..k
    BY <1>1
  <2> QED
    BY <1>3, <1>9, <2>1 DEF T
<1>11. l \in Nat /\ (Len(str) - 1) = l + 1 /\ l + 1 \in 0..(l + 1) /\ (l + 1) + 1 = l + 2 /\ Len(str) = l + 2
       /\ str[l + 2] = QuoteChar
  BY <1>1, <1>4
<1> HIDE DEF l
<1>12. Toggles(f, n, str, l + 1, d, r, cr, lf)
  BY <1>6, <1>11
<1>13. f[n + (l + 2)] = Outside(d, r, At(l + 2), cr, lf)
  BY <1>10, <1>11, <1>12, Zenon DEF Toggles
<1>14. At(Len(str)) = str
  BY <1>4, FrontBySteps
<1> QED
  BY <1>11, <1>13, <1>14, Zenon

\* What Writable asks of a cell.
Readable(p, cell) ==
  cell # NoCell =>
    /\ {"\r", "\n"} \cap Range(cell) = {}
    /\ NeedsQuotes(p, cell) \/
         /\ cell[1] # QuoteChar /\ Separator \notin Range(cell)
         /\ p.trim => {cell[1], Last(cell)} \cap Space = {}

\* What is put into the text is the cell again, with the spaces and the quotes around it gone.
LEMMA QuotedIsCell ==
  ASSUME NEW C, QuoteChar \in C, NEW p, IsParams(p), NEW cell \in Seq(C), Readable(p, cell)
  PROVE  Unquote(p, Trim(p, Quoted(p, cell))) = cell
<1> DEFINE e == Escaped(cell)
           o == <<QuoteChar>>
           str == o \o e \o o
<1>1. p.trim \in BOOLEAN /\ p.autoQuote \in BOOLEAN
  BY DEF IsParams
<1>2. CASE cell = << >>
  <2>1. Range(cell) = {}
    BY <1>2 DEF Range
  <2>2. Quoted(p, cell) = << >>
    BY <1>2, <2>1 DEF Quoted
  <2>3. Trim(p, << >>) = << >>
    BY <1>1, TrimIs
  <2>4. Unquote(p, << >>) = << >>
    BY DEF Unquote
  <2> QED
    BY <1>2, <2>2, <2>3, <2>4
<1>3. CASE cell # << >> /\ NeedsQuotes(p, cell)
  <2>0. e \in Seq(C)
    BY EscapedIs
  <2>1. /\ str \in Seq(C) /\ Len(str) = Len(e) + 2 /\ str[1] = QuoteChar /\ str[Len(e) + 2] = QuoteChar
        /\ SubSeq(str, 2, Len(str) - 1) = e
    BY <2>0, Enclosed
  <2>2. Quoted(p, cell) = str
    BY <1>3 DEF Quoted, NeedsQuotes
  <2>3. Len(e) \in Nat
    BY <2>0
  <2>4. Unescaped(e) = cell
    BY UnescapesEscaped
  <2> HIDE DEF str, e
  <2>5. Len(str) >= 2 /\ str # << >> /\ str[Len(str)] = QuoteChar /\ Last(str) = QuoteChar
    BY <2>1, <2>3 DEF Last
  <2>6. Trim(p, str) = str
    <3>1. QuoteChar \notin Space
      BY DEF QuoteChar, Space
    <3> QED
      BY <1>1, <2>1, <2>5, <3>1, TrimIs
  <2>7. Unquote(p, str) = Unescaped(SubSeq(str, 2, Len(str) - 1))
    BY <1>3, <2>1, <2>5 DEF Unquote, NeedsQuotes
  <2> QED
    BY <2>1, <2>2, <2>4, <2>6, <2>7
<1>4. CASE cell # << >> /\ ~NeedsQuotes(p, cell)
  <2>1. Quoted(p, cell) = cell
    BY <1>4 DEF Quoted, NeedsQuotes
  <2>2. cell[1] # QuoteChar /\ (p.trim => {cell[1], Last(cell)} \cap Space = {})
    BY <1>4 DEF Readable, NoCell
  <2>3. p.trim => cell[1] \notin Space /\ cell[Len(cell)] \notin Space
    BY <2>2 DEF Last
  <2>4. Trim(p, cell) = cell
    BY <1>1, <1>4, <2>3, TrimIs
  <2>5. Unquote(p, cell) = cell
    BY <2>2 DEF Unquote
  <2> QED
    BY <2>1, <2>4, <2>5
<1> QED
  BY <1>2, <1>3, <1>4

\* A cell stands in the text as it was written.  Where it has been read, it is the next of the row.
LEMMA ReadsCell ==
  ASSUME NEW C, QuoteChar \in C, NEW p, IsParams(p), NEW text \in Seq(C), NEW f \in Parsings(p, C, text),
         NEW n, NEW cell \in Seq(C), Readable(p, cell), Stands(text, n, Quoted(p, cell)),
         NEW d, NEW r, NEW cr, NEW lf, f[n] = Outside(d, r, << >>, cr, lf)
  PROVE  f[n + Len(Quoted(p, cell))] = Outside(d, r, Quoted(p, cell), cr, lf)
<1>1. \A q \in 1..Len(cell) : cell[q] \in Range(cell) /\ cell # << >>
  BY DEF Range
<1>2. CASE NeedsQuotes(p, cell)
  <2>1. Quoted(p, cell) = Enquoted(cell)
    BY <1>2 DEF Quoted, NeedsQuotes, Enquoted
  <2>2. \A q \in 1..Len(cell) : cell[q] \notin {"\r", "\n"}
    BY <1>1 DEF Readable, NoCell
  <2> DEFINE str == Quoted(p, cell)
  <2>3. str = Enquoted(cell) /\ Stands(text, n, str)
    BY <2>1
  <2> HIDE DEF str
  <2>4. f[n + Len(str)] = Outside(d, r, str, cr, lf)
    BY <2>2, <2>3, ReadsQuoted
  <2> QED
    BY <2>4 DEF str
<1>3. CASE ~NeedsQuotes(p, cell)
  <2>1. Quoted(p, cell) = cell
    BY <1>3 DEF Quoted, NeedsQuotes
  <2>2. cell # << >> => cell[1] # QuoteChar
    BY <1>3 DEF Readable, NoCell
  <2>3. \A q \in 1..Len(cell) : cell[q] \notin {Separator, "\r", "\n"}
    BY <1>1, <1>3 DEF Readable, NoCell
  <2> QED
    BY <2>1, <2>2, <2>3, ReadsPlain
<1> QED
  BY <1>2, <1>3

----------------------------------------------------------------------------
(* A row is read as it was written *)

LEMMA StandsBoth ==
  ASSUME NEW C, NEW text \in Seq(C), NEW a \in Seq(C), NEW b \in Seq(C), NEW n, Stands(text, n, a \o b)
  PROVE  Stands(text, n, a) /\ Stands(text, n + Len(a), b) /\ Len(a \o b) = Len(a) + Len(b)
<1> DEFINE ab == a \o b
           k == Len(a)
           l == Len(b)
           t == Len(text)
<1>1. Concatenates(ab, a, b)
  BY Concatenation
<1>2. k \in Nat /\ l \in Nat /\ t \in Nat
  OBVIOUS
<1>3. Stands(text, n, ab)
  OBVIOUS
<1> HIDE DEF ab
<1>4. Len(ab) = k + l /\ (\A i \in 1..k : ab[i] = a[i]) /\ \A i \in 1..l : ab[k + i] = b[i]
  BY <1>1 DEF Concatenates
<1> HIDE DEF k, l, t
<1>5. n \in Nat /\ n + (k + l) <= t /\ \A q \in 1..(k + l) : text[n + q] = ab[q]
  BY <1>3, <1>4 DEF Stands, t
<1>6. n + k <= t /\ \A q \in 1..k : text[n + q] = a[q]
  <2>1. \A q \in 1..k : q \in 1..(k + l)
    BY <1>2
  <2> QED
    BY <1>2, <1>4, <1>5, <2>1
<1>7. n + k \in Nat /\ (n + k) + l <= t /\ \A q \in 1..l : text[(n + k) + q] = b[q]
  <2>1. \A q \in 1..l : k + q \in 1..(k + l) /\ (n + k) + q = n + (k + q)
    BY <1>2, <1>5
  <2>2. \A q \in 1..l : text[n + (k + q)] = b[q]
    BY <1>4, <1>5, <2>1
  <2>3. \A q \in 1..l : text[(n + k) + q] = b[q]
    BY <2>1, <2>2
  <2> QED
    BY <1>2, <1>5, <2>3
<1> QED
  BY <1>4, <1>5, <1>6, <1>7 DEF Stands, k, l, t, ab

LEMMA StandsPieces ==
  ASSUME NEW C, NEW text \in Seq(C), NEW ss \in Seq(Seq(C)), NEW flat \in Seq(C), NEW off \in Offsets(ss),
         Laid(flat, ss, off), NEW n, Stands(text, n, flat), NEW i \in 1..Len(ss)
  PROVE  Stands(text, n + off[i - 1], ss[i]) /\ off[i - 1] \in Nat /\ off[i] = off[i - 1] + Len(ss[i])
<1> DEFINE x == off[i - 1]
           y == off[i]
           l == Len(ss[i])
           k == Len(flat)
           t == Len(text)
<1>1. Len(ss) \in Nat /\ i - 1 \in 0..Len(ss) /\ ss[i] \in Seq(C) /\ k \in Nat /\ t \in Nat
  OBVIOUS
<1>2. x \in Nat /\ y = x + l /\ l \in Nat
  <2>1. off \in [0..Len(ss) -> Nat] /\ \A j \in 1..Len(ss) : off[j] = off[j - 1] + Len(ss[j])
    BY DEF Offsets
  <2>2. l \in Nat
    BY <1>1
  <2> QED
    BY <1>1, <2>1, <2>2
<1>3. y <= k /\ \A q \in 1..l : flat[x + q] = ss[i][q]
  BY DEF Laid
<1>4. n \in Nat /\ n + k <= t /\ \A q \in 1..k : text[n + q] = flat[q]
  BY DEF Stands
<1> HIDE DEF x, y, l, k, t
<1>5. n + x \in Nat /\ (n + x) + l <= t
  BY <1>1, <1>2, <1>3, <1>4
<1>6. ASSUME NEW q \in 1..l PROVE text[(n + x) + q] = ss[i][q]
  <2>1. x + q \in 1..k /\ n + (x + q) = (n + x) + q
    BY <1>1, <1>2, <1>3, <1>4
  <2>2. text[n + (x + q)] = flat[x + q]
    BY <1>4, <2>1
  <2> QED
    BY <1>3, <2>1, <2>2
<1> QED
  BY <1>2, <1>5, <1>6 DEF Stands, x, y, l, k, t

\* How many of the characters that end a line are "\r".
Returns(hasCR) == IF hasCR THEN 1 ELSE 0

LEMMA ReadsLineEnd ==
  ASSUME NEW C, Marks \subseteq C, NEW p, NEW text \in Seq(C), NEW f \in Parsings(p, C, text), NEW n,
         NEW hasCR \in BOOLEAN, Stands(text, n, LineEnd(hasCR)),
         NEW d, NEW r, NEW cell, NEW cr \in Nat, NEW lf, f[n] = Outside(d, r, cell, cr, lf)
  PROVE  f[n + Len(LineEnd(hasCR))] = EndLine(p, Outside(d, r, cell, cr + Returns(hasCR), lf))
<1> DEFINE str == LineEnd(hasCR)
<1>0. str \in Seq(C) /\ n \in Nat
  BY LineEndType DEF Stands
<1>a. "\r" # "\n"
  OBVIOUS
<1>b. Stands(text, n, str)
  OBVIOUS
<1>c. ASSUME NEW s \in Seq(C), Stands(text, n, s), NEW i \in 0..(Len(s) - 1)
      PROVE  f[n + (i + 1)] = Character(p, f[n + i], s[i + 1])
  BY <1>c, ReadsNext
<1>1. ASSUME NEW i \in 0..(Len(str) - 1) PROVE f[n + (i + 1)] = Character(p, f[n + i], str[i + 1])
  <2> HIDE DEF str
  <2> QED
    BY <1>0, <1>b, <1>c
<1>2. CASE hasCR
  <2>1. Len(str) = 2 /\ str[1] = "\r" /\ str[2] = "\n" /\ n + 0 = n /\ 0 + 1 = 1 /\ 1 + 1 = 2
    BY <1>0, <1>2 DEF LineEnd
  <2> HIDE DEF str
  <2>2. f[n + 1] = Character(p, f[n + 0], "\r")
    <3>1. 0 \in 0..(Len(str) - 1)
      BY <2>1
    <3>2. f[n + (0 + 1)] = Character(p, f[n + 0], str[0 + 1])
      BY <1>1, <3>1
    <3> QED
      BY <2>1, <3>2
  <2>3. f[n + 2] = Character(p, f[n + 1], "\n")
    <3>1. 1 \in 0..(Len(str) - 1)
      BY <2>1
    <3>2. f[n + (1 + 1)] = Character(p, f[n + 1], str[1 + 1])
      BY <1>1, <3>1
    <3> QED
      BY <2>1, <3>2
  <2>4. Steps(p, d, r, cell, cr, lf, "\r")
    BY StepsAre
  <2>5. f[n + 1] = Outside(d, r, cell, cr + 1, lf)
    BY <2>1, <2>2, <2>4, Zenon DEF Steps
  <2> DEFINE c == cr + 1
  <2>6. Steps(p, d, r, cell, c, lf, "\n")
    BY StepsAre
  <2>7. f[n + 2] = EndLine(p, Outside(d, r, cell, c, lf))
    BY <2>3, <2>5, <2>6, Zenon DEF Steps
  <2>8. Returns(hasCR) = 1
    BY <1>2 DEF Returns
  <2> QED
    BY <2>1, <2>7, <2>8, Zenon DEF str
<1>3. CASE ~hasCR
  <2>1. Len(str) = 1 /\ str[1] = "\n" /\ n + 0 = n /\ 0 + 1 = 1
    BY <1>0, <1>3 DEF LineEnd
  <2> HIDE DEF str
  <2>2. f[n + 1] = Character(p, f[n + 0], "\n")
    <3>1. 0 \in 0..(Len(str) - 1)
      BY <2>1
    <3>2. f[n + (0 + 1)] = Character(p, f[n + 0], str[0 + 1])
      BY <1>1, <3>1
    <3> QED
      BY <2>1, <3>2
  <2>3. Steps(p, d, r, cell, cr, lf, "\n")
    BY StepsAre
  <2>4. f[n + 1] = EndLine(p, Outside(d, r, cell, cr, lf))
    BY <2>1, <2>2, <2>3, Zenon DEF Steps
  <2>5. cr + Returns(hasCR) = cr
    BY <1>3 DEF Returns
  <2> QED
    BY <2>1, <2>4, <2>5, Zenon DEF str
<1> QED
  BY <1>2, <1>3

LEMMA ReadsSeparator ==
  ASSUME NEW C, Separator \in C, NEW p, NEW text \in Seq(C), NEW f \in Parsings(p, C, text), NEW m,
         Stands(text, m, <<Separator>>),
         NEW d, NEW r, NEW cell, NEW cr, NEW lf, f[m] = Outside(d, r, cell, cr, lf)
  PROVE  f[m + 1] = Outside(d, RowWith(p, r, cell), << >>, cr, lf)
<1> DEFINE o == <<Separator>>
<1>1. o \in Seq(C) /\ Len(o) = 1 /\ o[1] = Separator /\ Stands(text, m, o)
  BY OneAndTwo
<1> HIDE DEF o
<1>2. m \in Nat /\ m + 1 <= Len(text) /\ text[m + 1] = Separator
  <2>1. 1 \in 1..1
    OBVIOUS
  <2> QED
    BY <1>1, <2>1 DEF Stands
<1>3. m + 1 \in 1..Len(text) /\ (m + 1) - 1 = m
  BY <1>2
<1>4. \A j \in 1..Len(text) : f[j] = Character(p, f[j - 1], text[j])
  BY DEF Parsings
<1>5. f[m + 1] = Character(p, f[m], Separator)
  BY <1>2, <1>3, <1>4
<1>6. Steps(p, d, r, cell, cr, lf, Separator)
  BY StepsAre
<1> QED
  BY <1>5, <1>6, Zenon DEF Steps

\* What Writable asks of a row.
WritableRow(p, row) ==
  /\ row # << >>
  /\ p.skipEmpty => row # <<NoCell>>
  /\ p.skipComments => row[1] = NoCell \/ row[1][1] # Comment
  /\ \A c \in 1..Len(row) : Readable(p, row[c])

\* A cell and what is after it: a separator, or nothing.
ThenRead(p, f, n, row, i, d, r, cr, lf) ==
  LET end == n + Len(CellText(p, row, i))
  IN  /\ i < Len(row) => f[end] = Outside(d, Append(r, row[i]), << >>, cr, lf)
      /\ i = Len(row) => f[end] = Outside(d, r, Quoted(p, row[i]), cr, lf)

LEMMA ReadsCellOfRow ==
  ASSUME NEW C, Marks \subseteq C, NEW p, IsParams(p), NEW text \in Seq(C), NEW f \in Parsings(p, C, text),
         NEW n, NEW row \in Seq(Seq(C)), WritableRow(p, row), NEW i \in 1..Len(row),
         Stands(text, n, CellText(p, row, i)),
         NEW d, NEW r, NEW cr, NEW lf, f[n] = Outside(d, r, << >>, cr, lf)
  PROVE  ThenRead(p, f, n, row, i, d, r, cr, lf)
<1> DEFINE q == Quoted(p, row[i])
           cell == row[i]
           o == <<Separator>>
           w == CellText(p, row, i)
           k == Len(row)
<1>0. QuoteChar \in C /\ Separator \in C
  BY DEF Marks
<1>1. cell \in Seq(C) /\ Readable(p, cell) /\ k \in Nat
  BY DEF WritableRow
<1>2. q \in Seq(C) /\ Unquote(p, Trim(p, q)) = cell
  <2> HIDE DEF cell
  <2>1. Quoted(p, cell) \in Seq(C) /\ Unquote(p, Trim(p, Quoted(p, cell))) = cell
    BY <1>0, <1>1, QuotedType, QuotedIsCell
  <2> QED
    BY <2>1 DEF cell
<1>3. w = q \o (IF i < k THEN o ELSE << >>)
  BY DEF CellText
<1>4. o \in Seq(C) /\ Len(o) = 1
  BY <1>0, OneAndTwo
<1>5. Stands(text, n, w) /\ n \in Nat
  BY DEF Stands
<1>6. Stands(text, n, q) => f[n + Len(q)] = Outside(d, r, q, cr, lf)
  <2> HIDE DEF cell
  <2>1. Stands(text, n, Quoted(p, cell)) => f[n + Len(Quoted(p, cell))] = Outside(d, r, Quoted(p, cell), cr, lf)
    BY <1>0, <1>1, ReadsCell
  <2> QED
    BY <2>1 DEF cell
<1> HIDE DEF q, w, k, cell, o
<1>7. CASE i < k
  <2>1. w = q \o o
    BY <1>3, <1>7
  <2>2. Stands(text, n, q) /\ Stands(text, n + Len(q), o) /\ Len(w) = Len(q) + 1
    <3>1. Stands(text, n, q \o o)
      BY <1>5, <2>1
    <3>2. q \in Seq(C) /\ o \in Seq(C)
      BY <1>2, <1>4
    <3>3. ASSUME NEW a \in Seq(C), NEW b \in Seq(C), Stands(text, n, a \o b)
          PROVE  Stands(text, n, a) /\ Stands(text, n + Len(a), b) /\ Len(a \o b) = Len(a) + Len(b)
      BY <3>3, StandsBoth
    <3>4. Stands(text, n, q) /\ Stands(text, n + Len(q), o) /\ Len(q \o o) = Len(q) + Len(o)
      BY <3>1, <3>2, <3>3
    <3> QED
      BY <1>4, <2>1, <3>4
  <2>3. f[n + Len(q)] = Outside(d, r, q, cr, lf)
    BY <1>6, <2>2
  <2> DEFINE m == n + Len(q)
  <2>4. f[m + 1] = Outside(d, RowWith(p, r, q), << >>, cr, lf)
    <3>1. f[m] = Outside(d, r, q, cr, lf) /\ Stands(text, m, <<Separator>>)
      BY <2>2, <2>3 DEF o
    <3> HIDE DEF m
    <3> QED
      BY <1>0, <3>1, ReadsSeparator
  <2>5. m + 1 = n + Len(w)
    <3>1. Len(q) \in Nat
      BY <1>2
    <3> QED
      BY <1>5, <2>2, <3>1
  <2>6. RowWith(p, r, q) = Append(r, cell)
    BY <1>2 DEF RowWith
  <2> QED
    BY <1>7, <2>4, <2>5, <2>6 DEF w, cell, k, ThenRead
<1>8. CASE ~(i < k)
  <2>1. w = q
    BY <1>2, <1>3, <1>8
  <2> QED
    BY <1>5, <1>6, <1>8, <2>1 DEF w, q, k, ThenRead
<1> QED
  BY <1>7, <1>8

CellsRead(p, f, n, row, flat, d, cr, lf) ==
  f[n + Len(flat)] = Outside(d, SubSeq(row, 1, Len(row) - 1), Quoted(p, row[Len(row)]), cr, lf)

LEMMA ReadsCells ==
  ASSUME NEW C, Marks \subseteq C, NEW p, IsParams(p), NEW text \in Seq(C), NEW f \in Parsings(p, C, text),
         NEW n, NEW row \in Seq(Seq(C)), WritableRow(p, row), NEW flat, flat = FlattenSeq(CellTexts(p, row)),
         Stands(text, n, flat), NEW d, NEW cr, NEW lf, f[n] = Outside(d, << >>, << >>, cr, lf)
  PROVE  CellsRead(p, f, n, row, flat, d, cr, lf)
<1> DEFINE w == CellTexts(p, row)
           k == Len(row)
           front(i) == SubSeq(row, 1, i)
<1>1. w \in Seq(Seq(C)) /\ Len(w) = k /\ k \in Nat \ {0} /\ \A i \in 1..k : w[i] = CellText(p, row, i)
  <2>1. w \in Seq(Seq(C)) /\ Len(w) = k /\ \A i \in 1..k : w[i] = CellText(p, row, i)
    BY CellTextsType
  <2>2. k \in Nat \ {0}
    BY DEF WritableRow
  <2> QED
    BY <2>1, <2>2
<1> HIDE DEF w
<1>2. flat \in Seq(C) /\ \E off \in Offsets(w) : Laid(flat, w, off)
  BY <1>1, FlattenLayout DEF w
<1>3. PICK off \in Offsets(w) : Laid(flat, w, off)
  BY <1>2
<1>4. off[0] = 0 /\ off[k] = Len(flat) /\ n \in Nat
  BY <1>1, <1>3 DEF Offsets, Laid, Stands
<1>5. ASSUME NEW i \in 1..k
      PROVE  Stands(text, n + off[i - 1], w[i]) /\ off[i - 1] \in Nat /\ off[i] = off[i - 1] + Len(w[i])
             /\ Len(w[i]) \in Nat
  <2>1. Stands(text, n + off[i - 1], w[i]) /\ off[i - 1] \in Nat /\ off[i] = off[i - 1] + Len(w[i])
    BY <1>1, <1>2, <1>3, StandsPieces
  <2>2. w[i] \in Seq(C)
    BY <1>1
  <2> QED
    BY <2>1, <2>2
<1>a. ASSUME NEW i \in 1..Len(row), NEW m, Stands(text, m, CellText(p, row, i)), NEW r,
             f[m] = Outside(d, r, << >>, cr, lf)
      PROVE  ThenRead(p, f, m, row, i, d, r, cr, lf)
  BY <1>a, ReadsCellOfRow
<1>6. ASSUME NEW j \in 0..(k - 1), f[n + off[j]] = Outside(d, front(j), << >>, cr, lf)
      PROVE  /\ j + 1 < k => f[n + off[j + 1]] = Outside(d, front(j + 1), << >>, cr, lf)
             /\ j + 1 = k => f[n + off[j + 1]] = Outside(d, front(j), Quoted(p, row[k]), cr, lf)
  <2> DEFINE i == j + 1
             m == n + off[j]
             r == front(j)
  <2>1. i \in 1..k /\ i - 1 = j
    BY <1>1
  <2>2. front(i) = Append(r, row[i])
    BY FrontBySteps
  <2>a. f[m] = Outside(d, r, << >>, cr, lf)
    BY <1>6
  <2> HIDE DEF i, r
  <2>3. Stands(text, m, w[i]) /\ n + off[i] = m + Len(w[i])
    <3>1. Stands(text, n + off[i - 1], w[i]) /\ off[i - 1] \in Nat /\ off[i] = off[i - 1] + Len(w[i])
          /\ Len(w[i]) \in Nat
      BY <1>5, <2>1
    <3>2. Stands(text, m, w[i])
      BY <2>1, <3>1
    <3>3. n + off[i] = m + Len(w[i])
      BY <1>4, <2>1, <3>1
    <3> QED
      BY <3>2, <3>3
  <2>4. w[i] = CellText(p, row, i)
    BY <1>1, <2>1
  <2> HIDE DEF m
  <2>5. /\ i < k => f[m + Len(CellText(p, row, i))] = Outside(d, Append(r, row[i]), << >>, cr, lf)
        /\ i = k => f[m + Len(CellText(p, row, i))] = Outside(d, r, Quoted(p, row[i]), cr, lf)
    <3>1. Stands(text, m, CellText(p, row, i))
      BY <2>3, <2>4
    <3> QED
      BY <2>1, <2>a, <3>1, <1>a DEF ThenRead
  <2> QED
    BY <2>2, <2>3, <2>4, <2>5 DEF i, r
<1> DEFINE T == {i \in 0..(k - 1) : f[n + off[i]] = Outside(d, front(i), << >>, cr, lf)}
<1>7. 0 \in T
  <2>1. n + off[0] = n /\ 0 \in 0..(k - 1)
    BY <1>1, <1>4
  <2>2. front(0) = << >>
    BY FrontBySteps
  <2> QED
    BY <2>1, <2>2
<1>8. ASSUME NEW j \in 0..((k - 1) - 1), j \in T PROVE j + 1 \in T
  <2>1. j \in 0..(k - 1) /\ j + 1 < k /\ j + 1 \in 0..(k - 1)
    BY <1>1
  <2>2. f[n + off[j]] = Outside(d, front(j), << >>, cr, lf)
    BY <1>8
  <2>3. f[n + off[j + 1]] = Outside(d, front(j + 1), << >>, cr, lf)
    BY <1>6, <2>1, <2>2
  <2> QED
    BY <2>1, <2>3
<1> HIDE DEF T
<1> DEFINE l == k - 1
<1>9. l \in Nat /\ l + 1 = k /\ l \in 0..l
  BY <1>1
<1>10. 0..l \subseteq T
  BY <1>7, <1>8, <1>9, InductionUpTo
<1>11. f[n + off[l]] = Outside(d, front(l), << >>, cr, lf)
  BY <1>9, <1>10 DEF T
<1>12. f[n + off[k]] = Outside(d, front(l), Quoted(p, row[k]), cr, lf)
  BY <1>6, <1>9, <1>11
<1> QED
  BY <1>4, <1>12 DEF CellsRead

RowRead(p, f, n, row, hasCR, d, cr, lf) ==
  f[n + Len(WriteRow(p, row, hasCR))]
    = Outside(Append(d, row), << >>, << >>, cr + Returns(hasCR), lf + 1)

LEMMA ReadsRow ==
  ASSUME NEW C, Marks \subseteq C, NEW p, IsParams(p), NEW text \in Seq(C), NEW f \in Parsings(p, C, text),
         NEW n, NEW row \in Seq(Seq(C)), WritableRow(p, row), NEW hasCR \in BOOLEAN,
         Stands(text, n, WriteRow(p, row, hasCR)),
         NEW d, NEW cr \in Nat, NEW lf, f[n] = Outside(d, << >>, << >>, cr, lf)
  PROVE  RowRead(p, f, n, row, hasCR, d, cr, lf)
<1> DEFINE str == WriteRow(p, row, hasCR)
           flat == FlattenSeq(CellTexts(p, row))
           end == LineEnd(hasCR)
           k == Len(row)
           r == SubSeq(row, 1, k - 1)
           cell == row[k]
           q == Quoted(p, cell)
           c == cr + Returns(hasCR)
           m == n + Len(flat)
<1>1. k \in Nat \ {0} /\ cell \in Seq(C) /\ Readable(p, cell) /\ QuoteChar \in C
  <2>1. k \in Nat \ {0} /\ k \in 1..k
    BY DEF WritableRow
  <2> QED
    BY <2>1 DEF WritableRow, Marks
<1>2. str = flat \o end /\ flat \in Seq(C) /\ end \in Seq(C)
  BY WriteRowIs
<1>3. Unquote(p, Trim(p, q)) = cell
  BY <1>1, QuotedIsCell
<1>4. Append(r, cell) = row
  <2> DEFINE j == k - 1
  <2>1. j \in 0..(k - 1) /\ j + 1 = k
    BY <1>1
  <2> HIDE DEF j
  <2>2. SubSeq(row, 1, j + 1) = Append(SubSeq(row, 1, j), row[j + 1]) /\ SubSeq(row, 1, k) = row
    BY <2>1, FrontBySteps
  <2> QED
    BY <2>1, <2>2 DEF j
<1>5. n \in Nat
  BY DEF Stands
<1>a. Stands(text, n, str)
  OBVIOUS
<1> HIDE DEF flat, end, str
<1>6. Stands(text, n, flat) /\ Stands(text, m, end) /\ n + Len(str) = m + Len(end)
  <2>1. Stands(text, n, flat \o end)
    BY <1>2, <1>a
  <2>2. ASSUME NEW a \in Seq(C), NEW b \in Seq(C), Stands(text, n, a \o b)
        PROVE  Stands(text, n, a) /\ Stands(text, n + Len(a), b) /\ Len(a \o b) = Len(a) + Len(b)
    BY <2>2, StandsBoth
  <2>3. Stands(text, n, flat) /\ Stands(text, n + Len(flat), end) /\ Len(flat \o end) = Len(flat) + Len(end)
    BY <1>2, <2>1, <2>2
  <2>4. Len(flat) \in Nat /\ Len(end) \in Nat
    BY <1>2
  <2> QED
    BY <1>2, <1>5, <2>3, <2>4
<1>7. f[m] = Outside(d, r, q, cr, lf)
  <2>1. flat = FlattenSeq(CellTexts(p, row))
    BY DEF flat
  <2>2. CellsRead(p, f, n, row, flat, d, cr, lf)
    BY <1>6, <2>1, ReadsCells
  <2> QED
    BY <2>2 DEF CellsRead
<1> HIDE DEF q, m, r, cell, k
<1>8. f[m + Len(end)] = EndLine(p, Outside(d, r, q, c, lf))
  BY <1>6, <1>7, ReadsLineEnd DEF end
<1>9. RowWith(p, r, q) = row
  BY <1>3, <1>4 DEF RowWith
<1>10. ~IsComment(p, row)
  BY DEF IsComment, WritableRow, NoCell
<1>11. ~(p.skipEmpty /\ r = << >> /\ q = << >>)
  <2> SUFFICES ASSUME p.skipEmpty, r = << >>, q = << >> PROVE FALSE
    OBVIOUS
  <2>1. cell = << >>
    <3>1. Trim(p, << >>) = << >> /\ Unquote(p, << >>) = << >>
      <4>1. << >> \in Seq(C) /\ p.trim \in BOOLEAN
        BY DEF IsParams
      <4>2. Trim(p, << >>) = << >>
        BY <4>1, TrimIs
      <4> QED
        BY <4>2 DEF Unquote
    <3> QED
      BY <1>3, <3>1
  <2>2. row = <<NoCell>>
    BY <1>4, <2>1 DEF NoCell
  <2> QED
    BY <2>2 DEF WritableRow
<1>12. EndLineDoes(p, d, r, q, FALSE, c, lf)
  BY EndLineIs
<1>13. EndLine(p, Outside(d, r, q, c, lf)) = Outside(Append(d, row), << >>, << >>, c, lf + 1)
  BY <1>9, <1>10, <1>11, <1>12, Zenon DEF EndLineDoes, Outside
<1>14. f[n + Len(str)] = Outside(Append(d, row), << >>, << >>, c, lf + 1)
  BY <1>6, <1>8, <1>13, Zenon
<1> QED
  BY <1>14, Zenon DEF RowRead, str

----------------------------------------------------------------------------
(* A table is read as it was written *)

\* How many "\r" there are in the lines of so many rows.
ReturnsOf(hasCR, r) == IF hasCR THEN r ELSE 0

LEMMA ReadsRows ==
  ASSUME NEW C, Marks \subseteq C, NEW p, IsParams(p), NEW data \in Seq(Seq(Seq(C))),
         \A r \in 1..Len(data) : WritableRow(p, data[r]), NEW hasCR \in BOOLEAN,
         NEW text, text = FlattenSeq(RowTexts(p, data, hasCR))
  PROVE  ParseCsv(p, text).data = data /\ (data # << >> => ParseCsv(p, text).hasCR = hasCR)
<1> DEFINE w == RowTexts(p, data, hasCR)
           k == Len(data)
           front(i) == SubSeq(data, 1, i)
           after(i) == Outside(front(i), << >>, << >>, ReturnsOf(hasCR, i), i)
<1>1. /\ w \in Seq(Seq(C)) /\ Len(w) = k /\ k \in Nat /\ text \in Seq(C)
      /\ \A r \in 1..k : w[r] = WriteRow(p, data[r], hasCR) /\ data[r] \in Seq(Seq(C))
  <2>1. /\ w \in Seq(Seq(C)) /\ Len(w) = k /\ FlattenSeq(w) \in Seq(C)
        /\ \A r \in 1..k : w[r] = WriteRow(p, data[r], hasCR)
    <3>1. IsRowTexts(C, p, data, hasCR, RowTexts(p, data, hasCR))
      BY RowTextsAre
    <3> QED
      BY <3>1, Zenon DEF IsRowTexts
  <2> QED
    BY <2>1
<1>2. text = FlattenSeq(w)
  OBVIOUS
<1> HIDE DEF w
<1>3. PICK f \in Parsings(p, C, text) :
        LET s == f[Len(text)]
        IN  ParseCsv(p, text) = [data |-> RowsOf(p, s), hasCR |-> s.cr > s.lf \div 2]
  BY <1>1, ParseUnfolds
<1>4. PICK off \in Offsets(w) : Laid(text, w, off)
  BY <1>1, <1>2, FlattenLayout
<1>5. off[0] = 0 /\ off[k] = Len(text) /\ Len(text) \in Nat
  BY <1>1, <1>4 DEF Offsets, Laid
<1>6. Stands(text, 0, text)
  <2>1. \A q \in 1..Len(text) : 0 + q = q
    OBVIOUS
  <2> QED
    BY <1>5, <2>1 DEF Stands
<1>7. ASSUME NEW i \in 1..k
      PROVE  Stands(text, off[i - 1], w[i]) /\ off[i] = off[i - 1] + Len(w[i])
  <2>1. Stands(text, 0 + off[i - 1], w[i]) /\ off[i - 1] \in Nat /\ off[i] = off[i - 1] + Len(w[i])
    <3>1. i \in 1..Len(w) /\ text \in Seq(C) /\ w \in Seq(Seq(C))
      BY <1>1
    <3> QED
      BY <3>1, <1>4, <1>6, StandsPieces
  <2>2. 0 + off[i - 1] = off[i - 1]
    BY <2>1
  <2> QED
    BY <2>1, <2>2
<1>8. f[0] = after(0)
  <2>1. front(0) = << >>
    BY FrontBySteps
  <2>2. NoRows = Outside(<< >>, << >>, << >>, 0, 0)
    BY DEF NoRows, Outside, St
  <2>3. ReturnsOf(hasCR, 0) = 0
    BY DEF ReturnsOf
  <2>4. f[0] = NoRows
    BY DEF Parsings
  <2> QED
    BY <2>1, <2>2, <2>3, <2>4
<1>a. ASSUME NEW row \in Seq(Seq(C)), WritableRow(p, row), NEW n,
             Stands(text, n, WriteRow(p, row, hasCR)), NEW d, NEW cr \in Nat, NEW lf,
             f[n] = Outside(d, << >>, << >>, cr, lf)
      PROVE  RowRead(p, f, n, row, hasCR, d, cr, lf)
  BY <1>1, <1>a, ReadsRow
<1>9. ASSUME NEW j \in 0..(k - 1), f[off[j]] = after(j) PROVE f[off[j + 1]] = after(j + 1)
  <2> DEFINE i == j + 1
             row == data[i]
             cr == ReturnsOf(hasCR, j)
             n == off[j]
             d == front(j)
  <2>1. i \in 1..k /\ i - 1 = j /\ j \in Nat
    BY <1>1
  <2>2. front(i) = Append(d, row)
    BY FrontBySteps
  <2>3. cr \in Nat /\ cr + Returns(hasCR) = ReturnsOf(hasCR, i)
    BY <2>1 DEF ReturnsOf, Returns
  <2>4. f[n] = Outside(d, << >>, << >>, cr, j)
    BY <1>9
  <2> HIDE DEF i, cr, d
  <2>5. row \in Seq(Seq(C)) /\ WritableRow(p, row) /\ w[i] = WriteRow(p, row, hasCR)
    BY <1>1, <2>1
  <2>6. Stands(text, n, w[i]) /\ off[i] = n + Len(w[i])
    BY <1>7, <2>1
  <2> HIDE DEF n, row
  <2>7. f[n + Len(WriteRow(p, row, hasCR))] = Outside(Append(d, row), << >>, << >>, cr + Returns(hasCR), j + 1)
    BY <1>a, <2>3, <2>4, <2>5, <2>6 DEF RowRead
  <2>8. f[off[i]] = Outside(front(i), << >>, << >>, ReturnsOf(hasCR, i), i)
    BY <2>2, <2>3, <2>5, <2>6, <2>7 DEF i
  <2> QED
    BY <2>8 DEF i
<1> DEFINE T == {i \in 0..k : f[off[i]] = after(i)}
<1>10. 0 \in T
  BY <1>1, <1>5, <1>8
<1>11. ASSUME NEW j \in 0..(k - 1), j \in T PROVE j + 1 \in T
  <2>1. j + 1 \in 0..k
    BY <1>1
  <2>2. f[off[j]] = after(j)
    BY <1>11
  <2>3. f[off[j + 1]] = after(j + 1)
    BY <1>9, <2>2
  <2> QED
    BY <2>1, <2>3
<1> HIDE DEF T
<1>12. 0..k \subseteq T
  BY <1>1, <1>10, <1>11, InductionUpTo
<1>13. f[Len(text)] = Outside(data, << >>, << >>, ReturnsOf(hasCR, k), k)
  <2>1. k \in 0..k
    BY <1>1
  <2>2. f[off[k]] = after(k)
    BY <1>12, <2>1 DEF T
  <2>3. front(k) = data
    BY FrontBySteps
  <2> QED
    BY <1>5, <2>2, <2>3
<1> DEFINE s == f[Len(text)]
<1>14. s.data = data /\ s.row = << >> /\ s.cell = << >> /\ s.cr = ReturnsOf(hasCR, k) /\ s.lf = k
  <2>1. ASSUME NEW q PROVE LET t == St(data, << >>, << >>, q, ReturnsOf(hasCR, k), k)
                           IN  t.data = data /\ t.row = << >> /\ t.cell = << >> /\ t.cr = ReturnsOf(hasCR, k) /\ t.lf = k
    BY StFields
  <2> QED
    BY <1>13, <2>1, Zenon DEF Outside
<1> HIDE DEF s
<1>15. ParseCsv(p, text).data = data
  BY <1>3, <1>14 DEF RowsOf, s
<1>16. ASSUME data # << >> PROVE ParseCsv(p, text).hasCR = hasCR
  <2>1. k # 0
    BY <1>16
  <2>2. ParseCsv(p, text).hasCR = (ReturnsOf(hasCR, k) > k \div 2)
    BY <1>3, <1>14 DEF s
  <2>3. k > k \div 2 /\ ~(0 > k \div 2)
    BY <1>1, <2>1
  <2>4. CASE hasCR
    BY <2>2, <2>3, <2>4 DEF ReturnsOf
  <2>5. CASE ~hasCR
    BY <2>2, <2>3, <2>5 DEF ReturnsOf
  <2> QED
    BY <2>4, <2>5
<1> QED
  BY <1>15, <1>16

\* A text does not begin with the mark of an encoding if the first cell does not.
LEMMA NotMarked ==
  ASSUME NEW C, Marks \subseteq C, NEW p, NEW row \in Seq(Seq(C)), row # << >>,
         row[1] # NoCell => row[1][1] # BOM, NEW hasCR \in BOOLEAN
  PROVE  WriteRow(p, row, hasCR) # << >> /\ WriteRow(p, row, hasCR)[1] # BOM
<1> DEFINE w == CellTexts(p, row)
           flat == FlattenSeq(w)
           end == LineEnd(hasCR)
           t == WriteRow(p, row, hasCR)
           k == Len(row)
           q == Quoted(p, row[1])
           o == IF 1 < k THEN <<Separator>> ELSE << >>
           v == w[1]
<1>0. QuoteChar \in C /\ Separator \in C /\ Separator # BOM /\ QuoteChar # BOM /\ "\r" # BOM /\ "\n" # BOM
  BY DEF Marks, Separator, QuoteChar, BOM
<1>1. k \in Nat \ {0} /\ 1 \in 1..k /\ row[1] \in Seq(C)
  OBVIOUS
<1>2. w \in Seq(Seq(C)) /\ Len(w) = k /\ v = CellText(p, row, 1)
  BY <1>1, CellTextsType
<1>3. t = flat \o end /\ flat \in Seq(C) /\ end \in Seq(C)
  BY WriteRowIs
<1>4. end # << >> /\ end[1] # BOM
  BY <1>0 DEF LineEnd
<1>5. q \in Seq(C) /\ (q # << >> => q[1] # BOM)
  <2> DEFINE cell == row[1]
  <2>1. Quoted(p, cell) \in Seq(C)
    BY <1>1, QuotedType
  <2>2. CASE NeedsQuotes(p, cell)
    <3>1. Quoted(p, cell) = Enquoted(cell)
      BY <2>2 DEF Quoted, NeedsQuotes, Enquoted
    <3>2. Enquoted(cell)[1] = QuoteChar
      <4>1. Escaped(cell) \in Seq(C)
        BY <1>1, EscapedIs
      <4> QED
        BY <1>0, <4>1, Enclosed DEF Enquoted
    <3> QED
      BY <1>0, <2>1, <3>1, <3>2
  <2>3. CASE ~NeedsQuotes(p, cell)
    <3>1. Quoted(p, cell) = cell
      BY <2>3 DEF Quoted, NeedsQuotes
    <3> QED
      BY <2>1, <3>1 DEF NoCell
  <2> QED
    BY <2>2, <2>3
<1>6. o \in Seq(C) /\ (o # << >> => o[1] # BOM) /\ (1 < k => o # << >>)
  BY <1>0, OneAndTwo
<1>7. v = q \o o
  BY <1>2 DEF CellText
<1>8. PICK off \in Offsets(w) : Laid(flat, w, off)
  BY <1>2, FlattenLayout
<1>9. /\ off[0] = 0 /\ off[1] = off[0] + Len(v) /\ off[k] = Len(flat)
      /\ off[1] <= Len(flat) /\ \A j \in 1..Len(v) : flat[off[0] + j] = v[j]
  <2>1. off[0] = 0 /\ \A i \in 1..k : off[i] = off[i - 1] + Len(w[i])
    BY <1>2, <1>8 DEF Offsets
  <2>2. off[k] = Len(flat) /\ \A i \in 1..k : off[i] <= Len(flat) /\ \A j \in 1..Len(w[i]) : flat[off[i - 1] + j] = w[i][j]
    BY <1>2, <1>8 DEF Laid
  <2>3. 1 - 1 = 0
    OBVIOUS
  <2> QED
    BY <1>1, <2>1, <2>2, <2>3
<1> HIDE DEF w, flat, end, t, k, q, o, v
<1>10. v \in Seq(C) /\ (v # << >> => v[1] # BOM) /\ (v = << >> => k = 1)
  <2>1. Concatenates(v, q, o) /\ v \in Seq(C)
    BY <1>5, <1>6, <1>7, Concatenation
  <2>2. Len(v) = Len(q) + Len(o) /\ (\A i \in 1..Len(q) : v[i] = q[i]) /\ \A i \in 1..Len(o) : v[Len(q) + i] = o[i]
    BY <2>1 DEF Concatenates
  <2>3. CASE q # << >>
    <3>1. Len(q) \in Nat \ {0} /\ Len(o) \in Nat
      BY <1>5, <1>6, <2>3
    <3>2. 1 \in 1..Len(q)
      BY <3>1
    <3>3. v[1] = q[1]
      BY <2>2, <3>2
    <3>4. Len(v) # 0
      BY <2>2, <3>1
    <3> QED
      BY <1>5, <2>1, <2>3, <3>3, <3>4
  <2>4. CASE q = << >>
    <3>1. v = o
      BY <1>6, <1>7, <2>4
    <3> QED
      BY <1>1, <1>6, <3>1
  <2> QED
    BY <2>3, <2>4
<1>11. flat # << >> => flat[1] # BOM
  <2>1. CASE v # << >>
    <3>1. 1 \in 1..Len(v) /\ 0 + 1 = 1
      BY <1>10, <2>1
    <3>2. flat[1] = v[1]
      BY <1>9, <3>1
    <3> QED
      BY <1>10, <2>1, <3>2
  <2>2. CASE v = << >>
    <3>1. k = 1 /\ Len(v) = 0
      BY <1>10, <2>2
    <3>2. Len(flat) = 0
      BY <1>9, <3>1
    <3> QED
      BY <1>3, <3>2
  <2> QED
    BY <2>1, <2>2
<1>12. Concatenates(t, flat, end) /\ t \in Seq(C)
  BY <1>3, Concatenation
<1>13. Len(t) = Len(flat) + Len(end) /\ (\A i \in 1..Len(flat) : t[i] = flat[i])
       /\ \A i \in 1..Len(end) : t[Len(flat) + i] = end[i]
  BY <1>12 DEF Concatenates
<1>14. CASE flat # << >>
  <2>1. Len(flat) \in Nat \ {0} /\ Len(end) \in Nat
    BY <1>3, <1>14
  <2>2. 1 \in 1..Len(flat) /\ Len(t) # 0
    BY <1>13, <2>1
  <2>3. t[1] = flat[1] /\ t # << >>
    BY <1>12, <1>13, <2>2
  <2> QED
    BY <1>11, <1>14, <2>3 DEF t
<1>15. CASE flat = << >>
  <2>1. t = end
    BY <1>3, <1>15
  <2> QED
    BY <1>4, <2>1 DEF t
<1> QED
  BY <1>14, <1>15

LEMMA AfterOne ==
  ASSUME NEW C, NEW x \in C, NEW s \in Seq(C)
  PROVE  <<x>> \o s # << >> /\ (<<x>> \o s)[1] = x /\ Tail(<<x>> \o s) = s
<1> DEFINE o == <<x>>
           t == o \o s
           b == Tail(t)
<1>1. o \in Seq(C) /\ Len(o) = 1 /\ o[1] = x
  BY OneAndTwo
<1> HIDE DEF o
<1>2. t \in Seq(C) /\ Concatenates(t, o, s)
  BY <1>1, Concatenation
<1> HIDE DEF t
<1>3. Len(t) = 1 + Len(s) /\ Len(s) \in Nat /\ (\A i \in 1..1 : t[i] = o[i]) /\ \A i \in 1..Len(s) : t[1 + i] = s[i]
  BY <1>1, <1>2 DEF Concatenates
<1>4. t # << >> /\ t[1] = x
  BY <1>1, <1>2, <1>3
<1>5. b \in Seq(C) /\ Len(b) = Len(t) - 1 /\ \A i \in 1..(Len(t) - 1) : b[i] = t[i + 1]
  BY <1>2, <1>4
<1> HIDE DEF b
<1>6. Len(b) = Len(s) /\ \A i \in 1..Len(s) : b[i] = s[i]
  <2>1. Len(t) - 1 = Len(s) /\ \A i \in 1..Len(s) : 1 + i = i + 1
    BY <1>3
  <2> QED
    BY <1>3, <1>5, <2>1
<1>7. b = s
  BY <1>5, <1>6
<1> QED
  BY <1>4, <1>7 DEF o, t, b

\* What Writable says of a table, and of the mark at the beginning of the text.
WritableTable(p, data, hasBOM) ==
  /\ \A r \in 1..Len(data) : WritableRow(p, data[r])
  /\ data # << >> /\ ~hasBOM /\ data[1][1] # NoCell => data[1][1][1] # BOM

LEMMA WrittenIsRead ==
  ASSUME NEW C, Marks \subseteq C, NEW p, IsParams(p), NEW data \in Seq(Seq(Seq(C))), NEW hasCR \in BOOLEAN,
         NEW hasBOM \in BOOLEAN, WritableTable(p, data, hasBOM)
  PROVE  LET again == ReadCsv(p, WriteCsv(p, data, hasCR, hasBOM))
         IN  again.data = data /\ again.hasBOM = hasBOM /\ (data # << >> => again.hasCR = hasCR)
<1> DEFINE flat == FlattenSeq(RowTexts(p, data, hasCR))
           text == WriteCsv(p, data, hasCR, hasBOM)
           marked == text # << >> /\ text[1] = BOM
<1>1. flat \in Seq(C)
  BY RowTextsAre DEF IsRowTexts
<1>2. text = (IF hasBOM THEN <<BOM>> ELSE << >>) \o flat
  BY DEF WriteCsv, RowTexts
<1>a. /\ ReadCsv(p, text).data = ParseCsv(p, IF marked THEN Tail(text) ELSE text).data
      /\ ReadCsv(p, text).hasCR = ParseCsv(p, IF marked THEN Tail(text) ELSE text).hasCR
      /\ ReadCsv(p, text).hasBOM = marked
  <2> DEFINE t == IF marked THEN Tail(text) ELSE text
  <2>1. ReadCsv(p, text) = [data |-> ParseCsv(p, t).data, hasCR |-> ParseCsv(p, t).hasCR, hasBOM |-> marked]
    BY DEF ReadCsv
  <2> HIDE DEF t, marked
  <2>2. /\ ReadCsv(p, text).data = ParseCsv(p, t).data
        /\ ReadCsv(p, text).hasCR = ParseCsv(p, t).hasCR
        /\ ReadCsv(p, text).hasBOM = marked
    BY <2>1
  <2> QED
    BY <2>2 DEF t
<1>3. ParseCsv(p, flat).data = data /\ (data # << >> => ParseCsv(p, flat).hasCR = hasCR)
  <2> DEFINE t == flat
  <2>1. t = FlattenSeq(RowTexts(p, data, hasCR))
    OBVIOUS
  <2> HIDE DEF t
  <2>2. ParseCsv(p, t).data = data /\ (data # << >> => ParseCsv(p, t).hasCR = hasCR)
    BY <2>1, ReadsRows DEF WritableTable
  <2> QED
    BY <2>2 DEF t
<1>4. ASSUME ~hasBOM, flat # << >> PROVE flat[1] # BOM
  <2> DEFINE w == RowTexts(p, data, hasCR)
  <2>1. IsRowTexts(C, p, data, hasCR, w)
    BY RowTextsAre
  <2>2. w \in Seq(Seq(C)) /\ Len(w) = Len(data) /\ \A r \in 1..Len(data) : w[r] = WriteRow(p, data[r], hasCR)
    BY <2>1 DEF IsRowTexts
  <2> HIDE DEF w
  <2>3. PICK off \in Offsets(w) : Laid(flat, w, off)
    BY <2>2, FlattenLayout DEF w
  <2>4. /\ off[0] = 0 /\ off[Len(w)] = Len(flat)
        /\ \A i \in 1..Len(w) : \A j \in 1..Len(w[i]) : flat[off[i - 1] + j] = w[i][j]
    BY <2>3 DEF Offsets, Laid
  <2>5. data # << >>
    <3> SUFFICES ASSUME data = << >> PROVE FALSE
      OBVIOUS
    <3>1. Len(flat) = 0
      BY <2>2, <2>4
    <3> QED
      BY <1>1, <1>4, <3>1
  <2>6. 1 \in 1..Len(data) /\ 1 - 1 = 0
    BY <2>5
  <2>7. w[1] # << >> /\ w[1][1] # BOM
    <3> DEFINE row == data[1]
    <3>1. row \in Seq(Seq(C)) /\ row # << >> /\ (row[1] # NoCell => row[1][1] # BOM)
      BY <1>4, <2>5, <2>6 DEF WritableTable, WritableRow
    <3> HIDE DEF row
    <3>2. WriteRow(p, row, hasCR) # << >> /\ WriteRow(p, row, hasCR)[1] # BOM
      BY <3>1, NotMarked
    <3> QED
      BY <2>2, <2>6, <3>2 DEF row
  <2>8. 1 \in 1..Len(w[1]) /\ 0 + 1 = 1
    <3>1. w[1] \in Seq(C)
      BY <2>2, <2>6
    <3> QED
      BY <2>7, <3>1
  <2>9. flat[1] = w[1][1]
    BY <2>2, <2>4, <2>6, <2>8
  <2> QED
    BY <2>7, <2>9
<1> HIDE DEF flat, text
<1>5. CASE hasBOM
  <2>1. text = <<BOM>> \o flat
    BY <1>2, <1>5
  <2>2. BOM \in C
    BY DEF Marks
  <2>3. text # << >> /\ text[1] = BOM /\ Tail(text) = flat
    BY <1>1, <2>1, <2>2, AfterOne
  <2>4. marked = hasBOM /\ (IF marked THEN Tail(text) ELSE text) = flat
    BY <1>5, <2>3
  <2> HIDE DEF marked
  <2> QED
    BY <1>3, <1>a, <2>4, Zenon DEF text
<1>6. CASE ~hasBOM
  <2>1. text = flat
    BY <1>1, <1>2, <1>6
  <2>2. ~(text # << >> /\ text[1] = BOM)
    BY <1>4, <1>6, <2>1
  <2>3. marked = hasBOM /\ (IF marked THEN Tail(text) ELSE text) = flat
    BY <1>6, <2>1, <2>2
  <2> HIDE DEF marked
  <2> QED
    BY <1>3, <1>a, <2>3, Zenon DEF text
<1> QED
  BY <1>5, <1>6

----------------------------------------------------------------------------
(* What the operators on tables do *)

Table(C) == Seq(Seq(Seq(C)))

\* x is what is at row r and column c, counted from 0.
Holds(data, r, c, x) == Inside(data, r, c) /\ data[r + 1][c + 1] = x

\* A label is the index of a row or a column, or -1.
IsLabels(l) == l.column \in Nat \union {-1} /\ l.row \in Nat \union {-1}

LEMMA LargerOf ==
  ASSUME NEW a \in Int, NEW b \in Int
  PROVE  Max({a, b}) = IF a >= b THEN a ELSE b
<1> DEFINE m == IF a >= b THEN a ELSE b
<1>1. m \in {a, b} /\ \A y \in {a, b} : m >= y
  OBVIOUS
<1>2. \A x \in {a, b} : (\A y \in {a, b} : x >= y) => x = m
  OBVIOUS
<1> HIDE DEF m
<1>3. Max({a, b}) \in {a, b} /\ \A y \in {a, b} : Max({a, b}) >= y
  BY <1>1 DEF Max
<1>4. Max({a, b}) = m
  BY <1>2, <1>3
<1> QED
  BY <1>4 DEF m

LEMMA TableIs ==
  ASSUME NEW C, NEW data \in Table(C)
  PROVE  /\ Len(data) \in Nat /\ DOMAIN data = 1..Len(data)
         /\ \A r \in 1..Len(data) :
              data[r] \in Seq(Seq(C)) /\ Len(data[r]) \in Nat /\ DOMAIN data[r] = 1..Len(data[r])
         /\ \A r \in 1..Len(data) : \A c \in 1..Len(data[r]) : data[r][c] \in Seq(C)
  BY DEF Table

LEMMA ColumnCountIs ==
  ASSUME NEW C, NEW data \in Table(C), NEW l, IsLabels(l)
  PROVE  /\ ColumnCount(data, l) \in Nat
         /\ l.column \in Nat /\ l.column < Len(data) => ColumnCount(data, l) = Len(data[l.column + 1])
<1> DEFINE m == Max({l.column, 0})
<1>1. l.column \in Int /\ m = IF l.column >= 0 THEN l.column ELSE 0
  <2>1. l.column \in Int
    BY DEF IsLabels
  <2> QED
    BY <2>1, LargerOf
<1>2. m \in Nat /\ (l.column \in Nat => m = l.column)
  BY <1>1
<1>3. ColumnCount(data, l) = IF Len(data) > m THEN Len(data[m + 1]) ELSE 0
  BY DEF ColumnCount
<1> HIDE DEF m
<1>4. Len(data) \in Nat /\ \A r \in 1..Len(data) : Len(data[r]) \in Nat
  BY TableIs
<1> QED
  BY <1>2, <1>3, <1>4

LEMMA ResizedIs ==
  ASSUME NEW C, NEW row \in Seq(Seq(C)), NEW size \in Nat
  PROVE  /\ Resized(row, size) \in Seq(Seq(C)) /\ Len(Resized(row, size)) = size
         /\ \A c \in 1..size : Resized(row, size)[c] = IF c <= Len(row) THEN row[c] ELSE NoCell
<1> DEFINE S == Seq(C)
           w == Resized(row, size)
<1>1. \A c \in 1..size : (c <= Len(row) => row[c] \in S) /\ NoCell \in S
  BY DEF NoCell
<1>2. w = [c \in 1..size |-> w[c]] /\ \A c \in 1..size : w[c] = IF c <= Len(row) THEN row[c] ELSE NoCell
  BY DEF Resized
<1>3. \A c \in 1..size : w[c] \in S
  BY <1>1, <1>2
<1> HIDE DEF S, w
<1>4. w \in Seq(S) /\ Len(w) = size
  BY <1>2, <1>3, FunctionIsSeq
<1> QED
  BY <1>2, <1>4 DEF S, w

\* The rows that were there, and after them such of no cells.
IsGrown(C, data, rows, width, grown) ==
  /\ grown \in Table(C) /\ Len(grown) = IF rows > Len(data) THEN rows ELSE Len(data)
  /\ \A r \in 1..Len(data) : grown[r] = data[r]
  /\ \A r \in (Len(data) + 1)..Len(grown) : grown[r] = Resized(<< >>, width)

LEMMA GrownIs ==
  ASSUME NEW C, NEW data \in Table(C), NEW rows \in Int, NEW width \in Nat
  PROVE  IsGrown(C, data, rows, width, Grown(data, rows, width))
<1> DEFINE k == Len(data)
           m == Max({rows - k, 0})
           S == Seq(Seq(C))
           row == Resized(<< >>, width)
           more == [r \in 1..m |-> row]
           grown == data \o more
<1>1. k \in Nat /\ data \in Seq(S)
  BY TableIs DEF Table
<1>2. m \in Nat /\ m = IF rows > k THEN rows - k ELSE 0
  <2>1. rows - k \in Int /\ 0 \in Int
    BY <1>1
  <2>2. m = IF rows - k >= 0 THEN rows - k ELSE 0
    BY <2>1, LargerOf
  <2> QED
    BY <1>1, <2>2
<1>3. row \in S
  <2>1. << >> \in Seq(Seq(C))
    OBVIOUS
  <2> QED
    BY <2>1, ResizedIs
<1> HIDE DEF m, S, row
<1>4. more \in Seq(S) /\ Len(more) = m /\ \A r \in 1..m : more[r] = row
  <2>1. more = [r \in 1..m |-> more[r]] /\ \A r \in 1..m : more[r] \in S /\ more[r] = row
    BY <1>3
  <2> HIDE DEF more
  <2> QED
    BY <1>2, <2>1, FunctionIsSeq
<1> HIDE DEF more
<1>5. grown \in Seq(S) /\ Concatenates(grown, data, more)
  BY <1>1, <1>4, Concatenation
<1>6. Grown(data, rows, width) = grown
  BY DEF Grown, more, m, row
<1> HIDE DEF grown
<1>7. Len(grown) = k + m /\ (\A r \in 1..k : grown[r] = data[r]) /\ \A r \in 1..m : grown[k + r] = row
  BY <1>4, <1>5 DEF Concatenates
<1>8. Len(grown) = IF rows > k THEN rows ELSE k
  BY <1>1, <1>2, <1>7
<1>9. ASSUME NEW r \in (k + 1)..Len(grown) PROVE grown[r] = row
  <2>1. r - k \in 1..m /\ k + (r - k) = r
    BY <1>1, <1>2, <1>7
  <2> QED
    BY <1>7, <2>1
<1> QED
  BY <1>5, <1>6, <1>7, <1>8, <1>9 DEF IsGrown, Table, S, row

LEMMA GrownHolds ==
  ASSUME NEW C, NEW data \in Table(C), NEW rows \in Int, NEW width \in Nat,
         NEW r \in Nat, NEW c, NEW x, Holds(data, r, c, x)
  PROVE  Holds(Grown(data, rows, width), r, c, x)
<1> DEFINE grown == Grown(data, rows, width)
<1>1. IsGrown(C, data, rows, width, grown) /\ Len(data) \in Nat
  BY GrownIs, TableIs
<1> HIDE DEF grown
<1>2. Len(grown) >= Len(data) /\ \A q \in 1..Len(data) : grown[q] = data[q]
  BY <1>1 DEF IsGrown
<1>3. r < Len(data) /\ c < Len(data[r + 1]) /\ data[r + 1][c + 1] = x
  BY DEF Holds, Inside
<1>4. r + 1 \in 1..Len(data) /\ r < Len(grown)
  <2>1. Len(grown) \in Nat
    BY <1>1, TableIs DEF IsGrown
  <2> QED
    BY <1>1, <1>2, <1>3, <2>1
<1>5. grown[r + 1] = data[r + 1]
  BY <1>2, <1>4
<1> QED
  BY <1>3, <1>4, <1>5 DEF Holds, Inside, grown

LEMMA WidenedIs ==
  ASSUME NEW C, NEW data \in Table(C), NEW width \in Nat
  PROVE  /\ Widened(data, width) \in Table(C) /\ Len(Widened(data, width)) = Len(data)
         /\ \A r \in 1..Len(data) : Widened(data, width)[r] =
              IF r - 1 >= mLabelParams.column THEN Resized(data[r], width) ELSE data[r]
<1> DEFINE k == Len(data)
           S == Seq(Seq(C))
           w == Widened(data, width)
<1>1. k \in Nat /\ DOMAIN data = 1..k /\ \A r \in 1..k : data[r] \in S
  BY TableIs
<1>2. \A r \in 1..k : Resized(data[r], width) \in S
  BY <1>1, ResizedIs
<1>3. w = [r \in 1..k |-> w[r]]
      /\ \A r \in 1..k : w[r] = IF r - 1 >= mLabelParams.column THEN Resized(data[r], width) ELSE data[r]
  BY <1>1 DEF Widened
<1>4. \A r \in 1..k : w[r] \in S
  BY <1>1, <1>2, <1>3
<1> HIDE DEF k, S, w
<1>5. w \in Seq(S) /\ Len(w) = k
  BY <1>1, <1>3, <1>4, FunctionIsSeq
<1> QED
  BY <1>3, <1>5 DEF k, S, w, Table

LEMMA WidenedHolds ==
  ASSUME NEW C, NEW data \in Table(C), NEW width \in Nat, NEW r \in Nat, NEW c \in Nat, NEW x,
         Holds(data, r, c, x), c < width
  PROVE  Holds(Widened(data, width), r, c, x)
<1> DEFINE w == Widened(data, width)
           row == data[r + 1]
<1>1. Len(w) = Len(data) /\ \A q \in 1..Len(data) : w[q] =
        IF q - 1 >= mLabelParams.column THEN Resized(data[q], width) ELSE data[q]
  BY WidenedIs
<1>2. r < Len(data) /\ c < Len(row) /\ row[c + 1] = x
  BY DEF Holds, Inside
<1>3. r + 1 \in 1..Len(data) /\ row \in Seq(Seq(C)) /\ Len(row) \in Nat
  <2>1. Len(data) \in Nat
    BY TableIs
  <2>2. r + 1 \in 1..Len(data)
    BY <1>2, <2>1
  <2> QED
    BY <2>2, TableIs
<1>4. w[r + 1] = row \/ w[r + 1] = Resized(row, width)
  BY <1>1, <1>3
<1> HIDE DEF w, row
<1>5. Len(Resized(row, width)) = width /\ Resized(row, width)[c + 1] = x
  <2>1. c + 1 \in 1..width /\ c + 1 <= Len(row)
    BY <1>2, <1>3
  <2> QED
    BY <1>2, <1>3, <2>1, ResizedIs
<1> QED
  BY <1>1, <1>2, <1>4, <1>5 DEF Holds, Inside, w, row

\* One more at place i, what was there and after it moved on.
IsInserted(s, i, x, t) ==
  /\ Len(t) = Len(s) + 1 /\ t[i] = x
  /\ \A q \in 1..(i - 1) : t[q] = s[q]
  /\ \A q \in i..Len(s) : t[q + 1] = s[q]

LEMMA InsertAtIs ==
  ASSUME NEW S, NEW s \in Seq(S), NEW i \in 1..(Len(s) + 1), NEW x \in S
  PROVE  InsertAt(s, i, x) \in Seq(S) /\ IsInserted(s, i, x, InsertAt(s, i, x))
<1> DEFINE a == SubSeq(s, 1, i - 1)
           o == <<x>>
           b == SubSeq(s, i, Len(s))
           ao == a \o o
           t == ao \o b
           k == Len(s)
<1>0. k \in Nat /\ i \in Nat \ {0} /\ i <= k + 1
  OBVIOUS
<1>1. a \in Seq(S) /\ IsPiece(a, s, 1, i - 1)
  <2> DEFINE n == i - 1
  <2>1. n \in Nat /\ n <= Len(s) /\ 1 <= n + 1
    BY <1>0
  <2> HIDE DEF n
  <2>2. SubSeq(s, 1, n) \in Seq(S) /\ IsPiece(SubSeq(s, 1, n), s, 1, n)
    BY <2>1, Piece
  <2> QED
    BY <2>2 DEF n
<1>2. b \in Seq(S) /\ IsPiece(b, s, i, k)
  BY <1>0, Piece
<1>3. o \in Seq(S) /\ Len(o) = 1 /\ o[1] = x
  BY OneAndTwo
<1> HIDE DEF a, o, b
<1>4. ao \in Seq(S) /\ Concatenates(ao, a, o)
  BY <1>1, <1>3, Concatenation
<1> HIDE DEF ao
<1>5. t \in Seq(S) /\ Concatenates(t, ao, b)
  BY <1>2, <1>4, Concatenation
<1>6. InsertAt(s, i, x) = t
  BY DEF InsertAt, ao, a, o, b
<1> HIDE DEF t, k
<1>7. Len(a) = i - 1 /\ \A q \in 1..(i - 1) : a[q] = s[q]
  BY <1>0, <1>1 DEF IsPiece
<1>8. Len(b) = (k - i) + 1 /\ \A q \in 1..((k - i) + 1) : b[q] = s[q + (i - 1)]
  BY <1>0, <1>2 DEF IsPiece, k
<1>9. Len(ao) = i /\ (\A q \in 1..(i - 1) : ao[q] = s[q]) /\ ao[i] = x
  <2>1. Len(ao) = (i - 1) + 1 /\ (\A q \in 1..(i - 1) : ao[q] = a[q]) /\ \A q \in 1..1 : ao[(i - 1) + q] = o[q]
    BY <1>3, <1>4, <1>7 DEF Concatenates
  <2>2. (i - 1) + 1 = i /\ 1 \in 1..1
    BY <1>0
  <2> QED
    BY <1>3, <1>7, <2>1, <2>2
<1>10. Len(t) = i + Len(b) /\ (\A q \in 1..i : t[q] = ao[q]) /\ \A q \in 1..Len(b) : t[i + q] = b[q]
  BY <1>5, <1>9 DEF Concatenates
<1>11. Len(t) = k + 1 /\ t[i] = x /\ \A q \in 1..(i - 1) : t[q] = s[q]
  <2>1. i \in 1..i /\ \A q \in 1..(i - 1) : q \in 1..i
    BY <1>0
  <2> QED
    BY <1>0, <1>8, <1>9, <1>10, <2>1
<1>12. ASSUME NEW q \in i..k PROVE t[q + 1] = s[q]
  <2> DEFINE j == (q - i) + 1
  <2>1. j \in 1..((k - i) + 1) /\ i + j = q + 1 /\ j + (i - 1) = q
    BY <1>0
  <2> HIDE DEF j
  <2>2. t[i + j] = b[j] /\ b[j] = s[j + (i - 1)]
    BY <1>8, <1>10, <2>1
  <2> QED
    BY <2>1, <2>2
<1> QED
  BY <1>5, <1>6, <1>11, <1>12 DEF IsInserted, k

\* That of place i is gone, what was after it moved back.
IsRemoved(s, i, t) ==
  /\ Len(t) = Len(s) - 1
  /\ \A q \in 1..(i - 1) : t[q] = s[q]
  /\ \A q \in (i + 1)..Len(s) : t[q - 1] = s[q]

LEMMA RemoveAtIs ==
  ASSUME NEW S, NEW s \in Seq(S), NEW i \in 1..Len(s)
  PROVE  RemoveAt(s, i) \in Seq(S) /\ IsRemoved(s, i, RemoveAt(s, i))
<1> DEFINE a == SubSeq(s, 1, i - 1)
           b == SubSeq(s, i + 1, Len(s))
           t == a \o b
           k == Len(s)
<1>0. k \in Nat /\ i \in Nat \ {0} /\ i <= k
  OBVIOUS
<1>1. a \in Seq(S) /\ IsPiece(a, s, 1, i - 1)
  <2> DEFINE n == i - 1
  <2>1. n \in Nat /\ n <= Len(s) /\ 1 <= n + 1
    BY <1>0
  <2> HIDE DEF n
  <2>2. SubSeq(s, 1, n) \in Seq(S) /\ IsPiece(SubSeq(s, 1, n), s, 1, n)
    BY <2>1, Piece
  <2> QED
    BY <2>2 DEF n
<1>2. b \in Seq(S) /\ IsPiece(b, s, i + 1, k)
  <2> DEFINE m == i + 1
  <2>1. m \in Nat \ {0} /\ m <= k + 1
    BY <1>0
  <2> HIDE DEF m
  <2>2. SubSeq(s, m, k) \in Seq(S) /\ IsPiece(SubSeq(s, m, k), s, m, k)
    BY <1>0, <2>1, Piece
  <2> QED
    BY <2>2 DEF m
<1> HIDE DEF a, b
<1>3. t \in Seq(S) /\ Concatenates(t, a, b)
  BY <1>1, <1>2, Concatenation
<1>4. RemoveAt(s, i) = t
  BY DEF RemoveAt, a, b
<1> HIDE DEF t, k
<1>5. Len(a) = i - 1 /\ \A q \in 1..(i - 1) : a[q] = s[q]
  BY <1>0, <1>1 DEF IsPiece
<1>6. Len(b) = k - i /\ \A q \in 1..(k - i) : b[q] = s[q + i]
  <2>1. Len(b) = (k - (i + 1)) + 1 /\ \A q \in 1..((k - (i + 1)) + 1) : b[q] = s[q + ((i + 1) - 1)]
    BY <1>0, <1>2 DEF IsPiece, k
  <2>2. (k - (i + 1)) + 1 = k - i /\ (i + 1) - 1 = i
    BY <1>0
  <2> QED
    BY <2>1, <2>2
<1>7. Len(t) = (i - 1) + (k - i) /\ (\A q \in 1..(i - 1) : t[q] = a[q]) /\ \A q \in 1..(k - i) : t[(i - 1) + q] = b[q]
  BY <1>3, <1>5, <1>6 DEF Concatenates
<1>8. Len(t) = k - 1 /\ \A q \in 1..(i - 1) : t[q] = s[q]
  BY <1>0, <1>5, <1>7
<1>9. ASSUME NEW q \in (i + 1)..k PROVE t[q - 1] = s[q]
  <2> DEFINE j == q - i
  <2>1. j \in 1..(k - i) /\ (i - 1) + j = q - 1 /\ j + i = q
    BY <1>0
  <2> HIDE DEF j
  <2>2. t[(i - 1) + j] = b[j] /\ b[j] = s[j + i]
    BY <1>6, <1>7, <2>1
  <2> QED
    BY <2>1, <2>2
<1> QED
  BY <1>3, <1>4, <1>8, <1>9 DEF IsRemoved, k

\* Some of the rows from that of the column names on are new, all of them if nothing went wrong.
IsRowByRow(C, data, bad, newRow, result) ==
  /\ result.data \in Table(C) /\ Len(result.data) = Len(data)
  /\ \A r \in 1..Len(data) :
       \/ result.data[r] = data[r]
       \/ r - 1 >= mLabelParams.column /\ bad[r] = "ok" /\ result.data[r] = newRow[r]
  /\ \A r \in 1..Len(data) : ~(r - 1 >= mLabelParams.column) => result.data[r] = data[r]
  /\ result.outcome = "ok" =>
       \A r \in 1..Len(data) : r - 1 >= mLabelParams.column => bad[r] = "ok" /\ result.data[r] = newRow[r]
  /\ result.outcome # "ok" =>
       \E r \in 1..Len(data) : r - 1 >= mLabelParams.column /\ bad[r] # "ok" /\ result.outcome = bad[r]

LEMMA RowByRowIs ==
  ASSUME NEW C, NEW data \in Table(C), NEW bad, NEW newRow,
         \A r \in 1..Len(data) : bad[r] = "ok" => newRow[r] \in Seq(Seq(C))
  PROVE  IsRowByRow(C, data, bad, newRow, RowByRow(data, bad, newRow))
<1> DEFINE k == Len(data)
           touched == {r \in DOMAIN data : r - 1 >= mLabelParams.column}
           wrong == {r \in touched : bad[r] # "ok"} \union {k + 1}
           stop == Min(wrong)
           w == [r \in DOMAIN data |-> IF r \in touched /\ r < stop THEN newRow[r] ELSE data[r]]
           S == Seq(Seq(C))
           o == IF stop > k THEN "ok" ELSE bad[stop]
           result == RowByRow(data, bad, newRow)
<1>1. k \in Nat /\ DOMAIN data = 1..k /\ \A r \in 1..k : data[r] \in S
  BY TableIs
<1>2. \A r \in 1..k : r \in touched <=> r - 1 >= mLabelParams.column
  BY <1>1
<1>3. touched \subseteq 1..k /\ wrong \subseteq 1..(k + 1) /\ k + 1 \in wrong
      /\ \A r \in touched : bad[r] # "ok" => r \in wrong
  BY <1>1
<1>a. \A r \in wrong : r = k + 1 \/ (r \in touched /\ bad[r] # "ok")
  OBVIOUS
<1>4. result.data = w /\ result.outcome = o
  <2>1. result = [data |-> w, outcome |-> o]
    BY DEF RowByRow
  <2> HIDE DEF w, o, result
  <2> QED
    BY <2>1
<1> HIDE DEF touched, wrong, result
<1>5. stop \in wrong /\ \A r \in wrong : stop <= r
  <2>1. wrong \in SUBSET Nat /\ wrong # {}
    BY <1>1, <1>3
  <2> QED
    BY <2>1, LeastOf
<1> HIDE DEF stop
<1>6. stop \in 1..(k + 1)
  BY <1>3, <1>5
<1>7. \A r \in touched : r < stop => bad[r] = "ok"
  BY <1>3, <1>5, <1>6
<1>8. w = [r \in 1..k |-> w[r]]
      /\ \A r \in 1..k : w[r] = IF r \in touched /\ r < stop THEN newRow[r] ELSE data[r]
  BY <1>1
<1> HIDE DEF w
<1>9. \A r \in 1..k : w[r] \in S
  BY <1>1, <1>7, <1>8
<1>10. w \in Seq(S) /\ Len(w) = k
  <2> HIDE DEF k, S
  <2> QED
    BY <1>1, <1>8, <1>9, FunctionIsSeq
<1>11. \A r \in 1..k : w[r] = data[r] \/ (r - 1 >= mLabelParams.column /\ bad[r] = "ok" /\ w[r] = newRow[r])
  BY <1>2, <1>7, <1>8
<1>12. \A r \in 1..k : ~(r - 1 >= mLabelParams.column) => w[r] = data[r]
  BY <1>2, <1>8
<1>13. ASSUME o = "ok", NEW r \in 1..k, r - 1 >= mLabelParams.column
       PROVE  bad[r] = "ok" /\ w[r] = newRow[r]
  <2>1. stop > k
    <3> SUFFICES ASSUME ~(stop > k) PROVE FALSE
      OBVIOUS
    <3>1. stop # k + 1 /\ bad[stop] = "ok"
      BY <1>1, <1>6, <1>13
    <3> QED
      BY <1>5, <1>a, <3>1
  <2>2. r \in touched /\ r < stop
    BY <1>1, <1>2, <1>6, <1>13, <2>1
  <2> QED
    BY <1>7, <1>8, <2>2
<1>14. ASSUME o # "ok"
       PROVE  \E r \in 1..k : r - 1 >= mLabelParams.column /\ bad[r] # "ok" /\ o = bad[r]
  <2>1. ~(stop > k) /\ o = bad[stop]
    BY <1>14
  <2>2. stop \in touched /\ bad[stop] # "ok"
    BY <1>1, <1>5, <1>6, <1>a, <2>1
  <2> QED
    BY <1>2, <1>3, <2>1, <2>2
<1> HIDE DEF o
<1> QED
  BY <1>4, <1>10, <1>11, <1>12, <1>13, <1>14 DEF IsRowByRow, Table, result

\* Cells that are put into a table.
Puts(C) == Seq([row : Nat, column : Nat, cell : Seq(C)])

IsWritten(C, data, puts, result) ==
  /\ result.data \in Table(C) /\ Len(result.data) = Len(data)
  /\ \A r \in 1..Len(data) :
       /\ Len(result.data[r]) = Len(data[r])
       /\ \A c \in 1..Len(data[r]) :
            (\A i \in 1..Len(puts) : ~(puts[i].row = r - 1 /\ puts[i].column = c - 1)) =>
               result.data[r][c] = data[r][c]
  /\ result.outcome \in {"ok", "threw"}
  /\ result.outcome = "ok" =>
       \A i \in 1..Len(puts) :
         (\A j \in 1..Len(puts) : puts[j].row = puts[i].row /\ puts[j].column = puts[i].column => j = i) =>
            Holds(result.data, puts[i].row, puts[i].column, puts[i].cell)

LEMMA WrittenIs ==
  ASSUME NEW C, NEW data \in Table(C), NEW puts \in Puts(C)
  PROVE  IsWritten(C, data, puts, Written(data, puts))
<1> DEFINE k == Len(data)
           l == Len(puts)
           ends == {i \in 1..(l + 1) : i > l \/ ~Inside(data, puts[i].row, puts[i].column)}
           done == Min(ends) - 1
           at(r, c) == {i \in 1..done : puts[i].row = r - 1 /\ puts[i].column = c - 1}
           cell(r, c) == IF at(r, c) = {} THEN data[r][c] ELSE puts[Max(at(r, c))].cell
           w == [r \in DOMAIN data |-> [c \in DOMAIN data[r] |-> cell(r, c)]]
           o == IF done = l THEN "ok" ELSE "threw"
           result == Written(data, puts)
           S == Seq(Seq(C))
<1>1. /\ k \in Nat /\ DOMAIN data = 1..k
      /\ \A r \in 1..k : data[r] \in S /\ Len(data[r]) \in Nat /\ DOMAIN data[r] = 1..Len(data[r])
      /\ \A r \in 1..k : \A c \in 1..Len(data[r]) : data[r][c] \in Seq(C)
  BY TableIs
<1>2. l \in Nat /\ \A i \in 1..l : puts[i].row \in Nat /\ puts[i].column \in Nat /\ puts[i].cell \in Seq(C)
  <2> DEFINE D == [row : Nat, column : Nat, cell : Seq(C)]
  <2>1. puts \in Seq(D)
    BY DEF Puts
  <2> HIDE DEF D
  <2>2. l \in Nat /\ \A i \in 1..l : puts[i] \in D
    BY <2>1
  <2> QED
    BY <2>2 DEF D
<1>3. result.data = w /\ result.outcome = o
  <2>1. result = [data |-> w, outcome |-> o]
    BY DEF Written
  <2> HIDE DEF w, o, result
  <2> QED
    BY <2>1
<1>4. ends \subseteq 1..(l + 1) /\ l + 1 \in ends
      /\ \A i \in 1..l : i \notin ends => Inside(data, puts[i].row, puts[i].column)
  BY <1>2
<1> HIDE DEF ends, result
<1>5. done \in 0..l /\ \A i \in 1..done : i \notin ends
  <2>1. ends \in SUBSET Nat /\ ends # {}
    BY <1>2, <1>4
  <2>2. Min(ends) \in ends /\ \A i \in ends : Min(ends) <= i
    BY <2>1, LeastOf
  <2>3. Min(ends) \in 1..(l + 1)
    BY <1>4, <2>2
  <2> DEFINE m == Min(ends)
  <2>4. m \in 1..(l + 1) /\ \A i \in ends : m <= i
    BY <2>2, <2>3
  <2> HIDE DEF m
  <2>5. m - 1 \in 0..l /\ \A i \in 1..(m - 1) : i \notin ends
    BY <1>2, <1>4, <2>4
  <2> QED
    BY <2>5 DEF m
<1> HIDE DEF done
<1>6. ASSUME NEW r, NEW c, at(r, c) # {}
      PROVE  Max(at(r, c)) \in at(r, c)
  <2>1. done \in Nat /\ at(r, c) \in SUBSET (1..done)
    BY <1>2, <1>5
  <2> HIDE DEF at
  <2> QED
    BY <1>6, <2>1, MaxUpTo
<1>7. ASSUME NEW r \in 1..k, NEW c \in 1..Len(data[r]) PROVE cell(r, c) \in Seq(C)
  <2>1. CASE at(r, c) = {}
    BY <1>1, <2>1
  <2>2. CASE at(r, c) # {}
    <3>1. Max(at(r, c)) \in 1..done
      BY <1>6, <2>2
    <3>2. Max(at(r, c)) \in 1..l
      BY <1>2, <1>5, <3>1
    <3> HIDE DEF at
    <3> QED
      BY <1>2, <2>2, <3>2
  <2> QED
    BY <2>1, <2>2
<1>8. w = [r \in 1..k |-> w[r]] /\ \A r \in 1..k : w[r] = [c \in 1..Len(data[r]) |-> cell(r, c)]
  BY <1>1
<1> HIDE DEF cell, w
<1>9. ASSUME NEW r \in 1..k PROVE w[r] \in S /\ Len(w[r]) = Len(data[r])
  <2> DEFINE v == w[r]
             n == Len(data[r])
             D == Seq(C)
  <2>1. n \in Nat /\ v = [c \in 1..n |-> v[c]] /\ \A c \in 1..n : v[c] \in D
    BY <1>1, <1>7, <1>8
  <2> HIDE DEF v, n, D
  <2>2. v \in Seq(D) /\ Len(v) = n
    BY <2>1, FunctionIsSeq
  <2> QED
    BY <2>2 DEF v, n, D
<1>10. w \in Seq(S) /\ Len(w) = k
  <2>1. \A r \in 1..k : w[r] \in S
    BY <1>9
  <2> HIDE DEF k, S
  <2> QED
    BY <1>1, <1>8, <2>1, FunctionIsSeq
<1>11. ASSUME NEW r \in 1..k, NEW c \in 1..Len(data[r]),
              \A i \in 1..l : ~(puts[i].row = r - 1 /\ puts[i].column = c - 1)
       PROVE  w[r][c] = data[r][c]
  <2>1. at(r, c) = {}
    <3>1. \A i \in 1..done : i \in 1..l
      BY <1>2, <1>5
    <3> QED
      BY <1>11, <3>1
  <2>2. w[r][c] = cell(r, c)
    BY <1>8
  <2> QED
    BY <2>1, <2>2 DEF cell
<1>12. o \in {"ok", "threw"}
  OBVIOUS
<1>13. ASSUME o = "ok", NEW i \in 1..l,
              \A j \in 1..l : puts[j].row = puts[i].row /\ puts[j].column = puts[i].column => j = i
       PROVE  Holds(w, puts[i].row, puts[i].column, puts[i].cell)
  <2> DEFINE r == puts[i].row + 1
             c == puts[i].column + 1
  <2>1. done = l
    BY <1>13
  <2>2. Inside(data, puts[i].row, puts[i].column)
    BY <1>4, <1>5, <2>1
  <2>3. puts[i].row < k /\ puts[i].column < Len(data[r]) /\ puts[i].row \in Nat /\ puts[i].column \in Nat
    BY <1>2, <2>2 DEF Inside
  <2>4. r \in 1..k /\ c \in 1..Len(data[r]) /\ r - 1 = puts[i].row /\ c - 1 = puts[i].column
    <3>1. r \in 1..k
      BY <1>1, <2>3
    <3>2. Len(data[r]) \in Nat
      BY <1>1, <3>1
    <3> QED
      BY <2>3, <3>1, <3>2
  <2>5. i \in at(r, c)
    BY <2>1, <2>4
  <2>6. Max(at(r, c)) = i
    <3>1. Max(at(r, c)) \in at(r, c)
      BY <1>6, <2>5
    <3> DEFINE m == Max(at(r, c))
    <3>2. m \in 1..l /\ puts[m].row = r - 1 /\ puts[m].column = c - 1
      <4>1. m \in at(r, c)
        BY <3>1
      <4> HIDE DEF m
      <4> QED
        BY <2>1, <4>1
    <3> HIDE DEF m, at, r, c
    <3>3. m = i
      BY <1>13, <2>4, <3>2
    <3> QED
      BY <3>3 DEF m
  <2>7. w[r][c] = puts[i].cell
    <3>1. w[r][c] = cell(r, c)
      BY <1>8, <2>4
    <3>2. at(r, c) # {}
      BY <2>5
    <3> HIDE DEF at
    <3> QED
      BY <2>6, <3>1, <3>2 DEF cell
  <2>8. puts[i].row < Len(w) /\ puts[i].column < Len(w[r])
    BY <1>9, <1>10, <2>3, <2>4
  <2> QED
    BY <2>7, <2>8 DEF Holds, Inside
<1> HIDE DEF o
<1> QED
  BY <1>3, <1>9, <1>10, <1>11, <1>12, <1>13 DEF IsWritten, Table, result

\* A cell is put at a row and a column, which are appended if they are not there.
PutInto(data, r, c, x) ==
  LET longer == Grown(data, r + 1, 0)
      row    == Resized(longer[r + 1], Max({Len(longer[r + 1]), c + 1}))
  IN  [longer EXCEPT ![r + 1] = [row EXCEPT ![c + 1] = x]]

IsPutInto(C, data, r, c, x, new) ==
  /\ new \in Table(C) /\ Holds(new, r, c, x)
  /\ \A r1, c1 \in Nat : \A y : Holds(data, r1, c1, y) /\ ~(r1 = r /\ c1 = c) => Holds(new, r1, c1, y)

LEMMA PutIntoIs ==
  ASSUME NEW C, NEW data \in Table(C), NEW r \in Nat, NEW c \in Nat, NEW x \in Seq(C)
  PROVE  IsPutInto(C, data, r, c, x, PutInto(data, r, c, x))
<1> DEFINE longer == Grown(data, r + 1, 0)
           old == longer[r + 1]
           size == Max({Len(old), c + 1})
           row == Resized(old, size)
           u == [row EXCEPT ![c + 1] = x]
           new == [longer EXCEPT ![r + 1] = u]
           k == Len(longer)
           S == Seq(Seq(C))
           D == Seq(C)
<1>1. /\ longer \in Table(C) /\ k \in Nat /\ r + 1 \in 1..k /\ longer \in Seq(S) /\ old \in S
      /\ \A q \in 1..k : longer[q] \in S /\ Len(longer[q]) \in Nat
      /\ \A r1 \in Nat : \A c1, y : Holds(data, r1, c1, y) => Holds(longer, r1, c1, y)
  <2> DEFINE m == r + 1
             g == Grown(data, m, 0)
  <2>1. m \in Int /\ 0 \in Nat
    OBVIOUS
  <2> HIDE DEF m
  <2>2. IsGrown(C, data, m, 0, g)
    BY <2>1, GrownIs
  <2>3. \A r1 \in Nat : \A c1, y : Holds(data, r1, c1, y) => Holds(g, r1, c1, y)
    BY <2>1, GrownHolds
  <2> HIDE DEF g
  <2>4. g \in Table(C) /\ Len(g) = IF m > Len(data) THEN m ELSE Len(data)
    BY <2>2 DEF IsGrown
  <2>5. Len(g) \in Nat /\ Len(data) \in Nat /\ \A q \in 1..Len(g) : g[q] \in S /\ Len(g[q]) \in Nat
    BY <2>4, TableIs
  <2>6. m \in 1..Len(g)
    BY <2>4, <2>5 DEF m
  <2> QED
    BY <2>3, <2>4, <2>5, <2>6 DEF g, m, Table
<1> HIDE DEF longer
<1>2. size \in Nat /\ size >= Len(old) /\ size >= c + 1
  <2>1. Len(old) \in Int /\ c + 1 \in Int /\ Len(old) \in Nat
    BY <1>1
  <2> DEFINE a == Len(old)
             b == c + 1
  <2>2. a \in Int /\ b \in Int /\ b \in Nat /\ a \in Nat
    BY <2>1
  <2> HIDE DEF a, b
  <2>3. Max({a, b}) = IF a >= b THEN a ELSE b
    BY <2>2, LargerOf
  <2>4. Max({a, b}) \in Nat /\ Max({a, b}) >= a /\ Max({a, b}) >= b
    BY <2>2, <2>3
  <2> QED
    BY <2>4 DEF a, b
<1> HIDE DEF size, old
<1>3. row \in S /\ Len(row) = size /\ \A q \in 1..size : row[q] = IF q <= Len(old) THEN old[q] ELSE NoCell
  BY <1>1, <1>2, ResizedIs
<1> HIDE DEF row
<1>4. u \in S /\ Len(u) = size /\ u[c + 1] = x /\ \A q \in 1..size : q # c + 1 => u[q] = row[q]
  <2>1. row \in Seq(D) /\ x \in D /\ c + 1 \in 1..Len(row)
    BY <1>2, <1>3
  <2> HIDE DEF D
  <2>2. u \in Seq(D) /\ Len(u) = size /\ u[c + 1] = x /\ \A q \in 1..size : q # c + 1 => u[q] = row[q]
    BY <1>3, <2>1
  <2> QED
    BY <2>2 DEF D
<1> HIDE DEF u, k, S
<1>5. new \in Seq(S) /\ Len(new) = k /\ new[r + 1] = u /\ \A q \in 1..k : q # r + 1 => new[q] = longer[q]
  BY <1>1, <1>4 DEF k
<1> HIDE DEF new
<1>6. Holds(new, r, c, x)
  <2>1. r < Len(new) /\ c < Len(new[r + 1])
    BY <1>1, <1>2, <1>4, <1>5
  <2> QED
    BY <1>4, <1>5, <2>1 DEF Holds, Inside
<1>7. ASSUME NEW r1 \in Nat, NEW c1 \in Nat, NEW y, Holds(data, r1, c1, y), ~(r1 = r /\ c1 = c)
      PROVE  Holds(new, r1, c1, y)
  <2>1. Holds(longer, r1, c1, y)
    BY <1>1, <1>7
  <2>2. r1 < k /\ c1 < Len(longer[r1 + 1]) /\ longer[r1 + 1][c1 + 1] = y
    BY <2>1 DEF Holds, Inside, k
  <2>3. CASE r1 # r
    <3>1. r1 + 1 \in 1..k /\ r1 + 1 # r + 1
      BY <1>1, <2>2, <2>3
    <3>2. new[r1 + 1] = longer[r1 + 1] /\ r1 < Len(new)
      BY <1>5, <2>2, <3>1
    <3> QED
      BY <2>2, <3>2 DEF Holds, Inside
  <2>4. CASE r1 = r
    <3>1. c1 # c /\ longer[r1 + 1] = old
      BY <1>7, <2>4 DEF old
    <3>2. c1 < Len(old) /\ old[c1 + 1] = y
      BY <2>2, <3>1
    <3>3. Len(old) \in Nat
      BY <1>1 DEF S
    <3>4. c1 + 1 \in 1..size /\ c1 + 1 # c + 1 /\ c1 + 1 <= Len(old) /\ c1 < size
      BY <1>2, <3>1, <3>2, <3>3
    <3>5. u[c1 + 1] = y
      BY <1>3, <1>4, <3>2, <3>4
    <3>6. new[r1 + 1] = u /\ r1 < Len(new)
      BY <1>5, <2>2, <2>4
    <3> QED
      BY <1>4, <3>4, <3>5, <3>6 DEF Holds, Inside
  <2> QED
    BY <2>3, <2>4
<1>8. PutInto(data, r, c, x) = new
  BY DEF PutInto, new, u, row, size, old, longer
<1> QED
  BY <1>5, <1>6, <1>7, <1>8 DEF IsPutInto, Table, S

\* The last place of each of the names.
LEMMA PlacesIs ==
  ASSUME NEW S, NEW names \in Seq(S)
  PROVE  /\ DOMAIN Places(names) = Range(names)
         /\ \A n \in Range(names) :
              Places(names)[n] \in Nat /\ Places(names)[n] < Len(names) /\ names[Places(names)[n] + 1] = n
<1> DEFINE k == Len(names)
           at(n) == {i \in DOMAIN names : names[i] = n}
<1>1. k \in Nat /\ DOMAIN names = 1..k
  OBVIOUS
<1>2. DOMAIN Places(names) = Range(names) /\ \A n \in Range(names) : Places(names)[n] = Max(at(n)) - 1
  BY DEF Places
<1>3. ASSUME NEW n \in Range(names) PROVE Max(at(n)) \in 1..k /\ names[Max(at(n))] = n
  <2>1. at(n) # {} /\ at(n) \in SUBSET (1..k)
    BY <1>1 DEF Range
  <2>2. \A i \in at(n) : names[i] = n
    OBVIOUS
  <2> HIDE DEF at, k
  <2>3. Max(at(n)) \in at(n)
    BY <1>1, <2>1, MaxUpTo
  <2> QED
    BY <2>1, <2>2, <2>3
<1> HIDE DEF at
<1>4. ASSUME NEW n \in Range(names)
      PROVE  Places(names)[n] \in Nat /\ Places(names)[n] < k /\ names[Places(names)[n] + 1] = n
  <2> DEFINE m == Max(at(n))
  <2>1. m \in 1..k /\ names[m] = n /\ Places(names)[n] = m - 1
    BY <1>2, <1>3
  <2> HIDE DEF m
  <2>2. m - 1 \in Nat /\ m - 1 < k /\ (m - 1) + 1 = m
    BY <1>1, <2>1
  <2> QED
    BY <2>1, <2>2
<1> QED
  BY <1>2, <1>4

\* The names of columns are found where they are.
LEMMA ColumnNamesFind ==
  ASSUME NEW C, NEW data \in Table(C), NEW l, IsLabels(l)
  PROVE  \A n \in DOMAIN UpdateColumnNames(data, l) :
           /\ UpdateColumnNames(data, l)[n] \in Nat
           /\ l.column \in Nat => Holds(data, l.column, UpdateColumnNames(data, l)[n], n)
<1> DEFINE names == data[l.column + 1]
           map == UpdateColumnNames(data, l)
<1>1. CASE l.column >= 0 /\ Len(data) > l.column
  <2>1. l.column \in Nat /\ l.column + 1 \in 1..Len(data) /\ Len(data) \in Nat
    <3>1. Len(data) \in Nat
      BY TableIs
    <3> QED
      BY <1>1, <3>1 DEF IsLabels
  <2>2. names \in Seq(Seq(C))
    BY <2>1, TableIs
  <2>3. map = Places(names)
    BY <1>1 DEF UpdateColumnNames
  <2>4. \A n \in DOMAIN Places(names) :
          Places(names)[n] \in Nat /\ Places(names)[n] < Len(names) /\ names[Places(names)[n] + 1] = n
    <3> HIDE DEF names
    <3> QED
      BY <2>2, PlacesIs
  <2>5. \A n \in DOMAIN map : map[n] \in Nat /\ map[n] < Len(names) /\ names[map[n] + 1] = n
    BY <2>3, <2>4
  <2> HIDE DEF map
  <2> QED
    BY <1>1, <2>5 DEF map, Holds, Inside
<1>2. CASE ~(l.column >= 0 /\ Len(data) > l.column)
  <2>1. map = << >>
    BY <1>2 DEF UpdateColumnNames
  <2> QED
    BY <2>1
<1> QED
  BY <1>1, <1>2

LEMMA RowNamesType ==
  ASSUME NEW C, NEW data \in Table(C), NEW l
  PROVE  \A n \in DOMAIN UpdateRowNames(data, l) : UpdateRowNames(data, l)[n] \in Nat
<1> DEFINE named == {r \in DOMAIN data : Len(data[r]) > l.row}
           name(r) == data[r][l.row + 1]
           before(n) == {r \in named : r < Max({q \in named : name(q) = n})}
           map == UpdateRowNames(data, l)
           k == Len(data)
<1>1. k \in Nat /\ DOMAIN data = 1..k
  BY TableIs
<1>2. ASSUME NEW n PROVE Cardinality(before(n)) \in Nat
  <2>1. before(n) \subseteq 1..k
    BY <1>1
  <2>2. IsFiniteSet(1..k)
    BY <1>1, FS_Interval
  <2> HIDE DEF before
  <2>3. IsFiniteSet(before(n))
    BY <2>1, <2>2, FS_Subset
  <2> QED
    BY <2>3, FS_CardinalityType
<1>3. map = [n \in {name(r) : r \in named} |-> Cardinality(before(n))] \/ map = << >>
  BY DEF UpdateRowNames
<1> HIDE DEF before, map, name, named
<1>4. \A n \in DOMAIN map : map[n] \in Nat
  BY <1>2, <1>3
<1> QED
  BY <1>4 DEF map

\* A name that comes behind no row too short for one is the name of as many rows as are
\* above it: UpdateRowNames finds the place of the last row that has it.
LEMMA RowNamesFind ==
  ASSUME NEW C, NEW data \in Table(C), NEW l, IsLabels(l), l.row >= 0,
         NEW n \in DOMAIN UpdateRowNames(data, l) \ BehindShort(data, l)
  PROVE  Holds(data, UpdateRowNames(data, l)[n], l.row, n)
<1> DEFINE named == {r \in DOMAIN data : Len(data[r]) > l.row}
           name(r) == data[r][l.row + 1]
           at == {r \in named : name(r) = n}
           end == Max(at)
           before == {r \in named : r < end}
           map == UpdateRowNames(data, l)
           k == Len(data)
<1>1. k \in Nat /\ DOMAIN data = 1..k /\ l.row \in Nat
  BY TableIs DEF IsLabels
<1>2. \A r \in 1..k : Len(data[r]) \in Nat
  BY TableIs
<1>3. map = [m \in {name(r) : r \in named} |->
               LET e == Max({r \in named : name(r) = m}) IN Cardinality({r \in named : r < e})]
  <2>1. DOMAIN << >> = {}
    OBVIOUS
  <2>2. n \in DOMAIN map
    OBVIOUS
  <2>3. map # << >>
    BY <2>1, <2>2
  <2> QED
    BY <2>3 DEF UpdateRowNames
<1>4. n \in {name(r) : r \in named}
  <2>1. n \in DOMAIN map
    OBVIOUS
  <2> HIDE DEF map, named, name
  <2> QED
    BY <1>3, <2>1
<1>5. map[n] = Cardinality(before)
  <2> HIDE DEF map, named, name
  <2> QED
    BY <1>3, <1>4
<1>6. end \in named /\ name(end) = n
  <2>1. at # {} /\ at \in SUBSET (1..k)
    BY <1>1, <1>4
  <2>2. \A r \in at : r \in named /\ name(r) = n
    OBVIOUS
  <2> HIDE DEF at, named, name, k
  <2>3. Max(at) \in at
    BY <1>1, <2>1, MaxUpTo
  <2> QED
    BY <2>2, <2>3
<1> HIDE DEF end, map
<1>7. end \in 1..k /\ Len(data[end]) > l.row /\ data[end][l.row + 1] = n
  BY <1>1, <1>6
<1>8. \A p \in 1..end : ~(Len(data[p]) <= l.row)
  <2>1. n \notin BehindShort(data, l)
    OBVIOUS
  <2> QED
    BY <1>1, <1>7, <2>1 DEF BehindShort
<1>9. before = 1..(end - 1)
  <2>1. ASSUME NEW r \in 1..(end - 1) PROVE r \in before
    <3>1. r \in 1..end /\ r \in 1..k /\ r < end
      BY <1>1, <1>7
    <3>2. Len(data[r]) > l.row
      BY <1>1, <1>2, <1>8, <3>1
    <3> QED
      BY <1>1, <3>1, <3>2
  <2>2. ASSUME NEW r \in before PROVE r \in 1..(end - 1)
    BY <1>1, <1>7
  <2> HIDE DEF before
  <2> QED
    BY <2>1, <2>2
<1>10. Cardinality(1..(end - 1)) = end - 1
  <2>1. 1 \in Int /\ end - 1 \in Int /\ end - 1 >= 0
    BY <1>1, <1>7
  <2>2. Cardinality(1..(end - 1)) = IF 1 > end - 1 THEN 0 ELSE (end - 1) - 1 + 1
    BY <2>1, FS_Interval
  <2> QED
    BY <2>1, <2>2
<1> HIDE DEF before
<1>11. map[n] = end - 1 /\ (end - 1) + 1 = end
  BY <1>1, <1>5, <1>7, <1>9, <1>10
<1>12. Holds(data, end - 1, l.row, n)
  BY <1>1, <1>2, <1>7, <1>11 DEF Holds, Inside
<1> QED
  BY <1>11, <1>12 DEF map

----------------------------------------------------------------------------
(* What the constants are, and the types of the variables *)

\* The characters of all texts, cells and names.
Chars == (UNION {Range(t) : t \in {s.text : s \in Starts} \union Cells \union Names}) \union Marks

LEMMA CharsAre ==
  /\ Marks \subseteq Chars /\ NoCell \in Seq(Chars)
  /\ \A s \in Starts : s.text \in Seq(Chars) /\ IsParams(s.params) /\ IsLabels(s.labels)
  /\ \A l \in Labels : IsLabels(l)
  /\ \A n \in Cells \union Names \union {NoCell} : n \in Seq(Chars)
<1> DEFINE T == {s.text : s \in Starts} \union Cells \union Names
<1>1. ASSUME NEW t \in T PROVE t \in Seq(Chars)
  <2>1. t \in Seq(Range(t))
    BY DocumentAssumption
  <2>2. Range(t) \subseteq Chars
    BY DEF Chars
  <2>3. Len(t) \in Nat /\ t = [i \in 1..Len(t) |-> t[i]] /\ \A i \in 1..Len(t) : t[i] \in Range(t)
    BY <2>1
  <2>4. \A i \in 1..Len(t) : t[i] \in Chars
    BY <2>2, <2>3
  <2> QED
    BY <2>3, <2>4, FunctionIsSeq
<1>2. NoCell \in Seq(Chars)
  BY DEF NoCell
<1>3. \A s \in Starts : s.text \in T
  OBVIOUS
<1>4. \A s \in Starts : IsParams(s.params)
  BY DocumentAssumption DEF IsParams
<1>5. \A l \in Labels \union {s.labels : s \in Starts} : IsLabels(l)
  BY DocumentAssumption DEF IsLabels
<1>6. Marks \subseteq Chars
  BY DEF Chars
<1>7. \A s \in Starts : s.labels \in {q.labels : q \in Starts}
  OBVIOUS
<1> QED
  BY <1>1, <1>2, <1>3, <1>4, <1>5, <1>6, <1>7

LEMMA ListsAre ==
  ASSUME NEW cells \in Lists
  PROVE  cells \in Seq(Seq(Chars)) /\ Len(cells) \in Nat /\ DOMAIN cells = 1..Len(cells)
<1>1. PICK n \in 0..MaxLength : cells \in [1..n -> Cells]
  BY DEF Lists
<1>2. n \in Nat
  BY DocumentAssumption
<1>3. cells = [j \in 1..n |-> cells[j]] /\ \A j \in 1..n : cells[j] \in Seq(Chars)
  BY <1>1, CharsAre
<1>4. cells \in Seq(Seq(Chars)) /\ Len(cells) = n
  BY <1>2, <1>3, FunctionIsSeq
<1> QED
  BY <1>4

\* The map of names to places.
IsPlaces(names) == \A n \in DOMAIN names : names[n] \in Nat

TypeInv ==
  /\ mData \in Table(Chars) /\ file \in Seq(Chars)
  /\ mHasCR \in BOOLEAN /\ mHasUtf8BOM \in BOOLEAN
  /\ IsParams(mParams) /\ IsLabels(mLabelParams)
  /\ IsPlaces(mColumnNames) /\ IsPlaces(mRowNames)
  /\ outdated = [columns |-> outdated.columns, rows |-> outdated.rows]

LEMMA IndicesAre ==
  ASSUME TypeInv
  PROVE  /\ mLabelParams.column \in Int /\ mLabelParams.column >= -1
         /\ mLabelParams.row \in Int /\ mLabelParams.row >= -1
         /\ \A i \in Int : GetDataRowIndex(i) = i + mLabelParams.column + 1 /\ GetDataRowIndex(i) \in Int
                           /\ GetDataColumnIndex(i) = i + mLabelParams.row + 1 /\ GetDataColumnIndex(i) \in Int
         /\ \A i \in Nat : GetDataRowIndex(i) \in Nat /\ GetDataColumnIndex(i) \in Nat
         /\ GetDataColumnCount \in Nat
         /\ \A c \in Columns : c \in Int
         /\ \A r \in Rows : r \in Int
         /\ 0..MaxIndex \subseteq Nat
<1>1. /\ mLabelParams.column \in Int /\ mLabelParams.column >= -1
      /\ mLabelParams.row \in Int /\ mLabelParams.row >= -1
  BY DEF TypeInv, IsLabels
<1>2. \A i \in Int : GetDataRowIndex(i) = i + mLabelParams.column + 1 /\ GetDataRowIndex(i) \in Int
                           /\ GetDataColumnIndex(i) = i + mLabelParams.row + 1 /\ GetDataColumnIndex(i) \in Int
  BY <1>1 DEF GetDataRowIndex, GetDataColumnIndex
<1>3. \A i \in Nat : GetDataRowIndex(i) \in Nat /\ GetDataColumnIndex(i) \in Nat
  BY <1>1 DEF GetDataRowIndex, GetDataColumnIndex
<1>4. GetDataColumnCount \in Nat
  BY ColumnCountIs DEF TypeInv, GetDataColumnCount
<1>5. 0..MaxIndex \subseteq Nat
  BY DocumentAssumption
<1>6. \A n : GetColumnIdx(n) \in Int
  BY <1>1 DEF GetColumnIdx, TypeInv, IsPlaces
<1>7. \A n : GetRowIdx(n) \in Int
  BY <1>1 DEF GetRowIdx, TypeInv, IsPlaces
<1>8. (\A c \in Columns : c \in Int) /\ \A r \in Rows : r \in Int
  BY <1>5, <1>6, <1>7 DEF Columns, Rows
<1> QED
  BY <1>1, <1>2, <1>3, <1>4, <1>5, <1>8

----------------------------------------------------------------------------
(* Names are found where they are kept *)

ColumnsFound(data, l, names, wrong) ==
  l.column >= 0 => \A n \in DOMAIN names \ wrong : Holds(data, l.column, names[n], n)

RowsFound(data, l, names, wrong) ==
  l.row >= 0 => \A n \in DOMAIN names \ wrong : Holds(data, names[n], l.row, n)

LEMMA NamesFindIs ==
  NamesFind <=> /\ ColumnsFound(mData, mLabelParams, mColumnNames, outdated.columns)
                /\ RowsFound(mData, mLabelParams, mRowNames, outdated.rows)
  BY DEF NamesFind, ColumnsFound, RowsFound, Holds

\* The row of the column names and the column of the row names keep their cells.
KeepsColumns(l, data, new) ==
  l.column >= 0 => \A c \in Nat : \A x : Holds(data, l.column, c, x) => Holds(new, l.column, c, x)

KeepsRows(l, data, new) ==
  l.row >= 0 => \A r \in Nat : \A x : Holds(data, r, l.row, x) => Holds(new, r, l.row, x)

LEMMA ColumnsStayFound ==
  ASSUME NEW l, NEW data, NEW new, KeepsColumns(l, data, new), NEW names, IsPlaces(names), NEW wrong,
         ColumnsFound(data, l, names, wrong)
  PROVE  ColumnsFound(new, l, names, wrong)
  BY DEF ColumnsFound, KeepsColumns, IsPlaces

LEMMA RowsStayFound ==
  ASSUME NEW l, NEW data, NEW new, KeepsRows(l, data, new), NEW names, IsPlaces(names), NEW wrong,
         RowsFound(data, l, names, wrong)
  PROVE  RowsFound(new, l, names, wrong)
  BY DEF RowsFound, KeepsRows, IsPlaces

LEMMA WidenedKeeps ==
  ASSUME NEW C, NEW data \in Table(C), IsLabels(mLabelParams), NEW width \in Nat,
         width >= ColumnCount(data, mLabelParams), width > mLabelParams.row
  PROVE  KeepsColumns(mLabelParams, data, Widened(data, width)) /\ KeepsRows(mLabelParams, data, Widened(data, width))
<1> DEFINE l == mLabelParams
<1>1. ASSUME l.column >= 0, NEW c \in Nat, NEW x, Holds(data, l.column, c, x)
      PROVE  Holds(Widened(data, width), l.column, c, x)
  <2>1. l.column \in Nat /\ l.column < Len(data) /\ c < Len(data[l.column + 1])
    BY <1>1 DEF IsLabels, Holds, Inside
  <2>2. ColumnCount(data, l) = Len(data[l.column + 1]) /\ ColumnCount(data, l) \in Nat
    BY <2>1, ColumnCountIs
  <2>3. c < width
    BY <2>1, <2>2
  <2> QED
    BY <1>1, <2>1, <2>3, WidenedHolds
<1>2. ASSUME l.row >= 0, NEW r \in Nat, NEW x, Holds(data, r, l.row, x)
      PROVE  Holds(Widened(data, width), r, l.row, x)
  <2>1. l.row \in Nat
    BY <1>2 DEF IsLabels
  <2> QED
    BY <1>2, <2>1, WidenedHolds
<1> QED
  BY <1>1, <1>2 DEF KeepsColumns, KeepsRows

LEMMA GrownKeeps ==
  ASSUME NEW C, NEW data \in Table(C), NEW l, IsLabels(l), NEW rows \in Int, NEW width \in Nat
  PROVE  KeepsColumns(l, data, Grown(data, rows, width)) /\ KeepsRows(l, data, Grown(data, rows, width))
<1>1. ASSUME l.column >= 0, NEW c \in Nat, NEW x, Holds(data, l.column, c, x)
      PROVE  Holds(Grown(data, rows, width), l.column, c, x)
  <2>1. l.column \in Nat
    BY <1>1 DEF IsLabels
  <2> QED
    BY <1>1, <2>1, GrownHolds
<1>2. ASSUME l.row >= 0, NEW r \in Nat, NEW x, Holds(data, r, l.row, x)
      PROVE  Holds(Grown(data, rows, width), r, l.row, x)
  BY <1>2, GrownHolds
<1> QED
  BY <1>1, <1>2 DEF KeepsColumns, KeepsRows

LEMMA WrittenHolds ==
  ASSUME NEW C, NEW data \in Table(C), NEW puts \in Puts(C), NEW r \in Nat, NEW c \in Nat, NEW x,
         Holds(data, r, c, x), \A i \in 1..Len(puts) : ~(puts[i].row = r /\ puts[i].column = c)
  PROVE  Holds(Written(data, puts).data, r, c, x)
<1> DEFINE new == Written(data, puts).data
           result == Written(data, puts)
<1>1. IsWritten(C, data, puts, result)
  BY WrittenIs
<1> DEFINE q == r + 1
           d == c + 1
<1>2. q \in 1..Len(data) /\ d \in 1..Len(data[q]) /\ q - 1 = r /\ d - 1 = c /\ data[q][d] = x
  BY TableIs DEF Holds, Inside
<1> HIDE DEF q, d, result
<1>3. Len(result.data) = Len(data) /\ Len(result.data[q]) = Len(data[q]) /\ result.data[q][d] = data[q][d]
  BY <1>1, <1>2 DEF IsWritten
<1>4. Holds(result.data, r, c, x)
  BY <1>2, <1>3 DEF Holds, Inside, q, d
<1> QED
  BY <1>4 DEF result

LEMMA WrittenKeeps ==
  ASSUME NEW C, NEW data \in Table(C), IsLabels(mLabelParams), NEW puts \in Puts(C),
         \A i \in 1..Len(puts) : puts[i].row > mLabelParams.column /\ puts[i].column > mLabelParams.row
  PROVE  /\ KeepsColumns(mLabelParams, data, Written(data, puts).data)
         /\ KeepsRows(mLabelParams, data, Written(data, puts).data)
<1> DEFINE l == mLabelParams
<1>0. l.column \in Int /\ l.row \in Int
  BY DEF IsLabels
<1>1. \A i \in 1..Len(puts) : puts[i].row # l.column /\ puts[i].column # l.row
  <2>1. \A i \in 1..Len(puts) : puts[i].row \in Nat /\ puts[i].column \in Nat
    <3> DEFINE D == [row : Nat, column : Nat, cell : Seq(C)]
    <3>1. puts \in Seq(D) /\ \A v \in D : v.row \in Nat /\ v.column \in Nat
      BY DEF Puts
    <3> HIDE DEF D
    <3> QED
      BY <3>1
  <2> QED
    BY <1>0, <2>1
<1>2. ASSUME l.column >= 0, NEW c \in Nat, NEW x, Holds(data, l.column, c, x)
      PROVE  Holds(Written(data, puts).data, l.column, c, x)
  <2>1. l.column \in Nat
    BY <1>2 DEF IsLabels
  <2> QED
    BY <1>1, <1>2, <2>1, WrittenHolds
<1>3. ASSUME l.row >= 0, NEW r \in Nat, NEW x, Holds(data, r, l.row, x)
      PROVE  Holds(Written(data, puts).data, r, l.row, x)
  <2>1. l.row \in Nat
    BY <1>3 DEF IsLabels
  <2> QED
    BY <1>1, <1>3, <2>1, WrittenHolds
<1> QED
  BY <1>2, <1>3 DEF KeepsColumns, KeepsRows

LEMMA NamesFindNext ==
  NamesFind' <=> /\ ColumnsFound(mData', mLabelParams', mColumnNames', outdated'.columns)
                 /\ RowsFound(mData', mLabelParams', mRowNames', outdated'.rows)
  BY DEF NamesFind, ColumnsFound, RowsFound, Holds, Inside

----------------------------------------------------------------------------
(* The calls that write cells *)

\* A table with so many rows, and wider if it has to be.
Sized(data, rows, asked, width) ==
  LET grown == Grown(data, rows, ColumnCount(data, mLabelParams))
  IN  IF asked > ColumnCount(grown, mLabelParams) THEN Widened(grown, width) ELSE grown

LEMMA SizedKeeps ==
  ASSUME NEW C, NEW data \in Table(C), IsLabels(mLabelParams), NEW rows \in Int, NEW asked \in Nat,
         NEW width \in Nat, width >= asked, asked > 0 => width > mLabelParams.row
  PROVE  LET wide == Sized(data, rows, asked, width)
         IN  wide \in Table(C) /\ KeepsColumns(mLabelParams, data, wide) /\ KeepsRows(mLabelParams, data, wide)
<1> DEFINE l == mLabelParams
           count == ColumnCount(data, l)
           grown == Grown(data, rows, count)
<1>1. count \in Nat
  BY ColumnCountIs
<1> HIDE DEF count
<1>2. grown \in Table(C)
  BY <1>1, GrownIs DEF IsGrown
<1>3. KeepsColumns(l, data, grown) /\ KeepsRows(l, data, grown)
  BY <1>1, GrownKeeps
<1>4. Sized(data, rows, asked, width) = IF asked > ColumnCount(grown, l) THEN Widened(grown, width) ELSE grown
  BY DEF Sized, count
<1> HIDE DEF grown
<1>5. CASE asked > ColumnCount(grown, l)
  <2>1. ColumnCount(grown, l) \in Nat
    BY <1>2, ColumnCountIs
  <2>2. width >= ColumnCount(grown, l) /\ width > l.row
    BY <1>5, <2>1
  <2>3. Widened(grown, width) \in Table(C)
    BY <1>2, WidenedIs
  <2>4. KeepsColumns(l, grown, Widened(grown, width)) /\ KeepsRows(l, grown, Widened(grown, width))
    BY <1>2, <2>2, WidenedKeeps
  <2>5. KeepsColumns(l, data, Widened(grown, width)) /\ KeepsRows(l, data, Widened(grown, width))
    BY <1>3, <2>4 DEF KeepsColumns, KeepsRows
  <2> QED
    BY <1>4, <1>5, <2>3, <2>5
<1>6. CASE ~(asked > ColumnCount(grown, l))
  BY <1>2, <1>3, <1>4, <1>6
<1> QED
  BY <1>5, <1>6

\* What cells that are put beside the names leave.
Beside(data, result) ==
  /\ result.data \in Table(Chars)
  /\ KeepsColumns(mLabelParams, data, result.data) /\ KeepsRows(mLabelParams, data, result.data)
  /\ result.outcome \in {"ok", "threw"}

LEMMA PutBeside ==
  ASSUME NEW data \in Table(Chars), IsLabels(mLabelParams), NEW rows \in Int, NEW asked \in Nat,
         NEW width \in Nat, width >= asked, asked > 0 => width > mLabelParams.row, NEW puts \in Puts(Chars),
         \A i \in 1..Len(puts) : puts[i].row > mLabelParams.column /\ puts[i].column > mLabelParams.row
  PROVE  Beside(data, Written(Sized(data, rows, asked, width), puts))
<1> DEFINE wide == Sized(data, rows, asked, width)
           result == Written(wide, puts)
<1>1. wide \in Table(Chars) /\ KeepsColumns(mLabelParams, data, wide) /\ KeepsRows(mLabelParams, data, wide)
  BY SizedKeeps
<1> HIDE DEF wide
<1>2. result.data \in Table(Chars) /\ result.outcome \in {"ok", "threw"}
  BY <1>1, WrittenIs DEF IsWritten
<1>3. KeepsColumns(mLabelParams, wide, result.data) /\ KeepsRows(mLabelParams, wide, result.data)
  BY <1>1, WrittenKeeps
<1> HIDE DEF result
<1>4. KeepsColumns(mLabelParams, data, result.data) /\ KeepsRows(mLabelParams, data, result.data)
  BY <1>1, <1>3 DEF KeepsColumns, KeepsRows
<1> QED
  BY <1>2, <1>4 DEF Beside, wide, result

\* A call that writes beside the names and leaves them and the parameters alone.
LEMMA BesideKeeps ==
  ASSUME TypeInv, NamesFind, NEW result, Beside(mData, result), mData' = result.data, SameNames, Same
  PROVE  TypeInv' /\ NamesFind'
<1>1. TypeInv'
  BY DEF TypeInv, Beside, SameNames, Same
<1>2. ColumnsFound(result.data, mLabelParams, mColumnNames, outdated.columns)
  BY NamesFindIs, ColumnsStayFound DEF Beside, TypeInv
<1>3. RowsFound(result.data, mLabelParams, mRowNames, outdated.rows)
  BY NamesFindIs, RowsStayFound DEF Beside, TypeInv
<1> QED
  BY <1>1, <1>2, <1>3, NamesFindNext DEF SameNames, Same

LEMMA StutterKeeps ==
  ASSUME TypeInv, NamesFind, UNCHANGED <<doc, file, outdated>>
  PROVE  TypeInv' /\ NamesFind'
<1>1. UNCHANGED <<mData, mColumnNames, mRowNames, mLabelParams, mHasCR, mHasUtf8BOM, mParams, file, outdated>>
  BY DEF doc
<1>2. TypeInv'
  BY <1>1 DEF TypeInv
<1>3. NamesFind'
  BY <1>1, NamesFindIs, NamesFindNext
<1> QED
  BY <1>2, <1>3

\* The cells of a list at places of their own.
LEMMA PutsAre ==
  ASSUME NEW C, NEW cells \in Seq(Seq(C)), NEW puts, puts = [i \in DOMAIN cells |-> puts[i]],
         \A i \in 1..Len(cells) :
           /\ puts[i] = [row |-> puts[i].row, column |-> puts[i].column, cell |-> cells[i]]
           /\ puts[i].row \in Nat /\ puts[i].column \in Nat
  PROVE  puts \in Puts(C) /\ Len(puts) = Len(cells) /\ \A i \in 1..Len(cells) : puts[i].cell = cells[i]
<1> DEFINE k == Len(cells)
           D == [row : Nat, column : Nat, cell : Seq(C)]
<1>1. k \in Nat /\ DOMAIN cells = 1..k /\ \A i \in 1..k : cells[i] \in Seq(C)
  OBVIOUS
<1>2. \A i \in 1..k : puts[i] \in D /\ puts[i].cell = cells[i]
  BY <1>1
<1>3. puts = [i \in 1..k |-> puts[i]]
  BY <1>1
<1> HIDE DEF D, k
<1>4. puts \in Seq(D) /\ Len(puts) = k
  BY <1>1, <1>2, <1>3, FunctionIsSeq
<1> QED
  BY <1>2, <1>4 DEF Puts, D, k

LEMMA IndexIs ==
  ASSUME TypeInv, NEW i \in Nat
  PROVE  /\ GetDataRowIndex(i) \in Nat /\ GetDataRowIndex(i) > mLabelParams.column /\ GetDataRowIndex(i) >= i
         /\ GetDataColumnIndex(i) \in Nat /\ GetDataColumnIndex(i) > mLabelParams.row /\ GetDataColumnIndex(i) >= i
  BY DEF TypeInv, IsLabels, GetDataRowIndex, GetDataColumnIndex

LEMMA IndicesBelow ==
  ASSUME TypeInv, NEW k \in Nat
  PROVE  \A i \in 1..k :
           /\ GetDataRowIndex(i - 1) \in Nat /\ GetDataRowIndex(i - 1) > mLabelParams.column
           /\ GetDataColumnIndex(i - 1) \in Nat /\ GetDataColumnIndex(i - 1) > mLabelParams.row
<1> TAKE i \in 1..k
<1> DEFINE m == i - 1
<1>1. m \in Nat
  OBVIOUS
<1> HIDE DEF m
<1>2. /\ GetDataRowIndex(m) \in Nat /\ GetDataRowIndex(m) > mLabelParams.column
      /\ GetDataColumnIndex(m) \in Nat /\ GetDataColumnIndex(m) > mLabelParams.row
  BY <1>1, IndexIs
<1> QED
  BY <1>2 DEF m

LEMMA SetColumnKeeps ==
  ASSUME TypeInv, NamesFind, NEW c \in Columns, NEW cells \in Lists, SetColumn(c, cells)
  PROVE  TypeInv' /\ NamesFind'
<1>1. CASE c < 0
  BY <1>1, StutterKeeps DEF SetColumn, Throw
<1>2. CASE ~(c < 0)
  <2> DEFINE column == GetDataColumnIndex(c)
             rows == GetDataRowIndex(Len(cells))
             width == GetDataColumnIndex(column + 1)
             puts == [i \in DOMAIN cells |->
                        [row |-> GetDataRowIndex(i - 1), column |-> column, cell |-> cells[i]]]
             result == Written(Sized(mData, rows, column + 1, width), puts)
  <2>1. mData' = result.data /\ SameNames /\ Same
    BY <1>2 DEF SetColumn, Changed, Sized, GetDataColumnCount
  <2>2. cells \in Seq(Seq(Chars)) /\ Len(cells) \in Nat /\ DOMAIN cells = 1..Len(cells)
    BY ListsAre
  <2>3. c \in Nat
    BY <1>2, IndicesAre
  <2>4. column \in Nat /\ column > mLabelParams.row
    BY <2>3, IndicesAre
  <2>5. rows \in Int /\ width \in Nat /\ width >= column + 1 /\ width > mLabelParams.row
    <3> HIDE DEF column
    <3>1. Len(cells) \in Nat /\ column + 1 \in Nat
      BY <2>2, <2>4
    <3>2. rows \in Nat
      BY <3>1, IndexIs
    <3>3. width \in Nat /\ width >= column + 1 /\ width > mLabelParams.row
      BY <3>1, IndexIs
    <3> QED
      BY <3>2, <3>3
  <2>6. \A i \in 1..Len(cells) : GetDataRowIndex(i - 1) \in Nat /\ GetDataRowIndex(i - 1) > mLabelParams.column
    BY <2>2, IndicesBelow
  <2>7. puts = [i \in DOMAIN cells |-> puts[i]]
        /\ \A i \in 1..Len(cells) :
             /\ puts[i] = [row |-> puts[i].row, column |-> puts[i].column, cell |-> cells[i]]
             /\ puts[i].row = GetDataRowIndex(i - 1) /\ puts[i].column = column
    BY <2>2
  <2> HIDE DEF puts, column, rows, width
  <2>8. puts \in Puts(Chars) /\ Len(puts) = Len(cells)
    BY <2>2, <2>4, <2>6, <2>7, PutsAre
  <2>9. \A i \in 1..Len(puts) : puts[i].row > mLabelParams.column /\ puts[i].column > mLabelParams.row
    BY <2>4, <2>6, <2>7, <2>8
  <2>10. Beside(mData, result)
    <3> DEFINE asked == column + 1
    <3>1. asked \in Nat /\ (asked > 0 => width > mLabelParams.row) /\ width >= asked
          /\ mData \in Table(Chars) /\ IsLabels(mLabelParams)
      BY <2>4, <2>5 DEF TypeInv
    <3> HIDE DEF asked
    <3>2. Beside(mData, Written(Sized(mData, rows, asked, width), puts))
      BY <2>5, <2>8, <2>9, <3>1, PutBeside
    <3> QED
      BY <3>2 DEF asked
  <2> HIDE DEF result
  <2> QED
    BY <2>1, <2>10, BesideKeeps
<1> QED
  BY <1>1, <1>2

LEMMA SetRowKeeps ==
  ASSUME TypeInv, NamesFind, NEW r \in Rows, NEW cells \in Lists, SetRow(r, cells)
  PROVE  TypeInv' /\ NamesFind'
<1>1. CASE r < 0
  BY <1>1, StutterKeeps DEF SetRow, Throw
<1>2. CASE ~(r < 0)
  <2> DEFINE row == GetDataRowIndex(r)
             width == GetDataColumnIndex(Len(cells))
             puts == [i \in DOMAIN cells |->
                        [row |-> row, column |-> GetDataColumnIndex(i - 1), cell |-> cells[i]]]
             result == Written(Sized(mData, row + 1, Len(cells), width), puts)
  <2>1. mData' = result.data /\ SameNames /\ Same
    BY <1>2 DEF SetRow, Changed, Sized, GetDataColumnCount
  <2>2. cells \in Seq(Seq(Chars)) /\ Len(cells) \in Nat /\ DOMAIN cells = 1..Len(cells)
    BY ListsAre
  <2>3. r \in Nat
    BY <1>2, IndicesAre
  <2>4. row \in Nat /\ row > mLabelParams.column
    BY <2>3, IndicesAre
  <2>5. width \in Nat /\ width >= Len(cells) /\ width > mLabelParams.row
    BY <2>2, IndexIs
  <2>6. \A i \in 1..Len(cells) : GetDataColumnIndex(i - 1) \in Nat /\ GetDataColumnIndex(i - 1) > mLabelParams.row
    BY <2>2, IndicesBelow
  <2>7. puts = [i \in DOMAIN cells |-> puts[i]]
        /\ \A i \in 1..Len(cells) :
             /\ puts[i] = [row |-> puts[i].row, column |-> puts[i].column, cell |-> cells[i]]
             /\ puts[i].column = GetDataColumnIndex(i - 1) /\ puts[i].row = row
    BY <2>2
  <2> HIDE DEF puts, row, width
  <2>8. puts \in Puts(Chars) /\ Len(puts) = Len(cells)
    BY <2>2, <2>4, <2>6, <2>7, PutsAre
  <2>9. \A i \in 1..Len(puts) : puts[i].row > mLabelParams.column /\ puts[i].column > mLabelParams.row
    BY <2>4, <2>6, <2>7, <2>8
  <2>10. Beside(mData, result)
    <3> DEFINE asked == Len(cells)
               rows == row + 1
    <3>1. asked \in Nat /\ (asked > 0 => width > mLabelParams.row) /\ width >= asked /\ rows \in Int
          /\ mData \in Table(Chars) /\ IsLabels(mLabelParams)
      BY <2>2, <2>4, <2>5 DEF TypeInv
    <3> HIDE DEF asked, rows
    <3>2. Beside(mData, Written(Sized(mData, rows, asked, width), puts))
      BY <2>5, <2>8, <2>9, <3>1, PutBeside
    <3> QED
      BY <3>2 DEF asked, rows
  <2> HIDE DEF result
  <2> QED
    BY <2>1, <2>10, BesideKeeps
<1> QED
  BY <1>1, <1>2

LEMMA SetCellKeeps ==
  ASSUME TypeInv, NamesFind, NEW c \in Columns, NEW r \in Rows, NEW cell \in Cells, SetCell(c, r, cell)
  PROVE  TypeInv' /\ NamesFind'
<1>1. CASE c < 0 \/ r < 0
  BY <1>1, StutterKeeps DEF SetCell, Throw
<1>2. CASE ~(c < 0 \/ r < 0)
  <2> DEFINE row == GetDataRowIndex(r)
             column == GetDataColumnIndex(c)
             width == column + 1
             put == [row |-> row, column |-> column, cell |-> cell]
             puts == <<put>>
             result == Written(Sized(mData, row + 1, width, width), puts)
  <2>1. mData' = result.data /\ SameNames /\ Same
    BY <1>2 DEF SetCell, Changed, Sized, GetDataColumnCount
  <2>2. cell \in Seq(Chars)
    BY CharsAre
  <2>3. r \in Nat /\ c \in Nat
    BY <1>2, IndicesAre
  <2>4. row \in Nat /\ row > mLabelParams.column /\ column \in Nat /\ column > mLabelParams.row
        /\ width \in Nat /\ width > mLabelParams.row
    BY <2>3, IndicesAre
  <2> HIDE DEF row, column, width
  <2> DEFINE D == [row : Nat, column : Nat, cell : Seq(Chars)]
  <2>5. put \in D /\ put.row = row /\ put.column = column
    BY <2>2, <2>4
  <2> HIDE DEF put, D
  <2>6. puts \in Seq(D) /\ Len(puts) = 1 /\ puts[1] = put
    BY <2>5, OneAndTwo
  <2> HIDE DEF puts
  <2>7. puts \in Puts(Chars)
    BY <2>6 DEF Puts, D
  <2>8. \A i \in 1..Len(puts) : i = 1
    BY <2>6
  <2>9. \A i \in 1..Len(puts) : puts[i].row > mLabelParams.column /\ puts[i].column > mLabelParams.row
    BY <2>4, <2>5, <2>6, <2>8
  <2>10. Beside(mData, result)
    <3>1. row + 1 \in Int /\ width >= width
      BY <2>4
    <3> QED
      BY <2>4, <2>7, <2>9, <3>1, PutBeside DEF TypeInv
  <2> HIDE DEF result
  <2> QED
    BY <2>1, <2>10, BesideKeeps
<1> QED
  BY <1>1, <1>2

----------------------------------------------------------------------------
(* The calls that change names *)

LEMMA OneOfTwo ==
  ASSUME NEW a, NEW b, NEW v
  PROVE  /\ [[columns |-> a, rows |-> b] EXCEPT !.columns = v] = [columns |-> v, rows |-> b]
         /\ [[columns |-> a, rows |-> b] EXCEPT !.rows = v] = [columns |-> a, rows |-> v]
  OBVIOUS

LEMMA OutdatedIs ==
  ASSUME TypeInv, NEW v
  PROVE  /\ [outdated EXCEPT !.columns = v] = [columns |-> v, rows |-> outdated.rows]
         /\ [outdated EXCEPT !.rows = v] = [columns |-> outdated.columns, rows |-> v]
  BY OneOfTwo DEF TypeInv

\* What has to be shown of a call that leaves the parameters and the file alone.
LEMMA ChangeKeeps ==
  ASSUME TypeInv, Same, mData' \in Table(Chars), IsPlaces(mColumnNames'), IsPlaces(mRowNames'),
         NEW columns, NEW rows, outdated' = [columns |-> columns, rows |-> rows],
         ColumnsFound(mData', mLabelParams, mColumnNames', columns),
         RowsFound(mData', mLabelParams, mRowNames', rows)
  PROVE  TypeInv' /\ NamesFind'
<1>1. outdated'.columns = columns /\ outdated'.rows = rows
  OBVIOUS
<1>2. TypeInv'
  BY <1>1 DEF TypeInv, Same
<1>3. NamesFind'
  BY <1>1, NamesFindNext DEF Same
<1> QED
  BY <1>2, <1>3

\* The cell of a row that is its name stays.
KeepsName(row, new) ==
  mLabelParams.row >= 0 /\ mLabelParams.row < Len(row) =>
    mLabelParams.row < Len(new) /\ new[mLabelParams.row + 1] = row[mLabelParams.row + 1]

LEMMA RowByRowKeeps ==
  ASSUME NEW data \in Table(Chars), NEW bad, NEW newRow,
         \A r \in 1..Len(data) : bad[r] = "ok" => newRow[r] \in Seq(Seq(Chars)) /\ KeepsName(data[r], newRow[r])
  PROVE  /\ RowByRow(data, bad, newRow).data \in Table(Chars)
         /\ KeepsRows(mLabelParams, data, RowByRow(data, bad, newRow).data)
<1> DEFINE result == RowByRow(data, bad, newRow)
           l == mLabelParams
<1>1. IsRowByRow(Chars, data, bad, newRow, result)
  BY RowByRowIs
<1> HIDE DEF result
<1>2. ASSUME l.row >= 0, NEW r \in Nat, NEW x, Holds(data, r, l.row, x)
      PROVE  Holds(result.data, r, l.row, x)
  <2> DEFINE q == r + 1
  <2>1. q \in 1..Len(data) /\ l.row < Len(data[q]) /\ data[q][l.row + 1] = x
    BY <1>2, TableIs DEF Holds, Inside
  <2> HIDE DEF q
  <2>2. Len(result.data) = Len(data)
        /\ (result.data[q] = data[q] \/ (bad[q] = "ok" /\ result.data[q] = newRow[q]))
    BY <1>1, <2>1 DEF IsRowByRow
  <2>3. KeepsName(data[q], result.data[q])
    BY <2>1, <2>2 DEF KeepsName
  <2>4. q \in 1..Len(result.data) /\ l.row < Len(result.data[q]) /\ result.data[q][l.row + 1] = x
    BY <1>2, <2>1, <2>2, <2>3 DEF KeepsName
  <2>5. Len(result.data) \in Nat
    BY <1>1, TableIs DEF IsRowByRow
  <2>6. r < Len(result.data)
    BY <2>4, <2>5 DEF q
  <2> QED
    BY <2>4, <2>6 DEF Holds, Inside, q
<1> QED
  BY <1>1, <1>2 DEF IsRowByRow, KeepsRows, result

LEMMA RemoveColumnKeeps ==
  ASSUME TypeInv, NamesFind, NEW c \in Columns, RemoveColumn(c)
  PROVE  TypeInv' /\ NamesFind'
<1>1. CASE c < 0
  BY <1>1, StutterKeeps DEF RemoveColumn, Throw
<1>2. CASE ~(c < 0)
  <2> DEFINE column == GetDataColumnIndex(c)
             bad == [r \in DOMAIN mData |-> IF column < Len(mData[r]) THEN "ok" ELSE "undefined"]
             newRow == [r \in DOMAIN mData |-> RemoveAt(mData[r], column + 1)]
             result == RowByRow(mData, bad, newRow)
             map == UpdateColumnNames(result.data, mLabelParams)
  <2>1. mData' = result.data /\ mColumnNames' = map /\ outdated' = [outdated EXCEPT !.columns = {}]
        /\ mRowNames' = mRowNames /\ Same
    BY <1>2 DEF RemoveColumn, Changed
  <2>2. c \in Nat
    BY <1>2, IndicesAre
  <2>3. column \in Nat /\ column > mLabelParams.row
    BY <2>2, IndexIs
  <2>4. mData \in Table(Chars) /\ IsLabels(mLabelParams)
    BY DEF TypeInv
  <2> HIDE DEF column
  <2>5. ASSUME NEW r \in 1..Len(mData), bad[r] = "ok"
        PROVE  newRow[r] \in Seq(Seq(Chars)) /\ KeepsName(mData[r], newRow[r])
    <3> DEFINE row == mData[r]
               p == column + 1
    <3>1. r \in DOMAIN mData /\ row \in Seq(Seq(Chars)) /\ Len(row) \in Nat
      BY <2>4, TableIs
    <3>2. column < Len(row) /\ newRow[r] = RemoveAt(row, p)
      BY <2>5, <3>1
    <3>3. p \in 1..Len(row)
      BY <2>3, <3>1, <3>2
    <3> HIDE DEF newRow, row, p
    <3>4. newRow[r] \in Seq(Seq(Chars)) /\ IsRemoved(row, p, newRow[r])
      BY <3>1, <3>2, <3>3, RemoveAtIs
    <3>5. mLabelParams.row \in Int
      BY <2>4 DEF IsLabels
    <3>6. mLabelParams.row >= 0 => mLabelParams.row + 1 \in 1..(p - 1) /\ mLabelParams.row < Len(row) - 1
      BY <2>3, <3>1, <3>2, <3>5 DEF p
    <3>7. KeepsName(row, newRow[r])
      BY <3>4, <3>6 DEF KeepsName, IsRemoved
    <3> QED
      BY <3>4, <3>7 DEF row
  <2> HIDE DEF bad, newRow
  <2>6. result.data \in Table(Chars) /\ KeepsRows(mLabelParams, mData, result.data)
    BY <2>4, <2>5, RowByRowKeeps
  <2> HIDE DEF result
  <2>7. IsPlaces(map) /\ ColumnsFound(result.data, mLabelParams, map, {})
    <3>1. \A n \in DOMAIN map : map[n] \in Nat
                                /\ (mLabelParams.column \in Nat => Holds(result.data, mLabelParams.column, map[n], n))
      BY <2>4, <2>6, ColumnNamesFind
    <3>2. mLabelParams.column >= 0 => mLabelParams.column \in Nat
      BY <2>4 DEF IsLabels
    <3> HIDE DEF map
    <3> QED
      BY <3>1, <3>2 DEF IsPlaces, ColumnsFound
  <2> HIDE DEF map
  <2>8. RowsFound(result.data, mLabelParams, mRowNames, outdated.rows) /\ IsPlaces(mRowNames)
    BY <2>6, NamesFindIs, RowsStayFound DEF TypeInv
  <2>9. outdated' = [columns |-> {}, rows |-> outdated.rows]
    BY <2>1, OutdatedIs
  <2> QED
    BY <2>1, <2>6, <2>7, <2>8, <2>9, ChangeKeeps
<1> QED
  BY <1>1, <1>2

\* A name that is put into the row of the column names.
IsColumnNamed(data, names, column, n, result) ==
  /\ result.data = PutInto(data, mLabelParams.column, column, n)
  /\ mLabelParams.column \in Nat /\ column \in Nat /\ column > mLabelParams.row
  /\ DOMAIN result.names = DOMAIN names \union {n}
  /\ \A m \in DOMAIN names \union {n} : result.names[m] = IF m = n THEN column ELSE names[m]

LEMMA WithColumnNameIs ==
  ASSUME IsLabels(mLabelParams), mLabelParams.column >= 0, NEW data, NEW names, NEW c \in Nat, NEW n
  PROVE  IsColumnNamed(data, names, GetDataColumnIndex(c), n, WithColumnName(data, names, c, n))
<1> DEFINE column == GetDataColumnIndex(c)
           result == WithColumnName(data, names, c, n)
<1>1. mLabelParams.column \in Nat /\ column \in Nat /\ column > mLabelParams.row
  BY DEF IsLabels, GetDataColumnIndex
<1>2. result.data = PutInto(data, mLabelParams.column, column, n)
  BY DEF WithColumnName, PutInto
<1>3. result.names = [m \in DOMAIN names \union {n} |-> IF m = n THEN column ELSE names[m]]
  BY DEF WithColumnName
<1> HIDE DEF column, result
<1>4. IsColumnNamed(data, names, column, n, result)
  BY <1>1, <1>2, <1>3 DEF IsColumnNamed
<1> QED
  BY <1>4 DEF column, result

\* It keeps the names of the rows.
LEMMA NamedColumnKeeps ==
  ASSUME IsLabels(mLabelParams), mLabelParams.column >= 0, NEW data \in Table(Chars), NEW names, NEW c \in Nat,
         NEW n \in Seq(Chars), NEW new, new = WithColumnName(data, names, c, n).data
  PROVE  new \in Table(Chars) /\ KeepsRows(mLabelParams, data, new)
<1> DEFINE column == GetDataColumnIndex(c)
           l == mLabelParams
<1>1. new = PutInto(data, l.column, column, n) /\ l.column \in Nat /\ column \in Nat /\ column > l.row
  <2>1. WithColumnName(data, names, c, n).data = PutInto(data, l.column, column, n)
    BY DEF WithColumnName, PutInto
  <2>2. l.column \in Nat /\ column \in Nat /\ column > l.row
    BY DEF IsLabels, GetDataColumnIndex
  <2> QED
    BY <2>1, <2>2
<1> HIDE DEF column
<1>2. /\ new \in Table(Chars)
      /\ \A r1, c1 \in Nat : \A x : Holds(data, r1, c1, x) /\ ~(r1 = l.column /\ c1 = column) => Holds(new, r1, c1, x)
  <2>1. IsPutInto(Chars, data, l.column, column, n, PutInto(data, l.column, column, n))
    BY <1>1, PutIntoIs
  <2> QED
    BY <1>1, <2>1 DEF IsPutInto
<1>3. l.row >= 0 => l.row \in Nat /\ l.row # column
  BY <1>1 DEF IsLabels
<1> QED
  BY <1>2, <1>3 DEF KeepsRows

LEMMA SetColumnNameKeeps ==
  ASSUME TypeInv, NamesFind, NEW c \in 0..MaxIndex, NEW n \in Names, SetColumnName(c, n)
  PROVE  TypeInv' /\ NamesFind'
<1>1. CASE mLabelParams.column < 0
  BY <1>1, StutterKeeps DEF SetColumnName, Throw
<1>2. CASE ~(mLabelParams.column < 0)
  <2> DEFINE l == mLabelParams
             column == GetDataColumnIndex(c)
             result == WithColumnName(mData, mColumnNames, c, n)
             new == result.data
             map == result.names
             wrong == (outdated.columns \union GetColumnName(c)) \ {n}
  <2>1. mData' = new /\ mColumnNames' = map /\ mRowNames' = mRowNames /\ Same
        /\ outdated' = [outdated EXCEPT !.columns = wrong]
    BY <1>2 DEF SetColumnName, Changed
  <2>2. c \in Nat /\ n \in Seq(Chars)
    BY IndicesAre, CharsAre
  <2>3. mData \in Table(Chars) /\ IsLabels(l) /\ IsPlaces(mColumnNames) /\ IsPlaces(mRowNames)
    BY DEF TypeInv
  <2>4. l.column >= 0
    BY <1>2, <2>3 DEF IsLabels
  <2>5. /\ new = PutInto(mData, l.column, column, n)
        /\ l.column \in Nat /\ column \in Nat /\ column > l.row
        /\ DOMAIN map = DOMAIN mColumnNames \union {n}
        /\ \A m \in DOMAIN mColumnNames \union {n} : map[m] = IF m = n THEN column ELSE mColumnNames[m]
    <3>1. IsColumnNamed(mData, mColumnNames, column, n, result)
      BY <2>2, <2>3, <2>4, WithColumnNameIs
    <3> HIDE DEF column, result
    <3> QED
      BY <3>1 DEF IsColumnNamed
  <2>6. new \in Table(Chars) /\ KeepsRows(l, mData, new)
    BY <2>2, <2>3, <2>4, NamedColumnKeeps
  <2>7. outdated' = [columns |-> wrong, rows |-> outdated.rows]
    BY <2>1, OutdatedIs
  <2>8. GetColumnName(c) = IF Inside(mData, l.column, column) THEN {mData[l.column + 1][column + 1]} ELSE {}
    BY <2>4 DEF GetColumnName
  <2> HIDE DEF column, new, map, result
  <2>9. /\ Holds(new, l.column, column, n)
        /\ \A r1, c1 \in Nat : \A x : Holds(mData, r1, c1, x) /\ ~(r1 = l.column /\ c1 = column) => Holds(new, r1, c1, x)
    <3>1. IsPutInto(Chars, mData, l.column, column, n, PutInto(mData, l.column, column, n))
      BY <2>2, <2>3, <2>5, PutIntoIs
    <3> QED
      BY <2>5, <3>1 DEF IsPutInto
  <2>10. IsPlaces(map)
    BY <2>3, <2>5 DEF IsPlaces
  <2>11. ASSUME NEW m \in DOMAIN map \ wrong PROVE Holds(new, l.column, map[m], m)
    <3>1. CASE m = n
      BY <2>5, <2>9, <3>1
    <3>2. CASE m # n
      <4>1. m \in DOMAIN mColumnNames \ outdated.columns /\ m \notin GetColumnName(c) /\ map[m] = mColumnNames[m]
        BY <2>5, <2>11, <3>2
      <4>2. Holds(mData, l.column, mColumnNames[m], m)
        BY <2>4, <4>1, NamesFindIs DEF ColumnsFound
      <4>3. mColumnNames[m] # column
        BY <2>8, <4>1, <4>2 DEF Holds
      <4>4. mColumnNames[m] \in Nat
        BY <2>3, <4>1 DEF IsPlaces
      <4> QED
        BY <2>5, <2>9, <4>1, <4>2, <4>3, <4>4
    <3> QED
      BY <3>1, <3>2
  <2> HIDE DEF wrong
  <2>12. ColumnsFound(new, l, map, wrong)
    BY <2>11 DEF ColumnsFound
  <2>13. RowsFound(new, l, mRowNames, outdated.rows)
    BY <2>3, <2>6, NamesFindIs, RowsStayFound
  <2> QED
    BY <2>1, <2>3, <2>6, <2>7, <2>10, <2>12, <2>13, ChangeKeeps
<1> QED
  BY <1>1, <1>2

\* The name of a row of a table.
LEMMA WithRowNameIs ==
  ASSUME TypeInv, NEW data, NEW r \in Nat, NEW n
  PROVE  LET row == GetDataRowIndex(r)
             result == WithRowName(data, r, n)
         IN  /\ row \in Nat /\ row > mLabelParams.column
             /\ mLabelParams.row >= 0 => /\ mLabelParams.row \in Nat /\ result.outcome = "ok"
                                         /\ result.data = PutInto(data, row, mLabelParams.row, n)
             /\ ~(mLabelParams.row >= 0) => result.data = data /\ result.outcome = "threw"
<1> DEFINE row == GetDataRowIndex(r)
           result == WithRowName(data, r, n)
<1>1. row \in Nat /\ row > mLabelParams.column
  BY IndexIs
<1>2. mLabelParams.row \in Nat \union {-1}
  BY DEF TypeInv, IsLabels
<1> HIDE DEF row
<1>3. CASE mLabelParams.row >= 0
  <2>1. ~(mLabelParams.row < 0)
    BY <1>2, <1>3
  <2>2. result.outcome = "ok" /\ result.data = PutInto(data, row, mLabelParams.row, n)
    BY <2>1 DEF WithRowName, PutInto, row
  <2> QED
    BY <1>1, <1>2, <1>3, <2>2 DEF row
<1>4. CASE ~(mLabelParams.row >= 0)
  <2>1. mLabelParams.row < 0
    BY <1>2, <1>4
  <2> QED
    BY <1>1, <1>4, <2>1 DEF WithRowName, row
<1> QED
  BY <1>3, <1>4

LEMMA NamedRowKeeps ==
  ASSUME TypeInv, NEW data \in Table(Chars), NEW r \in Nat, NEW n \in Seq(Chars), NEW new,
         new = WithRowName(data, r, n).data
  PROVE  new \in Table(Chars) /\ KeepsColumns(mLabelParams, data, new)
<1> DEFINE row == GetDataRowIndex(r)
           l == mLabelParams
<1>1. /\ row \in Nat /\ row > l.column
      /\ l.row >= 0 => l.row \in Nat /\ new = PutInto(data, row, l.row, n)
      /\ ~(l.row >= 0) => new = data
  BY WithRowNameIs
<1> HIDE DEF row
<1>2. l.column >= 0 => l.column \in Nat /\ l.column # row
  BY <1>1 DEF TypeInv, IsLabels
<1>3. CASE l.row >= 0
  <2>1. /\ new \in Table(Chars)
        /\ \A r1, c1 \in Nat : \A x : Holds(data, r1, c1, x) /\ ~(r1 = row /\ c1 = l.row) => Holds(new, r1, c1, x)
    <3>1. IsPutInto(Chars, data, row, l.row, n, PutInto(data, row, l.row, n))
      BY <1>1, <1>3, PutIntoIs
    <3> QED
      BY <1>1, <1>3, <3>1 DEF IsPutInto
  <2> QED
    BY <1>2, <2>1 DEF KeepsColumns
<1>4. CASE ~(l.row >= 0)
  BY <1>1, <1>4 DEF KeepsColumns
<1> QED
  BY <1>3, <1>4

LEMMA SetRowNameKeeps ==
  ASSUME TypeInv, NamesFind, NEW r \in 0..MaxIndex, NEW n \in Names, SetRowName(r, n)
  PROVE  TypeInv' /\ NamesFind'
<1> DEFINE l == mLabelParams
           row == GetDataRowIndex(r)
           new == WithRowName(mData, r, n).data
           map == RenamedRow(mRowNames, r, n)
           wrong == (outdated.rows \union GetRowName(r)) \ {n}
<1>1. mData' = new /\ mRowNames' = map /\ mColumnNames' = mColumnNames /\ Same
      /\ outdated' = [outdated EXCEPT !.rows = wrong]
  BY DEF SetRowName, Changed
<1>2. r \in Nat /\ n \in Seq(Chars)
  BY IndicesAre, CharsAre
<1>3. mData \in Table(Chars) /\ IsLabels(l) /\ IsPlaces(mColumnNames) /\ IsPlaces(mRowNames)
  BY DEF TypeInv
<1>4. row \in Nat /\ (l.row >= 0 => l.row \in Nat /\ new = PutInto(mData, row, l.row, n))
  BY <1>2, WithRowNameIs
<1>5. new \in Table(Chars) /\ KeepsColumns(l, mData, new)
  BY <1>2, <1>3, NamedRowKeeps
<1>6. outdated' = [columns |-> outdated.columns, rows |-> wrong]
  BY <1>1, OutdatedIs
<1>7. l.row >= 0 => GetRowName(r) = IF Inside(mData, row, l.row) THEN {mData[row + 1][l.row + 1]} ELSE {}
  BY DEF GetRowName
<1>8. DOMAIN map = DOMAIN mRowNames \union {n}
      /\ \A m \in DOMAIN mRowNames \union {n} : map[m] = IF m = n THEN row ELSE mRowNames[m]
  BY DEF RenamedRow
<1> HIDE DEF row, new, map
<1>9. l.row >= 0 =>
        /\ Holds(new, row, l.row, n)
        /\ \A r1, c1 \in Nat : \A x : Holds(mData, r1, c1, x) /\ ~(r1 = row /\ c1 = l.row) => Holds(new, r1, c1, x)
  <2> SUFFICES ASSUME l.row >= 0
               PROVE  /\ Holds(new, row, l.row, n)
                      /\ \A r1, c1 \in Nat : \A x :
                           Holds(mData, r1, c1, x) /\ ~(r1 = row /\ c1 = l.row) => Holds(new, r1, c1, x)
    OBVIOUS
  <2>1. IsPutInto(Chars, mData, row, l.row, n, PutInto(mData, row, l.row, n))
    BY <1>2, <1>3, <1>4, PutIntoIs
  <2> QED
    BY <1>4, <2>1 DEF IsPutInto
<1>10. IsPlaces(map)
  BY <1>3, <1>4, <1>8 DEF IsPlaces
<1>11. ASSUME l.row >= 0, NEW m \in DOMAIN map \ wrong PROVE Holds(new, map[m], l.row, m)
  <2>1. CASE m = n
    BY <1>8, <1>9, <1>11, <2>1
  <2>2. CASE m # n
    <3>1. m \in DOMAIN mRowNames \ outdated.rows /\ m \notin GetRowName(r) /\ map[m] = mRowNames[m]
      BY <1>8, <1>11, <2>2
    <3>2. Holds(mData, mRowNames[m], l.row, m)
      BY <1>11, <3>1, NamesFindIs DEF RowsFound
    <3>3. mRowNames[m] # row
      BY <1>7, <1>11, <3>1, <3>2 DEF Holds
    <3>4. mRowNames[m] \in Nat /\ l.row \in Nat
      BY <1>3, <1>4, <1>11, <3>1 DEF IsPlaces
    <3> QED
      BY <1>9, <1>11, <3>1, <3>2, <3>3, <3>4
  <2> QED
    BY <2>1, <2>2
<1> HIDE DEF wrong
<1>12. RowsFound(new, l, map, wrong)
  BY <1>11 DEF RowsFound
<1>13. ColumnsFound(new, l, mColumnNames, outdated.columns)
  BY <1>3, <1>5, NamesFindIs, ColumnsStayFound
<1> QED
  BY <1>1, <1>3, <1>5, <1>6, <1>10, <1>12, <1>13, ChangeKeeps

LEMMA Padded ==
  ASSUME NEW C, NEW n \in Nat, NEW cells \in Seq(Seq(C))
  PROVE  Resized(<< >>, n) \in Seq(Seq(C)) /\ Resized(<< >>, n) \o cells \in Seq(Seq(C))
<1> DEFINE row == Resized(<< >>, n)
<1>1. << >> \in Seq(Seq(C))
  OBVIOUS
<1>2. row \in Seq(Seq(C))
  BY <1>1, ResizedIs
<1> HIDE DEF row
<1>3. row \o cells \in Seq(Seq(C))
  BY <1>2, Concatenation
<1> QED
  BY <1>2, <1>3 DEF row

\* A column is inserted after the names of the rows: what is left of the names and the table.
LEMMA InsertColumnKeeps ==
  ASSUME TypeInv, NamesFind, NEW c \in 0..MaxIndex, NEW cells \in Lists, NEW n \in Names \union {NoCell},
         InsertColumn(c, cells, n)
  PROVE  TypeInv' /\ NamesFind'
<1> DEFINE l == mLabelParams
           column == IF cells = << >> THEN Resized(<< >>, GetDataRowCount)
                     ELSE Resized(<< >>, l.column + 1) \o cells
           width == Max({l.column + 1, GetDataColumnCount})
           grown == Grown(mData, Len(column), width)
           place == GetDataColumnIndex(c)
           bad == [r \in DOMAIN grown |-> IF place > Len(grown[r]) THEN "undefined"
                                          ELSE IF r > Len(column) THEN "threw" ELSE "ok"]
           newRow == [r \in DOMAIN grown |-> InsertAt(grown[r], place + 1, column[r])]
           result == RowByRow(grown, bad, newRow)
           named  == result.outcome = "ok" /\ n # NoCell
           final  == IF ~named \/ l.column < 0 THEN result.data
                     ELSE WithColumnName(result.data, mColumnNames, c, n).data
           map == UpdateColumnNames(final, l)
<1>1. /\ mData' = final /\ mRowNames' = mRowNames /\ Same
      /\ IF outcome' = "ok" THEN mColumnNames' = map /\ outdated' = [outdated EXCEPT !.columns = {}]
         ELSE /\ mColumnNames' = mColumnNames
              /\ outdated' = [outdated EXCEPT !.columns = @ \union DOMAIN mColumnNames]
  BY DEF InsertColumn
<1>2. c \in Nat /\ n \in Seq(Chars) /\ cells \in Seq(Seq(Chars))
  BY IndicesAre, CharsAre, ListsAre
<1>3. mData \in Table(Chars) /\ IsLabels(l) /\ IsPlaces(mColumnNames) /\ IsPlaces(mRowNames)
  BY DEF TypeInv
<1>4. place \in Nat /\ place > l.row
  BY <1>2, IndexIs
<1>5. l.column + 1 \in Nat /\ GetDataRowCount \in Nat /\ GetDataColumnCount \in Nat
  <2>1. l.column + 1 \in Nat
    BY <1>3 DEF IsLabels
  <2>2. GetDataRowCount \in Nat
    BY <1>3, TableIs DEF GetDataRowCount
  <2> QED
    BY <2>1, <2>2, IndicesAre
<1>6. column \in Seq(Seq(Chars))
  BY <1>2, <1>5, Padded
<1>7. width \in Nat
  BY <1>5, LargerOf
<1> HIDE DEF column, width, place
<1>8. Len(column) \in Nat
  BY <1>6
<1>9. grown \in Table(Chars)
  BY <1>3, <1>7, <1>8, GrownIs DEF IsGrown
<1>10. KeepsRows(l, mData, grown)
  BY <1>3, <1>7, <1>8, GrownKeeps
<1> HIDE DEF grown
<1>11. ASSUME NEW r \in 1..Len(grown), bad[r] = "ok"
       PROVE  newRow[r] \in Seq(Seq(Chars)) /\ KeepsName(grown[r], newRow[r])
  <2> DEFINE row == grown[r]
             p == place + 1
             x == column[r]
  <2>1. r \in DOMAIN grown /\ row \in Seq(Seq(Chars)) /\ Len(row) \in Nat /\ r \in Nat \ {0}
    BY <1>9, TableIs
  <2>2. ~(place > Len(row)) /\ ~(r > Len(column)) /\ newRow[r] = InsertAt(row, p, x)
    BY <1>11, <2>1
  <2>3. p \in 1..(Len(row) + 1) /\ x \in Seq(Chars)
    BY <1>4, <1>6, <1>8, <2>1, <2>2
  <2> HIDE DEF newRow, row, p, x
  <2>4. newRow[r] \in Seq(Seq(Chars)) /\ IsInserted(row, p, x, newRow[r])
    BY <2>1, <2>2, <2>3, InsertAtIs
  <2>5. l.row \in Int
    BY <1>3 DEF IsLabels
  <2>6. l.row >= 0 /\ l.row < Len(row) => l.row + 1 \in 1..(p - 1) /\ l.row < Len(row) + 1
    BY <1>4, <2>1, <2>5 DEF p
  <2>7. KeepsName(row, newRow[r])
    BY <2>4, <2>6 DEF KeepsName, IsInserted
  <2> QED
    BY <2>4, <2>7 DEF row
<1> HIDE DEF bad, newRow
<1>12. result.data \in Table(Chars) /\ KeepsRows(l, grown, result.data)
  BY <1>9, <1>11, RowByRowKeeps
<1> HIDE DEF result
<1>13. final \in Table(Chars) /\ KeepsRows(l, result.data, final)
  <2>1. CASE ~named \/ l.column < 0
    BY <1>12, <2>1 DEF KeepsRows
  <2>2. CASE ~(~named \/ l.column < 0)
    <3>1. l.column >= 0 /\ final = WithColumnName(result.data, mColumnNames, c, n).data
      BY <1>3, <2>2 DEF IsLabels
    <3> HIDE DEF final
    <3> QED
      BY <1>2, <1>3, <1>12, <3>1, NamedColumnKeeps
  <2> QED
    BY <2>1, <2>2
<1> HIDE DEF final
<1>14. KeepsRows(l, mData, final)
  BY <1>10, <1>12, <1>13 DEF KeepsRows
<1>15. RowsFound(final, l, mRowNames, outdated.rows)
  BY <1>3, <1>14, NamesFindIs, RowsStayFound
<1>16. CASE outcome' = "ok"
  <2>1. \A m \in DOMAIN map : map[m] \in Nat /\ (l.column \in Nat => Holds(final, l.column, map[m], m))
    BY <1>3, <1>13, ColumnNamesFind
  <2> HIDE DEF map
  <2>2. l.column >= 0 => l.column \in Nat
    BY <1>3 DEF IsLabels
  <2>3. IsPlaces(map) /\ ColumnsFound(final, l, map, {})
    BY <2>1, <2>2 DEF IsPlaces, ColumnsFound
  <2>4. outdated' = [columns |-> {}, rows |-> outdated.rows]
    BY <1>1, <1>16, OutdatedIs
  <2> QED
    BY <1>1, <1>3, <1>13, <1>15, <1>16, <2>3, <2>4, ChangeKeeps
<1>17. CASE outcome' # "ok"
  <2> DEFINE wrong == outdated.columns \union DOMAIN mColumnNames
  <2>1. outdated' = [outdated EXCEPT !.columns = wrong] /\ mColumnNames' = mColumnNames
    BY <1>1, <1>17
  <2>2. ColumnsFound(final, l, mColumnNames, wrong)
    BY DEF ColumnsFound
  <2> HIDE DEF wrong
  <2>3. outdated' = [columns |-> wrong, rows |-> outdated.rows]
    BY <2>1, OutdatedIs
  <2> QED
    BY <1>1, <1>3, <1>13, <1>15, <2>1, <2>2, <2>3, ChangeKeeps
<1> QED
  BY <1>16, <1>17

\* The map of the row names when they have been read anew.
LEMMA RowsUpdated ==
  ASSUME NEW C, NEW data \in Table(C), NEW l, IsLabels(l)
  PROVE  /\ IsPlaces(UpdateRowNames(data, l))
         /\ RowsFound(data, l, UpdateRowNames(data, l), BehindShort(data, l))
<1> DEFINE map == UpdateRowNames(data, l)
           wrong == BehindShort(data, l)
<1>1. \A n \in DOMAIN map : map[n] \in Nat
  BY RowNamesType
<1>2. ASSUME l.row >= 0, NEW n \in DOMAIN map \ wrong PROVE Holds(data, map[n], l.row, n)
  BY <1>2, RowNamesFind
<1> HIDE DEF map, wrong
<1>3. IsPlaces(map) /\ RowsFound(data, l, map, wrong)
  BY <1>1, <1>2 DEF IsPlaces, RowsFound
<1> QED
  BY <1>3 DEF map, wrong

LEMMA RemoveRowKeeps ==
  ASSUME TypeInv, NamesFind, NEW r \in Rows, RemoveRow(r)
  PROVE  TypeInv' /\ NamesFind'
<1>1. CASE r < 0
  BY <1>1, StutterKeeps DEF RemoveRow, Throw
<1>2. CASE ~(r < 0)
  <2> DEFINE l == mLabelParams
             row == GetDataRowIndex(r)
             new == IF row < Len(mData) THEN RemoveAt(mData, row + 1) ELSE mData
             map == UpdateRowNames(new, l)
             wrong == BehindShort(new, l)
  <2>1. mData' = new /\ mRowNames' = map /\ mColumnNames' = mColumnNames /\ Same
        /\ outdated' = [outdated EXCEPT !.rows = wrong]
    BY <1>2 DEF RemoveRow, Changed
  <2>2. r \in Nat
    BY <1>2, IndicesAre
  <2>3. row \in Nat /\ row > l.column
    BY <2>2, IndexIs
  <2>4. mData \in Table(Chars) /\ IsLabels(l) /\ IsPlaces(mColumnNames)
    BY DEF TypeInv
  <2>5. Len(mData) \in Nat
    BY <2>4, TableIs
  <2> HIDE DEF row
  <2>6. new \in Table(Chars) /\ KeepsColumns(l, mData, new)
    <3>1. CASE row < Len(mData)
      <4> DEFINE p == row + 1
                 S == Seq(Seq(Chars))
      <4>1. p \in 1..Len(mData) /\ mData \in Seq(S) /\ new = RemoveAt(mData, p)
        BY <2>3, <2>4, <2>5, <3>1 DEF Table
      <4> HIDE DEF p, S, new
      <4>2. new \in Seq(S) /\ IsRemoved(mData, p, new)
        BY <4>1, RemoveAtIs
      <4>3. ASSUME l.column >= 0 PROVE l.column + 1 \in 1..(p - 1) /\ l.column < Len(mData) - 1
        BY <2>3, <2>4, <2>5, <3>1, <4>3 DEF p, IsLabels
      <4>4. KeepsColumns(l, mData, new)
        BY <4>2, <4>3 DEF KeepsColumns, IsRemoved, Holds, Inside
      <4> QED
        BY <4>2, <4>4 DEF Table, S
    <3>2. CASE ~(row < Len(mData))
      BY <2>4, <3>2 DEF KeepsColumns
    <3> QED
      BY <3>1, <3>2
  <2> HIDE DEF new
  <2>7. IsPlaces(map) /\ RowsFound(new, l, map, wrong)
    BY <2>4, <2>6, RowsUpdated
  <2> HIDE DEF map, wrong
  <2>9. ColumnsFound(new, l, mColumnNames, outdated.columns)
    BY <2>4, <2>6, NamesFindIs, ColumnsStayFound
  <2>10. outdated' = [columns |-> outdated.columns, rows |-> wrong]
    BY <2>1, OutdatedIs
  <2> QED
    BY <2>1, <2>4, <2>6, <2>7, <2>9, <2>10, ChangeKeeps
<1> QED
  BY <1>1, <1>2

LEMMA InsertRowKeeps ==
  ASSUME TypeInv, NamesFind, NEW r \in 0..MaxIndex, NEW cells \in Lists, NEW n \in Names \union {NoCell},
         InsertRow(r, cells, n)
  PROVE  TypeInv' /\ NamesFind'
<1> DEFINE l == mLabelParams
           place == GetDataRowIndex(r)
           count == GetDataColumnCount
           row == IF cells = << >> THEN Resized(<< >>, count) ELSE Resized(<< >>, l.row + 1) \o cells
           grown == Grown(mData, place, count)
           longer == InsertAt(grown, place + 1, row)
           result == IF n = NoCell THEN [data |-> longer, outcome |-> "ok"] ELSE WithRowName(longer, r, n)
           new == result.data
           map == IF result.outcome = "ok" THEN UpdateRowNames(new, l) ELSE RenamedRow(mRowNames, r, n)
           wrong == IF result.outcome = "ok" THEN BehindShort(new, l)
                    ELSE outdated.rows \union DOMAIN mRowNames
<1>1. mData' = new /\ mRowNames' = map /\ mColumnNames' = mColumnNames /\ Same
      /\ outdated' = [outdated EXCEPT !.rows = wrong]
  BY DEF InsertRow, Changed
<1>2. r \in Nat /\ n \in Seq(Chars) /\ cells \in Seq(Seq(Chars))
  BY IndicesAre, CharsAre, ListsAre
<1>3. mData \in Table(Chars) /\ IsLabels(l) /\ IsPlaces(mColumnNames) /\ IsPlaces(mRowNames)
  BY DEF TypeInv
<1>4. place \in Nat /\ place > l.column
  BY <1>2, IndexIs
<1>5. count \in Nat /\ l.row + 1 \in Nat
  <2>1. l.row + 1 \in Nat
    BY <1>3 DEF IsLabels
  <2> QED
    BY <2>1, IndicesAre
<1>6. row \in Seq(Seq(Chars))
  BY <1>2, <1>5, Padded
<1>7. IsPlaces(RenamedRow(mRowNames, r, n))
  BY <1>3, <1>4 DEF IsPlaces, RenamedRow
<1> HIDE DEF row, place, count
<1>8. grown \in Table(Chars) /\ Len(grown) >= place /\ Len(grown) \in Nat
  <2>1. IsGrown(Chars, mData, place, count, grown) /\ Len(mData) \in Nat
    BY <1>3, <1>4, <1>5, GrownIs, TableIs
  <2> QED
    BY <1>4, <2>1 DEF IsGrown
<1>9. KeepsColumns(l, mData, grown)
  BY <1>3, <1>4, <1>5, GrownKeeps
<1> HIDE DEF grown
<1>10. longer \in Table(Chars) /\ KeepsColumns(l, grown, longer)
  <2> DEFINE p == place + 1
             S == Seq(Seq(Chars))
  <2>1. p \in 1..(Len(grown) + 1) /\ grown \in Seq(S) /\ longer = InsertAt(grown, p, row) /\ row \in S
    BY <1>4, <1>6, <1>8 DEF Table
  <2>2. l.column >= 0 => l.column + 1 \in 1..(p - 1)
    BY <1>3, <1>4 DEF IsLabels
  <2>3. l.column \in Int
    BY <1>3 DEF IsLabels
  <2> HIDE DEF p, S, longer
  <2>4. longer \in Seq(S) /\ IsInserted(grown, p, row, longer)
    BY <2>1, InsertAtIs
  <2>5. KeepsColumns(l, grown, longer)
    BY <1>8, <2>2, <2>3, <2>4 DEF KeepsColumns, IsInserted, Holds, Inside
  <2> QED
    BY <2>4, <2>5 DEF Table, S
<1> HIDE DEF longer
<1>11. new \in Table(Chars) /\ KeepsColumns(l, longer, new)
  <2>1. CASE n = NoCell
    BY <1>10, <2>1 DEF KeepsColumns
  <2>2. CASE n # NoCell
    <3>1. new = WithRowName(longer, r, n).data
      BY <2>2
    <3> HIDE DEF new
    <3> QED
      BY <1>2, <1>10, <3>1, NamedRowKeeps
  <2> QED
    BY <2>1, <2>2
<1> HIDE DEF new
<1>12. KeepsColumns(l, mData, new)
  BY <1>9, <1>10, <1>11 DEF KeepsColumns
<1>13. IsPlaces(map)
  BY <1>3, <1>7, <1>11, RowsUpdated
<1>14. RowsFound(new, l, map, wrong)
  <2>1. CASE result.outcome = "ok"
    BY <1>3, <1>11, <2>1, RowsUpdated
  <2>2. CASE result.outcome # "ok"
    <3>1. l.row < 0
      BY <2>2 DEF WithRowName
    <3> HIDE DEF map, wrong
    <3> QED
      BY <1>3, <3>1 DEF RowsFound, IsLabels
  <2> QED
    BY <2>1, <2>2
<1> HIDE DEF map, wrong
<1>15. ColumnsFound(new, l, mColumnNames, outdated.columns)
  BY <1>3, <1>12, NamesFindIs, ColumnsStayFound
<1>16. outdated' = [columns |-> outdated.columns, rows |-> wrong]
  BY <1>1, OutdatedIs
<1> QED
  BY <1>1, <1>3, <1>11, <1>13, <1>14, <1>15, <1>16, ChangeKeeps

----------------------------------------------------------------------------
(* The calls about files, and the theorems *)

LEMMA ReadKeeps ==
  ASSUME NEW p, IsParams(p), NEW text \in Seq(Chars)
  PROVE  ReadCsv(p, text).data \in Table(Chars) /\ ReadCsv(p, text).hasCR \in BOOLEAN
         /\ ReadCsv(p, text).hasBOM \in BOOLEAN
  BY ReadType DEF Table

LEMMA ColumnsUpdated ==
  ASSUME NEW C, NEW data \in Table(C), NEW l, IsLabels(l), NEW wrong
  PROVE  IsPlaces(UpdateColumnNames(data, l)) /\ ColumnsFound(data, l, UpdateColumnNames(data, l), wrong)
<1> DEFINE map == UpdateColumnNames(data, l)
<1>1. \A m \in DOMAIN map : map[m] \in Nat /\ (l.column \in Nat => Holds(data, l.column, map[m], m))
  BY ColumnNamesFind
<1> HIDE DEF map
<1>2. l.column >= 0 => l.column \in Nat
  BY DEF IsLabels
<1> QED
  BY <1>1, <1>2 DEF IsPlaces, ColumnsFound, map

LEMMA LoadKeeps ==
  ASSUME TypeInv, NEW labels \in Labels, Load(labels)
  PROVE  TypeInv' /\ NamesFind'
<1> DEFINE text == ReadCsv(mParams, file)
           data == text.data
           columns == UpdateColumnNames(data, labels)
           rows == UpdateRowNames(data, labels)
           wrong == BehindShort(data, labels)
<1>1. /\ mData' = data /\ mColumnNames' = columns /\ mRowNames' = rows
      /\ mHasCR' = text.hasCR /\ mHasUtf8BOM' = text.hasBOM /\ mLabelParams' = labels
      /\ outdated' = [columns |-> {}, rows |-> wrong] /\ mParams' = mParams /\ file' = file
  BY DEF Load
<1>2. data \in Table(Chars) /\ text.hasCR \in BOOLEAN /\ text.hasBOM \in BOOLEAN
  BY ReadKeeps DEF TypeInv
<1>3. IsLabels(labels)
  BY CharsAre
<1> HIDE DEF data, text
<1>4. IsPlaces(columns) /\ ColumnsFound(data, labels, columns, {})
  BY <1>2, <1>3, ColumnsUpdated
<1>5. IsPlaces(rows)
  BY <1>2, <1>3, RowsUpdated
<1>6. RowsFound(data, labels, rows, wrong)
  BY <1>2, <1>3, RowsUpdated
<1> HIDE DEF columns, rows, wrong
<1>7. outdated'.columns = {} /\ outdated'.rows = wrong
      /\ outdated' = [columns |-> outdated'.columns, rows |-> outdated'.rows]
  BY <1>1
<1>8. TypeInv'
  BY <1>1, <1>2, <1>3, <1>4, <1>5, <1>7 DEF TypeInv
<1>9. NamesFind'
  BY <1>1, <1>4, <1>6, <1>7, NamesFindNext
<1> QED
  BY <1>8, <1>9

LEMMA LoadMissingKeeps ==
  ASSUME TypeInv, NEW labels \in Labels, LoadMissing(labels)
  PROVE  TypeInv' /\ NamesFind'
<1>1. /\ mData' = mData /\ mColumnNames' = mColumnNames /\ mRowNames' = mRowNames
      /\ mHasCR' = FALSE /\ mHasUtf8BOM' = mHasUtf8BOM /\ mLabelParams' = labels
      /\ outdated' = [columns |-> DOMAIN mColumnNames, rows |-> DOMAIN mRowNames]
      /\ mParams' = mParams /\ file' = file
  BY DEF LoadMissing
<1>2. IsLabels(labels)
  BY CharsAre
<1>3. outdated'.columns = DOMAIN mColumnNames /\ outdated'.rows = DOMAIN mRowNames
      /\ outdated' = [columns |-> outdated'.columns, rows |-> outdated'.rows]
  BY <1>1
<1>4. TypeInv'
  BY <1>1, <1>2, <1>3 DEF TypeInv
<1>5. NamesFind'
  BY <1>1, <1>3, NamesFindNext DEF ColumnsFound, RowsFound
<1> QED
  BY <1>4, <1>5

LEMMA SaveKeeps ==
  ASSUME TypeInv, NamesFind, NEW toPath \in BOOLEAN, Save(toPath)
  PROVE  TypeInv' /\ NamesFind'
<1> DEFINE text == WriteCsv(mParams, mData, mHasCR, toPath /\ mHasUtf8BOM)
<1>1. file' = text /\ UNCHANGED <<mData, mColumnNames, mRowNames, mLabelParams, mHasCR, mHasUtf8BOM, mParams, outdated>>
  BY DEF Save, doc
<1>2. ASSUME NEW marked \in BOOLEAN PROVE WriteCsv(mParams, mData, mHasCR, marked) \in Seq(Chars)
  BY CharsAre, WriteCsvIs DEF TypeInv, Table
<1> DEFINE marked == toPath /\ mHasUtf8BOM
<1>3. marked \in BOOLEAN
  OBVIOUS
<1>4. text = WriteCsv(mParams, mData, mHasCR, marked)
  OBVIOUS
<1> HIDE DEF marked, text
<1>5. text \in Seq(Chars)
  BY <1>2, <1>3, <1>4
<1>6. TypeInv'
  BY <1>1, <1>5 DEF TypeInv
<1>7. NamesFind'
  BY <1>1, NamesFindIs, NamesFindNext
<1> QED
  BY <1>6, <1>7

LEMMA ClearKeeps ==
  ASSUME TypeInv, Clear
  PROVE  TypeInv' /\ NamesFind'
<1>1. /\ mData' = << >> /\ mColumnNames' = << >> /\ mRowNames' = << >> /\ mHasUtf8BOM' = FALSE
      /\ outdated' = [columns |-> {}, rows |-> {}]
      /\ UNCHANGED <<mLabelParams, mHasCR, mParams, file>>
  BY DEF Clear
<1>2. outdated' = [columns |-> outdated'.columns, rows |-> outdated'.rows]
  BY <1>1
<1>3. << >> \in Table(Chars) /\ DOMAIN << >> = {}
  BY DEF Table
<1>4. IsPlaces(mColumnNames') /\ IsPlaces(mRowNames')
  BY <1>1, <1>3 DEF IsPlaces
<1>5. TypeInv'
  BY <1>1, <1>2, <1>3, <1>4 DEF TypeInv
<1>6. NamesFind'
  BY <1>1, <1>3, NamesFindNext DEF ColumnsFound, RowsFound
<1> QED
  BY <1>5, <1>6

LEMMA BeginsRight == Init => TypeInv /\ NamesFind
<1> SUFFICES ASSUME Init PROVE TypeInv /\ NamesFind
  OBVIOUS
<1>1. PICK s \in Starts :
        LET text == ReadCsv(s.params, s.text)
        IN  /\ file = s.text /\ mLabelParams = s.labels /\ mParams = s.params
            /\ mData = text.data /\ mHasCR = text.hasCR /\ mHasUtf8BOM = text.hasBOM
            /\ mColumnNames = UpdateColumnNames(text.data, s.labels)
            /\ mRowNames = UpdateRowNames(text.data, s.labels)
            /\ outdated = [columns |-> {}, rows |-> BehindShort(text.data, s.labels)]
  BY DEF Init
<1>2. file \in Seq(Chars) /\ IsParams(mParams) /\ IsLabels(mLabelParams)
  BY <1>1, CharsAre
<1>3. mData = ReadCsv(mParams, file).data /\ mHasCR = ReadCsv(mParams, file).hasCR
      /\ mHasUtf8BOM = ReadCsv(mParams, file).hasBOM
  BY <1>1
<1>4. mData \in Table(Chars) /\ mHasCR \in BOOLEAN /\ mHasUtf8BOM \in BOOLEAN
  BY <1>2, <1>3, ReadKeeps
<1> DEFINE wrong == BehindShort(mData, mLabelParams)
<1>5. /\ mColumnNames = UpdateColumnNames(mData, mLabelParams)
      /\ mRowNames = UpdateRowNames(mData, mLabelParams)
      /\ outdated = [columns |-> {}, rows |-> wrong]
  BY <1>1
<1>6. IsPlaces(mColumnNames) /\ ColumnsFound(mData, mLabelParams, mColumnNames, {})
  BY <1>2, <1>4, <1>5, ColumnsUpdated
<1>7. IsPlaces(mRowNames)
  BY <1>2, <1>4, <1>5, RowsUpdated
<1>8. RowsFound(mData, mLabelParams, mRowNames, wrong)
  BY <1>2, <1>4, <1>5, RowsUpdated
<1> HIDE DEF wrong
<1>9. outdated.columns = {} /\ outdated.rows = wrong /\ outdated = [columns |-> outdated.columns, rows |-> outdated.rows]
  BY <1>5
<1>10. TypeInv
  BY <1>2, <1>4, <1>6, <1>7, <1>9 DEF TypeInv
<1>11. NamesFind
  BY <1>6, <1>8, <1>9, NamesFindIs
<1> QED
  BY <1>10, <1>11

LEMMA StepsKeep ==
  TypeInv /\ NamesFind /\ [Next]_vars => TypeInv' /\ NamesFind'
<1> SUFFICES ASSUME TypeInv, NamesFind, [Next]_vars PROVE TypeInv' /\ NamesFind'
  OBVIOUS
<1>1. CASE ChangeColumns
  <2>1. ASSUME NEW c \in Columns, NEW cells \in Lists, SetColumn(c, cells) PROVE TypeInv' /\ NamesFind'
    BY <2>1, SetColumnKeeps
  <2>2. ASSUME NEW c \in Columns, RemoveColumn(c) PROVE TypeInv' /\ NamesFind'
    BY <2>2, RemoveColumnKeeps
  <2>3. ASSUME NEW c \in 0..MaxIndex, NEW cells \in Lists, NEW n \in Names \union {NoCell}, InsertColumn(c, cells, n)
        PROVE  TypeInv' /\ NamesFind'
    BY <2>3, InsertColumnKeeps
  <2>4. ASSUME NEW c \in 0..MaxIndex, NEW n \in Names, SetColumnName(c, n) PROVE TypeInv' /\ NamesFind'
    BY <2>4, SetColumnNameKeeps
  <2> QED
    BY <1>1, <2>1, <2>2, <2>3, <2>4 DEF ChangeColumns
<1>2. CASE ChangeRows
  <2>1. ASSUME NEW r \in Rows, NEW cells \in Lists, SetRow(r, cells) PROVE TypeInv' /\ NamesFind'
    BY <2>1, SetRowKeeps
  <2>2. ASSUME NEW r \in Rows, RemoveRow(r) PROVE TypeInv' /\ NamesFind'
    BY <2>2, RemoveRowKeeps
  <2>3. ASSUME NEW r \in 0..MaxIndex, NEW cells \in Lists, NEW n \in Names \union {NoCell}, InsertRow(r, cells, n)
        PROVE  TypeInv' /\ NamesFind'
    BY <2>3, InsertRowKeeps
  <2>4. ASSUME NEW r \in 0..MaxIndex, NEW n \in Names, SetRowName(r, n) PROVE TypeInv' /\ NamesFind'
    BY <2>4, SetRowNameKeeps
  <2> QED
    BY <1>2, <2>1, <2>2, <2>3, <2>4 DEF ChangeRows
<1>3. ASSUME NEW c \in Columns, NEW r \in Rows, NEW cell \in Cells, SetCell(c, r, cell)
      PROVE  TypeInv' /\ NamesFind'
  BY <1>3, SetCellKeeps
<1>4. ASSUME NEW labels \in Labels, Load(labels) PROVE TypeInv' /\ NamesFind'
  BY <1>4, LoadKeeps
<1>5. ASSUME NEW labels \in Labels, LoadMissing(labels) PROVE TypeInv' /\ NamesFind'
  BY <1>5, LoadMissingKeeps
<1>6. ASSUME NEW toPath \in BOOLEAN, Save(toPath) PROVE TypeInv' /\ NamesFind'
  BY <1>6, SaveKeeps
<1>7. CASE Clear
  BY <1>7, ClearKeeps
<1>8. CASE UNCHANGED vars
  BY <1>8, StutterKeeps DEF vars
<1> QED
  BY <1>1, <1>2, <1>3, <1>4, <1>5, <1>6, <1>7, <1>8 DEF Next

\* The table is one of cells of characters of the texts, whatever was read, written and put
\* into it, and the maps lead to places (the members of Document, src/rapidcsv.h).
THEOREM TypeCorrect == Spec => []TypeInv
<1>1. TypeInv /\ NamesFind /\ [Next]_vars => (TypeInv /\ NamesFind)'
  BY StepsKeep
<1> QED
  BY BeginsRight, <1>1, PTL DEF Spec

\* After any calls in any order a name leads to a row and a column that have it, but for the
\* names that SetColumnName, SetRowName or a call that threw left in the maps, and those of
\* rows that came behind one too short for a name when they were read (mColumnNames and
\* mRowNames, UpdateColumnNames and UpdateRowNames of Document).
THEOREM NamesAreFound == Spec => []NamesFind
<1>1. TypeInv /\ NamesFind /\ [Next]_vars => (TypeInv /\ NamesFind)'
  BY StepsKeep
<1> QED
  BY BeginsRight, <1>1, PTL DEF Spec

\* What Writable asks of the table is asked of every row and cell of it.
LEMMA WritableIs ==
  ASSUME TypeInv, Writable(mParams, mData)
  PROVE  WritableTable(mParams, mData, mHasUtf8BOM)
<1>1. DOMAIN mData = 1..Len(mData) /\ Len(mData) \in Nat
      /\ \A r \in 1..Len(mData) : DOMAIN mData[r] = 1..Len(mData[r])
  BY TableIs DEF TypeInv
<1>2. ASSUME NEW r \in 1..Len(mData) PROVE WritableRow(mParams, mData[r])
  <2> DEFINE row == mData[r]
  <2>1. r \in DOMAIN mData /\ DOMAIN row = 1..Len(row)
    BY <1>1
  <2>2. /\ row # << >>
        /\ mParams.skipEmpty => row # <<NoCell>>
        /\ mParams.skipComments => row[1] = NoCell \/ row[1][1] # Comment
    BY <2>1 DEF Writable
  <2>3. ASSUME NEW c \in 1..Len(row) PROVE Readable(mParams, row[c])
    BY <2>1 DEF Writable, Readable, NeedsQuotes
  <2> QED
    BY <2>2, <2>3 DEF WritableRow
<1>3. mData # << >> => 1 \in DOMAIN mData
  <2>1. mData \in Seq(Seq(Seq(Chars)))
    BY DEF TypeInv, Table
  <2> QED
    BY <1>1, <2>1
<1>4. mData # << >> /\ ~mHasUtf8BOM /\ mData[1][1] # NoCell => mData[1][1][1] # BOM
  BY <1>3 DEF Writable
<1> QED
  BY <1>2, <1>4 DEF WritableTable

\* What Save writes of a table, Load reads again as it was: the cells, with their
\* separators, quotes and spaces, how the lines end and the mark (WriteCsv and ReadCsv of
\* Document), for every table that any calls can leave and whose cells quoting can keep.
THEOREM SavedIsLoaded == Spec => []RoundTrip
<1>1. TypeInv => RoundTrip
  <2> SUFFICES ASSUME TypeInv, Writable(mParams, mData)
               PROVE  LET again == ReadCsv(mParams, WriteCsv(mParams, mData, mHasCR, mHasUtf8BOM))
                      IN  /\ again.data = mData /\ again.hasBOM = mHasUtf8BOM
                          /\ mData # << >> => again.hasCR = mHasCR
    BY DEF RoundTrip
  <2>1. WritableTable(mParams, mData, mHasUtf8BOM)
    BY WritableIs
  <2>2. Marks \subseteq Chars /\ IsParams(mParams) /\ mData \in Seq(Seq(Seq(Chars))) /\ mHasCR \in BOOLEAN
        /\ mHasUtf8BOM \in BOOLEAN
    BY CharsAre DEF TypeInv, Table
  <2> QED
    BY <2>1, <2>2, WrittenIsRead
<1> QED
  BY <1>1, TypeCorrect, PTL

----------------------------------------------------------------------------
(* Every call changes only what it names *)

CellIs(data, l, c, r) ==
  /\ \A x : x \in CellAt(data, l, c, r) <=> Holds(data, r + l.column + 1, c + l.row + 1, x)
  /\ \A x : Holds(data, r + l.column + 1, c + l.row + 1, x) => CellAt(data, l, c, r) = {x}

LEMMA CellsAre ==
  ASSUME NEW data, NEW l, IsLabels(l), NEW c \in Int, NEW r \in Int
  PROVE  CellIs(data, l, c, r)
<1>1. (r + l.column + 1) + 1 = r + l.column + 2 /\ (c + l.row + 1) + 1 = c + l.row + 2
  BY DEF IsLabels
<1> DEFINE p == r + l.column + 1
           q == c + l.row + 1
<1>2. CellAt(data, l, c, r) = IF Inside(data, p, q) THEN {data[p + 1][q + 1]} ELSE {}
  BY <1>1 DEF CellAt
<1> HIDE DEF p, q
<1>3. /\ \A x : x \in CellAt(data, l, c, r) <=> Holds(data, p, q, x)
      /\ \A x : Holds(data, p, q, x) => CellAt(data, l, c, r) = {x}
  BY <1>2 DEF Holds
<1> QED
  BY <1>3 DEF p, q, CellIs

\* Where the cell at a column and a row of the table is afterwards.
MovesTo(c, r, c2, r2) ==
  \A x : Holds(mData, GetDataRowIndex(r), GetDataColumnIndex(c), x) =>
           Holds(mData', GetDataRowIndex(r2), GetDataColumnIndex(c2), x)

LEMMA MovedIs ==
  ASSUME TypeInv, mLabelParams' = mLabelParams, NEW c \in Nat, NEW r \in Nat, NEW c2 \in Int, NEW r2 \in Int,
         MovesTo(c, r, c2, r2)
  PROVE  GetCell(c, r) \subseteq CellAt(mData', mLabelParams', c2, r2)
<1> DEFINE l == mLabelParams
<1>1. CellIs(mData, l, c, r) /\ CellIs(mData', l, c2, r2)
  BY CellsAre DEF TypeInv
<1>2. ASSUME NEW x \in GetCell(c, r) PROVE x \in CellAt(mData', l, c2, r2)
  <2>1. x \in CellAt(mData, l, c, r)
    BY <1>2 DEF GetCell
  <2>2. Holds(mData, r + l.column + 1, c + l.row + 1, x)
    BY <1>1, <2>1 DEF CellIs
  <2>3. Holds(mData', r2 + l.column + 1, c2 + l.row + 1, x)
    BY <2>2 DEF MovesTo, GetDataRowIndex, GetDataColumnIndex
  <2> QED
    BY <1>1, <2>3 DEF CellIs
<1> QED
  BY <1>2

LEMMA PutIs ==
  ASSUME TypeInv, mLabelParams' = mLabelParams, NEW c \in Int, NEW r \in Int, NEW x,
         Holds(mData', GetDataRowIndex(r), GetDataColumnIndex(c), x)
  PROVE  CellAt(mData', mLabelParams', c, r) = {x}
<1> DEFINE l == mLabelParams
<1>1. CellIs(mData', l, c, r)
  BY CellsAre DEF TypeInv
<1>2. Holds(mData', r + l.column + 1, c + l.row + 1, x)
  BY DEF GetDataRowIndex, GetDataColumnIndex
<1> QED
  BY <1>1, <1>2 DEF CellIs

\* What OnlyWhatIsNamed says of a call.
CellsStay ==
  \A c, r \in Nat : \A place \in PlaceAfter(last', c, r) :
    GetCell(c, r) \subseteq CellAt(mData', mLabelParams', place[1], place[2])

CellsArePut ==
  last'.call \notin {"SetColumnName", "SetRowName"} =>
    \A i \in DOMAIN last'.cells :
      LET place == PlaceOf(last', i)
      IN  CellAt(mData', mLabelParams', place[1], place[2]) = {last'.cells[i]}

PastTheEnd ==
  \/ GetDataColumnIndex(last'.column) >= GetDataColumnCount
  \/ GetDataRowIndex(last'.row) >= GetDataRowCount

Named ==
  /\ outcome' = "ok" => CellsStay /\ CellsArePut
  /\ outcome' = "undefined" => PastTheEnd

\* A rectangular table: a cell that is there is left of the last column.
LEMMA RectangularIs ==
  ASSUME TypeInv, Rectangular
  PROVE  /\ GetDataColumnCount \in Nat /\ Len(mData) \in Nat
         /\ Len(mData) > mLabelParams.column + 1 /\ GetDataColumnCount > mLabelParams.row
         /\ \A r \in 1..Len(mData) : r - 1 >= mLabelParams.column => Len(mData[r]) = GetDataColumnCount
         /\ \A r, c \in Nat : \A x : Holds(mData, GetDataRowIndex(r), GetDataColumnIndex(c), x) =>
              GetDataRowIndex(r) < Len(mData) /\ GetDataColumnIndex(c) < GetDataColumnCount
<1>1. GetDataColumnCount \in Nat
  BY IndicesAre
<1>2. Len(mData) \in Nat /\ DOMAIN mData = 1..Len(mData)
  BY TableIs DEF TypeInv
<1>3. /\ Len(mData) > mLabelParams.column + 1 /\ GetDataColumnCount > mLabelParams.row
      /\ \A r \in 1..Len(mData) : r - 1 >= mLabelParams.column => Len(mData[r]) = GetDataColumnCount
  BY <1>2 DEF Rectangular
<1>4. ASSUME NEW r \in Nat, NEW c \in Nat, NEW x, Holds(mData, GetDataRowIndex(r), GetDataColumnIndex(c), x)
      PROVE  GetDataRowIndex(r) < Len(mData) /\ GetDataColumnIndex(c) < GetDataColumnCount
  <2> DEFINE row == GetDataRowIndex(r)
             column == GetDataColumnIndex(c)
             q == row + 1
  <2>1. row \in Nat /\ row > mLabelParams.column /\ mLabelParams.column \in Int
    BY IndexIs DEF TypeInv, IsLabels
  <2>2. Holds(mData, row, column, x)
    BY <1>4
  <2> HIDE DEF row, column
  <2>3. row < Len(mData) /\ column < Len(mData[q])
    BY <2>2 DEF Holds, Inside
  <2>4. q \in 1..Len(mData) /\ q - 1 >= mLabelParams.column
    BY <1>2, <2>1, <2>3
  <2> HIDE DEF q
  <2>5. Len(mData[q]) = GetDataColumnCount
    BY <1>3, <2>4
  <2> QED
    BY <2>3, <2>5 DEF row, column
<1> QED
  BY <1>1, <1>2, <1>3, <1>4

LEMMA SizedHolds ==
  ASSUME TypeInv, Rectangular, NEW rows \in Int, NEW asked \in Nat, NEW width \in Nat, width >= asked,
         NEW r \in Nat, NEW c \in Nat, NEW x, Holds(mData, GetDataRowIndex(r), GetDataColumnIndex(c), x)
  PROVE  Holds(Sized(mData, rows, asked, width), GetDataRowIndex(r), GetDataColumnIndex(c), x)
<1> DEFINE l == mLabelParams
           row == GetDataRowIndex(r)
           column == GetDataColumnIndex(c)
           count == GetDataColumnCount
           grown == Grown(mData, rows, count)
<1>1. mData \in Table(Chars) /\ IsLabels(l)
  BY DEF TypeInv
<1>2. row \in Nat /\ column \in Nat
  BY IndexIs
<1>3. count \in Nat /\ column < count /\ Len(mData) \in Nat /\ Len(mData) > l.column + 1
  BY RectangularIs
<1> HIDE DEF row, column
<1>4. Holds(mData, row, column, x)
  BY DEF row, column
<1>5. Sized(mData, rows, asked, width) = IF asked > ColumnCount(grown, l) THEN Widened(grown, width) ELSE grown
  BY DEF Sized, GetDataColumnCount
<1>6. ColumnCount(grown, l) = count
  <2> DEFINE first == Max({l.column, 0})
             q == first + 1
  <2>1. first \in Nat /\ first < Len(mData)
    BY <1>1, <1>3, LargerOf DEF IsLabels
  <2>2. q \in 1..Len(mData) /\ first \in Int
    BY <1>3, <2>1
  <2> HIDE DEF first
  <2>3. IsGrown(Chars, mData, rows, count, grown)
    BY <1>1, <1>3, GrownIs
  <2> HIDE DEF q, grown
  <2>4. grown[q] = mData[q] /\ Len(grown) >= Len(mData) /\ Len(grown) \in Int
    BY <1>3, <2>2, <2>3 DEF IsGrown
  <2>5. Len(grown) > first /\ Len(mData) > first
    BY <1>3, <2>1, <2>4
  <2>6. ColumnCount(grown, l) = Len(grown[q]) /\ ColumnCount(mData, l) = Len(mData[q])
    BY <2>5 DEF ColumnCount, first, q
  <2> QED
    BY <2>4, <2>6 DEF GetDataColumnCount
<1> HIDE DEF count
<1>7. Holds(grown, row, column, x) /\ grown \in Table(Chars)
  BY <1>1, <1>2, <1>3, <1>4, GrownHolds, GrownIs DEF IsGrown
<1> HIDE DEF grown
<1>8. CASE asked > ColumnCount(grown, l)
  <2>1. column < width
    BY <1>2, <1>3, <1>6, <1>8
  <2>2. Holds(Widened(grown, width), row, column, x)
    BY <1>2, <1>7, <2>1, WidenedHolds
  <2> QED
    BY <1>5, <1>8, <2>2 DEF row, column
<1>9. CASE ~(asked > ColumnCount(grown, l))
  BY <1>5, <1>7, <1>9 DEF row, column
<1> QED
  BY <1>8, <1>9

LEMMA WriteMoves ==
  ASSUME TypeInv, Rectangular, NEW rows \in Int, NEW asked \in Nat, NEW width \in Nat, width >= asked,
         asked > 0 => width > mLabelParams.row, NEW puts \in Puts(Chars),
         mData' = Written(Sized(mData, rows, asked, width), puts).data,
         NEW c \in Nat, NEW r \in Nat,
         \A i \in 1..Len(puts) : ~(puts[i].row = GetDataRowIndex(r) /\ puts[i].column = GetDataColumnIndex(c))
  PROVE  MovesTo(c, r, c, r)
<1> DEFINE wide == Sized(mData, rows, asked, width)
           row == GetDataRowIndex(r)
           column == GetDataColumnIndex(c)
<1>1. wide \in Table(Chars)
  BY SizedKeeps DEF TypeInv
<1>2. row \in Nat /\ column \in Nat
  BY IndexIs
<1>3. mData' = Written(wide, puts).data
  OBVIOUS
<1>4. ASSUME NEW x, Holds(mData, row, column, x) PROVE Holds(wide, row, column, x)
  BY <1>4, SizedHolds
<1> HIDE DEF wide
<1>5. \A i \in 1..Len(puts) : ~(puts[i].row = row /\ puts[i].column = column)
  OBVIOUS
<1> HIDE DEF row, column
<1>6. ASSUME NEW x, Holds(mData, row, column, x) PROVE Holds(mData', row, column, x)
  <2>1. Holds(wide, row, column, x)
    BY <1>4, <1>6
  <2> QED
    BY <1>1, <1>2, <1>3, <1>5, <2>1, WrittenHolds
<1> QED
  BY <1>6 DEF MovesTo, row, column

\* What is put at places of their own is there if the call succeeds.
LEMMA WritePuts ==
  ASSUME NEW wide \in Table(Chars), NEW puts \in Puts(Chars), Written(wide, puts).outcome = "ok",
         \A i, j \in 1..Len(puts) : puts[j].row = puts[i].row /\ puts[j].column = puts[i].column => j = i
  PROVE  \A i \in 1..Len(puts) : Holds(Written(wide, puts).data, puts[i].row, puts[i].column, puts[i].cell)
<1> DEFINE result == Written(wide, puts)
<1>1. IsWritten(Chars, wide, puts, result) /\ result.outcome = "ok"
  BY WrittenIs
<1> HIDE DEF result
<1>2. \A i \in 1..Len(puts) : Holds(result.data, puts[i].row, puts[i].column, puts[i].cell)
  BY <1>1 DEF IsWritten
<1> QED
  BY <1>2 DEF result

\* A call that throws.
LEMMA ThrowNamed ==
  ASSUME Throw
  PROVE  Named
  BY DEF Throw, Named

LEMMA SetColumnNamed ==
  ASSUME TypeInv, Rectangular, NEW c0 \in Columns, NEW cells \in Lists, SetColumn(c0, cells)
  PROVE  Named
<1>1. CASE c0 < 0
  BY <1>1, ThrowNamed DEF SetColumn
<1>2. CASE ~(c0 < 0)
  <2> DEFINE column == GetDataColumnIndex(c0)
             rows == GetDataRowIndex(Len(cells))
             asked == column + 1
             width == GetDataColumnIndex(asked)
             puts == [i \in DOMAIN cells |->
                        [row |-> GetDataRowIndex(i - 1), column |-> column, cell |-> cells[i]]]
             wide == Sized(mData, rows, asked, width)
             result == Written(wide, puts)
  <2>1. mData' = result.data /\ outcome' = result.outcome /\ mLabelParams' = mLabelParams
        /\ last' = [call |-> "SetColumn", column |-> c0, row |-> -1, cells |-> cells]
    BY <1>2 DEF SetColumn, Changed, Sized, GetDataColumnCount, Call, Same
  <2>2. cells \in Seq(Seq(Chars)) /\ Len(cells) \in Nat /\ DOMAIN cells = 1..Len(cells)
    BY ListsAre
  <2>3. c0 \in Nat
    BY <1>2, IndicesAre
  <2>4. column \in Nat /\ asked \in Nat
    BY <2>3, IndexIs
  <2> HIDE DEF column
  <2>5. rows \in Nat
    BY <2>2, IndexIs
  <2> HIDE DEF asked, rows
  <2>6. width \in Nat /\ width >= asked /\ width > mLabelParams.row
    BY <2>4, IndexIs
  <2>7. \A i \in 1..Len(cells) : GetDataRowIndex(i - 1) \in Nat
    BY <2>2, IndicesBelow
  <2>8. puts = [i \in DOMAIN cells |-> puts[i]]
        /\ \A i \in 1..Len(cells) :
             /\ puts[i] = [row |-> puts[i].row, column |-> puts[i].column, cell |-> cells[i]]
             /\ puts[i].row = GetDataRowIndex(i - 1) /\ puts[i].column = column
    BY <2>2
  <2> HIDE DEF puts, width
  <2>9. puts \in Puts(Chars) /\ Len(puts) = Len(cells) /\ \A i \in 1..Len(cells) : puts[i].cell = cells[i]
    BY <2>2, <2>4, <2>7, <2>8, PutsAre
  <2>10. wide \in Table(Chars)
    BY <2>4, <2>5, <2>6, SizedKeeps DEF TypeInv
  <2>11. outcome' # "undefined"
    BY <2>1, <2>9, <2>10, WrittenIs DEF IsWritten
  <2>12. ASSUME NEW c \in Nat, NEW r \in Nat, ~(c = c0 /\ r < Len(cells)) PROVE MovesTo(c, r, c, r)
    <3>1. ASSUME NEW i \in 1..Len(puts)
          PROVE  ~(puts[i].row = GetDataRowIndex(r) /\ puts[i].column = GetDataColumnIndex(c))
      <4>1. puts[i].row = GetDataRowIndex(i - 1) /\ puts[i].column = GetDataColumnIndex(c0)
        BY <2>8, <2>9 DEF column
      <4>2. i \in Nat /\ i <= Len(cells)
        BY <2>2, <2>9
      <4>3. mLabelParams.column \in Int /\ mLabelParams.row \in Int
        BY DEF TypeInv, IsLabels
      <4>4. GetDataRowIndex(i - 1) = GetDataRowIndex(r) => i - 1 = r
        BY <4>2, <4>3 DEF GetDataRowIndex
      <4>5. GetDataColumnIndex(c0) = GetDataColumnIndex(c) => c0 = c
        BY <2>3, <4>3 DEF GetDataColumnIndex
      <4> QED
        BY <2>2, <2>12, <4>1, <4>2, <4>4, <4>5
    <3>2. mData' = Written(Sized(mData, rows, asked, width), puts).data /\ rows \in Int
      BY <2>1, <2>5
    <3> QED
      BY <2>4, <2>6, <2>9, <3>1, <3>2, WriteMoves
  <2>13. CellsStay
    <3> SUFFICES ASSUME NEW c \in Nat, NEW r \in Nat, NEW place \in PlaceAfter(last', c, r)
                 PROVE  GetCell(c, r) \subseteq CellAt(mData', mLabelParams', place[1], place[2])
      BY DEF CellsStay
    <3>1. PlaceAfter(last', c, r) = IF c = c0 /\ r < Len(cells) THEN {} ELSE {<<c, r>>}
      BY <2>1 DEF PlaceAfter
    <3>2. ~(c = c0 /\ r < Len(cells)) /\ place[1] = c /\ place[2] = r
      BY <3>1
    <3> QED
      BY <2>1, <2>12, <3>2, MovedIs
  <2>14. ASSUME outcome' = "ok" PROVE CellsArePut
    <3>1. \A i, j \in 1..Len(puts) : puts[j].row = puts[i].row /\ puts[j].column = puts[i].column => j = i
      <4>1. mLabelParams.column \in Int
        BY DEF TypeInv, IsLabels
      <4> QED
        BY <2>2, <2>8, <2>9, <4>1 DEF GetDataRowIndex
    <3>2. \A i \in 1..Len(puts) : Holds(mData', puts[i].row, puts[i].column, puts[i].cell)
      BY <2>1, <2>9, <2>10, <2>14, <3>1, WritePuts
    <3>3. ASSUME NEW i \in 1..Len(cells) PROVE CellAt(mData', mLabelParams', c0, i - 1) = {cells[i]}
      <4>1. Holds(mData', GetDataRowIndex(i - 1), GetDataColumnIndex(c0), cells[i])
        BY <2>8, <2>9, <3>2 DEF column
      <4>2. i - 1 \in Int
        BY <2>2
      <4> QED
        BY <2>1, <2>3, <4>1, <4>2, PutIs
    <3>4. \A i \in 1..Len(cells) : PlaceOf(last', i) = <<c0, i - 1>>
      BY <2>1 DEF PlaceOf
    <3> QED
      BY <2>1, <2>2, <3>3, <3>4 DEF CellsArePut
  <2> QED
    BY <2>11, <2>13, <2>14 DEF Named
<1> QED
  BY <1>1, <1>2

LEMMA SetRowNamed ==
  ASSUME TypeInv, Rectangular, NEW r0 \in Rows, NEW cells \in Lists, SetRow(r0, cells)
  PROVE  Named
<1>1. CASE r0 < 0
  BY <1>1, ThrowNamed DEF SetRow
<1>2. CASE ~(r0 < 0)
  <2> DEFINE row == GetDataRowIndex(r0)
             rows == row + 1
             asked == Len(cells)
             width == GetDataColumnIndex(asked)
             puts == [i \in DOMAIN cells |->
                        [row |-> row, column |-> GetDataColumnIndex(i - 1), cell |-> cells[i]]]
             wide == Sized(mData, rows, asked, width)
             result == Written(wide, puts)
  <2>1. mData' = result.data /\ outcome' = result.outcome /\ mLabelParams' = mLabelParams
        /\ last' = [call |-> "SetRow", column |-> -1, row |-> r0, cells |-> cells]
    BY <1>2 DEF SetRow, Changed, Sized, GetDataColumnCount, Call, Same
  <2>2. cells \in Seq(Seq(Chars)) /\ asked \in Nat /\ DOMAIN cells = 1..asked
    BY ListsAre
  <2>3. r0 \in Nat
    BY <1>2, IndicesAre
  <2>4. row \in Nat /\ rows \in Int
    BY <2>3, IndexIs
  <2>5. width \in Nat /\ width >= asked /\ width > mLabelParams.row
    BY <2>2, IndexIs
  <2>6. \A i \in 1..asked : GetDataColumnIndex(i - 1) \in Nat
    BY <2>2, IndicesBelow
  <2>7. puts = [i \in DOMAIN cells |-> puts[i]]
        /\ \A i \in 1..asked :
             /\ puts[i] = [row |-> puts[i].row, column |-> puts[i].column, cell |-> cells[i]]
             /\ puts[i].row = row /\ puts[i].column = GetDataColumnIndex(i - 1)
    BY <2>2
  <2> HIDE DEF puts, width, row, rows
  <2>8. puts \in Puts(Chars) /\ Len(puts) = asked /\ \A i \in 1..asked : puts[i].cell = cells[i]
    BY <2>2, <2>4, <2>6, <2>7, PutsAre
  <2> HIDE DEF asked
  <2>9. wide \in Table(Chars)
    BY <2>2, <2>4, <2>5, SizedKeeps DEF TypeInv
  <2>10. outcome' # "undefined"
    BY <2>1, <2>8, <2>9, WrittenIs DEF IsWritten
  <2>11. ASSUME NEW c \in Nat, NEW r \in Nat, ~(r = r0 /\ c < asked) PROVE MovesTo(c, r, c, r)
    <3>1. ASSUME NEW i \in 1..Len(puts)
          PROVE  ~(puts[i].row = GetDataRowIndex(r) /\ puts[i].column = GetDataColumnIndex(c))
      <4>1. puts[i].row = GetDataRowIndex(r0) /\ puts[i].column = GetDataColumnIndex(i - 1)
        BY <2>7, <2>8 DEF row
      <4>2. i \in Nat /\ i <= asked
        BY <2>2, <2>8
      <4>3. mLabelParams.column \in Int /\ mLabelParams.row \in Int
        BY DEF TypeInv, IsLabels
      <4>4. GetDataRowIndex(r0) = GetDataRowIndex(r) => r0 = r
        BY <2>3, <4>3 DEF GetDataRowIndex
      <4>5. GetDataColumnIndex(i - 1) = GetDataColumnIndex(c) => i - 1 = c
        BY <4>2, <4>3 DEF GetDataColumnIndex
      <4> QED
        BY <2>2, <2>11, <4>1, <4>2, <4>4, <4>5
    <3>2. mData' = Written(Sized(mData, rows, asked, width), puts).data
      BY <2>1
    <3>3. asked > 0 => width > mLabelParams.row
      BY <2>5
    <3>4. rows \in Int /\ asked \in Nat /\ width \in Nat /\ width >= asked /\ puts \in Puts(Chars)
      BY <2>2, <2>4, <2>5, <2>8
    <3> HIDE DEF wide, result
    <3> QED
      BY <3>1, <3>2, <3>3, <3>4, WriteMoves
  <2>12. CellsStay
    <3> SUFFICES ASSUME NEW c \in Nat, NEW r \in Nat, NEW place \in PlaceAfter(last', c, r)
                 PROVE  GetCell(c, r) \subseteq CellAt(mData', mLabelParams', place[1], place[2])
      BY DEF CellsStay
    <3>1. PlaceAfter(last', c, r) = IF r = r0 /\ c < asked THEN {} ELSE {<<c, r>>}
      BY <2>1 DEF PlaceAfter, asked
    <3>2. ~(r = r0 /\ c < asked) /\ place[1] = c /\ place[2] = r
      BY <3>1
    <3> QED
      BY <2>1, <2>11, <3>2, MovedIs
  <2>13. ASSUME outcome' = "ok" PROVE CellsArePut
    <3>1. \A i, j \in 1..Len(puts) : puts[j].row = puts[i].row /\ puts[j].column = puts[i].column => j = i
      <4>1. mLabelParams.row \in Int
        BY DEF TypeInv, IsLabels
      <4> QED
        BY <2>2, <2>7, <2>8, <4>1 DEF GetDataColumnIndex
    <3>2. \A i \in 1..Len(puts) : Holds(mData', puts[i].row, puts[i].column, puts[i].cell)
      BY <2>1, <2>8, <2>9, <2>13, <3>1, WritePuts
    <3>3. ASSUME NEW i \in 1..asked PROVE CellAt(mData', mLabelParams', i - 1, r0) = {cells[i]}
      <4>1. Holds(mData', GetDataRowIndex(r0), GetDataColumnIndex(i - 1), cells[i])
        BY <2>7, <2>8, <3>2 DEF row
      <4>2. i - 1 \in Int
        BY <2>2
      <4> QED
        BY <2>1, <2>3, <4>1, <4>2, PutIs
    <3>4. \A i \in 1..asked : PlaceOf(last', i) = <<i - 1, r0>>
      BY <2>1 DEF PlaceOf
    <3> QED
      BY <2>1, <2>2, <3>3, <3>4 DEF CellsArePut
  <2> QED
    BY <2>10, <2>12, <2>13 DEF Named
<1> QED
  BY <1>1, <1>2

LEMMA SetCellNamed ==
  ASSUME TypeInv, Rectangular, NEW c0 \in Columns, NEW r0 \in Rows, NEW cell \in Cells, SetCell(c0, r0, cell)
  PROVE  Named
<1>1. CASE c0 < 0 \/ r0 < 0
  BY <1>1, ThrowNamed DEF SetCell
<1>2. CASE ~(c0 < 0 \/ r0 < 0)
  <2> DEFINE row == GetDataRowIndex(r0)
             rows == row + 1
             column == GetDataColumnIndex(c0)
             width == column + 1
             put == [row |-> row, column |-> column, cell |-> cell]
             puts == <<put>>
             wide == Sized(mData, rows, width, width)
             result == Written(wide, puts)
             D == [row : Nat, column : Nat, cell : Seq(Chars)]
  <2>1. mData' = result.data /\ outcome' = result.outcome /\ mLabelParams' = mLabelParams
        /\ last' = [call |-> "SetCell", column |-> c0, row |-> r0, cells |-> <<cell>>]
    BY <1>2 DEF SetCell, Changed, Sized, GetDataColumnCount, Call, Same
  <2>2. cell \in Seq(Chars)
    BY CharsAre
  <2>3. r0 \in Nat /\ c0 \in Nat
    BY <1>2, IndicesAre
  <2>4. row \in Nat /\ rows \in Int /\ column \in Nat /\ width \in Nat /\ width >= width /\ width > mLabelParams.row
    <3>1. row \in Nat /\ column \in Nat /\ column > mLabelParams.row /\ mLabelParams.row \in Int
      BY <2>3, IndexIs DEF TypeInv, IsLabels
    <3> HIDE DEF row, column
    <3> QED
      BY <3>1
  <2> HIDE DEF row, column, rows, width
  <2>5. put \in D /\ put.row = row /\ put.column = column /\ put.cell = cell
    BY <2>2, <2>4
  <2> HIDE DEF put, D
  <2>6. puts \in Seq(D) /\ Len(puts) = 1 /\ puts[1] = put
    BY <2>5, OneAndTwo
  <2> HIDE DEF puts
  <2>7. puts \in Puts(Chars)
    BY <2>6 DEF Puts, D
  <2>8. \A i \in 1..Len(puts) : i = 1
    BY <2>6
  <2>9. wide \in Table(Chars)
    BY <2>4, SizedKeeps DEF TypeInv
  <2>10. outcome' # "undefined"
    BY <2>1, <2>7, <2>9, WrittenIs DEF IsWritten
  <2>11. ASSUME NEW c \in Nat, NEW r \in Nat, ~(c = c0 /\ r = r0) PROVE MovesTo(c, r, c, r)
    <3>1. ASSUME NEW i \in 1..Len(puts)
          PROVE  ~(puts[i].row = GetDataRowIndex(r) /\ puts[i].column = GetDataColumnIndex(c))
      <4>1. puts[i].row = GetDataRowIndex(r0) /\ puts[i].column = GetDataColumnIndex(c0)
        BY <2>5, <2>6, <2>8 DEF row, column
      <4>2. mLabelParams.column \in Int /\ mLabelParams.row \in Int
        BY DEF TypeInv, IsLabels
      <4>3. GetDataRowIndex(r0) = GetDataRowIndex(r) => r0 = r
        BY <2>3, <4>2 DEF GetDataRowIndex
      <4>4. GetDataColumnIndex(c0) = GetDataColumnIndex(c) => c0 = c
        BY <2>3, <4>2 DEF GetDataColumnIndex
      <4> QED
        BY <2>11, <4>1, <4>3, <4>4
    <3> DEFINE asked == width
    <3>2. /\ mData' = Written(Sized(mData, rows, asked, width), puts).data
          /\ asked \in Nat /\ width >= asked /\ (asked > 0 => width > mLabelParams.row)
      BY <2>1, <2>4
    <3> HIDE DEF asked
    <3> QED
      BY <2>4, <2>7, <3>1, <3>2, WriteMoves
  <2>12. CellsStay
    <3> SUFFICES ASSUME NEW c \in Nat, NEW r \in Nat, NEW place \in PlaceAfter(last', c, r)
                 PROVE  GetCell(c, r) \subseteq CellAt(mData', mLabelParams', place[1], place[2])
      BY DEF CellsStay
    <3>1. PlaceAfter(last', c, r) = {<<c, r>>} \ {<<c0, r0>>}
      BY <2>1 DEF PlaceAfter
    <3>2. ~(c = c0 /\ r = r0) /\ place[1] = c /\ place[2] = r
      BY <3>1
    <3> QED
      BY <2>1, <2>11, <3>2, MovedIs
  <2>13. ASSUME outcome' = "ok" PROVE CellsArePut
    <3>1. \A i, j \in 1..Len(puts) : puts[j].row = puts[i].row /\ puts[j].column = puts[i].column => j = i
      BY <2>8
    <3>2. \A i \in 1..Len(puts) : Holds(mData', puts[i].row, puts[i].column, puts[i].cell)
      BY <2>1, <2>7, <2>9, <2>13, <3>1, WritePuts
    <3>3. 1 \in 1..Len(puts)
      BY <2>6
    <3>4. Holds(mData', GetDataRowIndex(r0), GetDataColumnIndex(c0), cell)
      BY <2>5, <2>6, <3>2, <3>3 DEF row, column
    <3>5. CellAt(mData', mLabelParams', c0, r0) = {cell}
      BY <2>1, <2>3, <3>4, PutIs
    <3>6. PlaceOf(last', 1) = <<c0, r0>> /\ last'.cells = <<cell>> /\ last'.cells[1] = cell
      BY <2>1 DEF PlaceOf
    <3>7. \A i \in DOMAIN last'.cells : i = 1
      BY <3>6
    <3> QED
      BY <3>5, <3>6, <3>7 DEF CellsArePut
  <2> QED
    BY <2>10, <2>12, <2>13 DEF Named
<1> QED
  BY <1>1, <1>2

\* Where a cell of a data row is.
IsCellAt(data, q, p, x) == q \in 1..Len(data) /\ p \in 1..Len(data[q]) /\ data[q][p] = x

LEMMA CellOf ==
  ASSUME TypeInv, NEW data \in Table(Chars), NEW r \in Nat, NEW c \in Nat, NEW x
  PROVE  Holds(data, GetDataRowIndex(r), GetDataColumnIndex(c), x)
           <=> IsCellAt(data, GetDataRowIndex(r) + 1, GetDataColumnIndex(c) + 1, x)
<1> DEFINE i == GetDataRowIndex(r)
           j == GetDataColumnIndex(c)
           q == i + 1
           p == j + 1
<1>1. i \in Nat /\ j \in Nat
  BY IndexIs
<1> HIDE DEF i, j
<1>2. Len(data) \in Nat /\ \A k \in 1..Len(data) : Len(data[k]) \in Nat
  BY TableIs
<1>3. q \in 1..Len(data) <=> i < Len(data)
  BY <1>1, <1>2
<1>4. q \in 1..Len(data) => (p \in 1..Len(data[q]) <=> j < Len(data[q]))
  BY <1>1, <1>2
<1>5. Holds(data, i, j, x) <=> i < Len(data) /\ j < Len(data[q]) /\ data[q][p] = x
  BY DEF Holds, Inside
<1> HIDE DEF q, p
<1>6. Holds(data, i, j, x) <=> IsCellAt(data, q, p, x)
  BY <1>3, <1>4, <1>5 DEF IsCellAt
<1> QED
  BY <1>6 DEF i, j, q, p

LEMMA IndicesTell ==
  ASSUME TypeInv, NEW a \in Nat, NEW b \in Nat
  PROVE  /\ GetDataRowIndex(a) \in Nat /\ GetDataRowIndex(a) > mLabelParams.column
         /\ GetDataColumnIndex(a) \in Nat /\ GetDataColumnIndex(a) > mLabelParams.row
         /\ mLabelParams.column \in Int /\ mLabelParams.row \in Int
         /\ GetDataRowIndex(a + 1) = GetDataRowIndex(a) + 1
         /\ GetDataColumnIndex(a + 1) = GetDataColumnIndex(a) + 1
         /\ a < b <=> GetDataRowIndex(a) < GetDataRowIndex(b)
         /\ a < b <=> GetDataColumnIndex(a) < GetDataColumnIndex(b)
<1> DEFINE k == mLabelParams.column
           l == mLabelParams.row
<1>1. k \in Int /\ k >= -1 /\ l \in Int /\ l >= -1
  BY DEF TypeInv, IsLabels
<1> HIDE DEF k, l
<1>2. /\ \A i \in Nat : i + k + 1 \in Nat /\ i + k + 1 > k
      /\ \A i \in Nat : i + l + 1 \in Nat /\ i + l + 1 > l
      /\ (a + 1) + k + 1 = (a + k + 1) + 1 /\ (a + 1) + l + 1 = (a + l + 1) + 1
      /\ (a < b <=> a + k + 1 < b + k + 1) /\ (a < b <=> a + l + 1 < b + l + 1)
  BY <1>1
<1>3. \A i : GetDataRowIndex(i) = i + k + 1 /\ GetDataColumnIndex(i) = i + l + 1
  BY DEF GetDataRowIndex, GetDataColumnIndex, k, l
<1> QED
  BY <1>1, <1>2, <1>3 DEF k, l


LEMMA RemoveColumnNamed ==
  ASSUME TypeInv, Rectangular, NEW c0 \in Columns, RemoveColumn(c0)
  PROVE  Named
<1>1. CASE c0 < 0
  BY <1>1, ThrowNamed DEF RemoveColumn
<1>2. CASE ~(c0 < 0)
  <2> DEFINE column == GetDataColumnIndex(c0)
             bad == [r \in DOMAIN mData |-> IF column < Len(mData[r]) THEN "ok" ELSE "undefined"]
             newRow == [r \in DOMAIN mData |-> RemoveAt(mData[r], column + 1)]
             result == RowByRow(mData, bad, newRow)
  <2>1. mData' = result.data /\ outcome' = result.outcome /\ mLabelParams' = mLabelParams
        /\ last' = [call |-> "RemoveColumn", column |-> c0, row |-> -1, cells |-> << >>]
    BY <1>2 DEF RemoveColumn, Changed, Call, Same
  <2>2. c0 \in Nat
    BY <1>2, IndicesAre
  <2>3. column \in Nat
    BY <2>2, IndexIs
  <2>4. mData \in Table(Chars)
    BY DEF TypeInv
  <2>5. /\ Len(mData) \in Nat /\ DOMAIN mData = 1..Len(mData)
        /\ \A r \in 1..Len(mData) : mData[r] \in Seq(Seq(Chars)) /\ Len(mData[r]) \in Nat
    BY <2>4, TableIs
  <2>6. \A r \in 1..Len(mData) : r - 1 >= mLabelParams.column => Len(mData[r]) = GetDataColumnCount
    BY RectangularIs
  <2> DEFINE p0 == column + 1
  <2>7. \A r \in 1..Len(mData) : /\ bad[r] = IF column < Len(mData[r]) THEN "ok" ELSE "undefined"
                                 /\ newRow[r] = RemoveAt(mData[r], p0)
    BY <2>5
  <2> HIDE DEF bad, newRow, column
  <2>8. ASSUME NEW r \in 1..Len(mData), bad[r] = "ok"
        PROVE  newRow[r] \in Seq(Seq(Chars)) /\ IsRemoved(mData[r], p0, newRow[r]) /\ p0 \in 1..Len(mData[r])
    <3>1. p0 \in 1..Len(mData[r])
      BY <2>3, <2>5, <2>7, <2>8
    <3> HIDE DEF p0
    <3> QED
      BY <2>5, <2>7, <2>8, <3>1, RemoveAtIs
  <2>9. IsRowByRow(Chars, mData, bad, newRow, result)
    BY <2>4, <2>8, RowByRowIs
  <2> HIDE DEF result
  <2>10. ASSUME outcome' = "undefined" PROVE PastTheEnd
    <3>1. PICK r \in 1..Len(mData) : r - 1 >= mLabelParams.column /\ bad[r] # "ok"
      BY <2>1, <2>9, <2>10 DEF IsRowByRow
    <3>2. column >= GetDataColumnCount
      BY <2>3, <2>5, <2>6, <2>7, <3>1
    <3> QED
      BY <2>1, <3>2 DEF PastTheEnd, column
  <2>11. ASSUME outcome' = "ok", NEW c \in Nat, NEW r \in Nat, c # c0
         PROVE  MovesTo(c, r, IF c > c0 THEN c - 1 ELSE c, r)
    <3> DEFINE d == IF c > c0 THEN c - 1 ELSE c
               q == GetDataRowIndex(r) + 1
               p == GetDataColumnIndex(c) + 1
               p2 == GetDataColumnIndex(d) + 1
    <3> SUFFICES ASSUME NEW x, Holds(mData, GetDataRowIndex(r), GetDataColumnIndex(c), x)
                 PROVE  Holds(mData', GetDataRowIndex(r), GetDataColumnIndex(d), x)
      BY DEF MovesTo
    <3>1. IsCellAt(mData, q, p, x)
      BY <2>4, CellOf
    <3>2. d \in Nat
      BY <2>2, <2>11
    <3>3. q - 1 >= mLabelParams.column
      <4>1. GetDataRowIndex(r) \in Nat /\ GetDataRowIndex(r) > mLabelParams.column /\ mLabelParams.column \in Int
        BY IndicesTell
      <4> QED
        BY <4>1
    <3>4. IF c > c0 THEN p > p0 /\ p2 = p - 1 ELSE p < p0 /\ p2 = p
      <4> DEFINE l == mLabelParams.row
      <4>1. l \in Int
        BY IndicesTell
      <4> HIDE DEF l
      <4>2. p0 = (c0 + l + 1) + 1 /\ p = (c + l + 1) + 1 /\ p2 = (d + l + 1) + 1
        BY DEF column, GetDataColumnIndex, l
      <4>3. d = IF c > c0 THEN c - 1 ELSE c
        OBVIOUS
      <4> HIDE DEF p0, p, p2, d
      <4> QED
        BY <2>2, <2>11, <4>1, <4>2, <4>3
    <3>5. p \in Int /\ p2 \in Nat \ {0} /\ p0 \in Int
      <4>1. GetDataColumnIndex(c) \in Nat
        BY IndicesTell
      <4>2. GetDataColumnIndex(d) \in Nat
        BY <3>2, IndicesTell
      <4> HIDE DEF d
      <4> QED
        BY <2>3, <4>1, <4>2
    <3> HIDE DEF q, p, p2, p0, d
    <3>6. q \in 1..Len(mData) /\ p \in 1..Len(mData[q]) /\ mData[q][p] = x
      BY <3>1 DEF IsCellAt
    <3>7. bad[q] = "ok" /\ mData'[q] = newRow[q] /\ Len(mData') = Len(mData)
      BY <2>1, <2>9, <2>11, <3>3, <3>6 DEF IsRowByRow
    <3>8. IsRemoved(mData[q], p0, mData'[q]) /\ p0 \in 1..Len(mData[q])
      BY <2>8, <3>6, <3>7
    <3>9. p2 \in 1..Len(mData'[q]) /\ mData'[q][p2] = x
      <4>1. Len(mData'[q]) = Len(mData[q]) - 1 /\ Len(mData[q]) \in Nat
        BY <2>5, <3>6, <3>8 DEF IsRemoved
      <4>2. CASE c > c0
        <5>1. p \in (p0 + 1)..Len(mData[q]) /\ p2 = p - 1 /\ p2 <= Len(mData[q]) - 1
          BY <3>4, <3>5, <3>6, <3>8, <4>1, <4>2
        <5>2. mData'[q][p2] = x
          BY <3>6, <3>8, <5>1 DEF IsRemoved
        <5> QED
          BY <3>5, <4>1, <5>1, <5>2
      <4>3. CASE ~(c > c0)
        <5>1. p \in 1..(p0 - 1) /\ p2 = p /\ p2 <= Len(mData[q]) - 1
          BY <3>4, <3>5, <3>6, <3>8, <4>1, <4>3
        <5>2. mData'[q][p2] = x
          BY <3>6, <3>8, <5>1 DEF IsRemoved
        <5> QED
          BY <3>5, <4>1, <5>1, <5>2
      <4> QED
        BY <4>2, <4>3
    <3>10. IsCellAt(mData', q, p2, x)
      BY <3>6, <3>7, <3>9 DEF IsCellAt
    <3>11. mData' \in Table(Chars)
      BY <2>1, <2>9 DEF IsRowByRow
    <3> QED
      BY <3>2, <3>10, <3>11, CellOf DEF q, p2
  <2>12. ASSUME outcome' = "ok" PROVE CellsStay
    <3> SUFFICES ASSUME NEW c \in Nat, NEW r \in Nat, NEW place \in PlaceAfter(last', c, r)
                 PROVE  GetCell(c, r) \subseteq CellAt(mData', mLabelParams', place[1], place[2])
      BY DEF CellsStay
    <3> DEFINE d == IF c > c0 THEN c - 1 ELSE c
    <3>1. PlaceAfter(last', c, r) = IF c = c0 THEN {} ELSE {<<d, r>>}
      BY <2>1 DEF PlaceAfter
    <3>2. c # c0 /\ place[1] = d /\ place[2] = r /\ d \in Int
      BY <3>1
    <3>3. MovesTo(c, r, d, r)
      BY <2>11, <2>12, <3>2
    <3> HIDE DEF d
    <3> QED
      BY <2>1, <3>2, <3>3, MovedIs
  <2>13. CellsArePut
    BY <2>1 DEF CellsArePut
  <2> QED
    BY <2>10, <2>12, <2>13 DEF Named
<1> QED
  BY <1>1, <1>2

\* A name that is put beside the cells moves none of them.
LEMMA NamedColumnMoves ==
  ASSUME TypeInv, mLabelParams.column >= 0, NEW data \in Table(Chars), NEW names, NEW c0 \in Nat,
         NEW n \in Seq(Chars), NEW r \in Nat, NEW c \in Nat, NEW x,
         Holds(data, GetDataRowIndex(r), GetDataColumnIndex(c), x)
  PROVE  /\ WithColumnName(data, names, c0, n).data \in Table(Chars)
         /\ Holds(WithColumnName(data, names, c0, n).data, GetDataRowIndex(r), GetDataColumnIndex(c), x)
<1> DEFINE column == GetDataColumnIndex(c0)
           l == mLabelParams
           i == GetDataRowIndex(r)
           j == GetDataColumnIndex(c)
           new == WithColumnName(data, names, c0, n).data
<1>1. new = PutInto(data, l.column, column, n)
  BY DEF WithColumnName, PutInto
<1>2. l.column \in Nat
  BY DEF TypeInv, IsLabels
<1>3. column \in Nat /\ i \in Nat /\ i > l.column /\ j \in Nat
  BY IndicesTell
<1> HIDE DEF column, i, j, new
<1>4. Holds(data, i, j, x)
  BY DEF i, j
<1>5. IsPutInto(Chars, data, l.column, column, n, PutInto(data, l.column, column, n))
  BY <1>2, <1>3, PutIntoIs
<1>6. new \in Table(Chars) /\ Holds(new, i, j, x)
  BY <1>1, <1>2, <1>3, <1>4, <1>5 DEF IsPutInto
<1> QED
  BY <1>6 DEF new, i, j

LEMMA NamedRowMoves ==
  ASSUME TypeInv, NEW data \in Table(Chars), NEW r0 \in Nat, NEW n \in Seq(Chars), NEW r \in Nat,
         NEW c \in Nat, NEW x, Holds(data, GetDataRowIndex(r), GetDataColumnIndex(c), x)
  PROVE  /\ WithRowName(data, r0, n).data \in Table(Chars)
         /\ Holds(WithRowName(data, r0, n).data, GetDataRowIndex(r), GetDataColumnIndex(c), x)
<1> DEFINE row == GetDataRowIndex(r0)
           l == mLabelParams
           i == GetDataRowIndex(r)
           j == GetDataColumnIndex(c)
           new == WithRowName(data, r0, n).data
<1>1. /\ row \in Nat
      /\ l.row >= 0 => l.row \in Nat /\ new = PutInto(data, row, l.row, n)
      /\ ~(l.row >= 0) => new = data
  BY WithRowNameIs
<1>2. i \in Nat /\ j \in Nat /\ j > l.row
  BY IndicesTell
<1> HIDE DEF row, i, j, new
<1>3. Holds(data, i, j, x)
  BY DEF i, j
<1>4. new \in Table(Chars) /\ Holds(new, i, j, x)
  <2>1. CASE l.row >= 0
    <3>1. IsPutInto(Chars, data, row, l.row, n, PutInto(data, row, l.row, n))
      BY <1>1, <2>1, PutIntoIs
    <3> QED
      BY <1>1, <1>2, <1>3, <2>1, <3>1 DEF IsPutInto
  <2>2. CASE ~(l.row >= 0)
    BY <1>1, <1>3, <2>2
  <2> QED
    BY <2>1, <2>2
<1> QED
  BY <1>4 DEF new, i, j

\* A call that leaves every cell where it is.
LEMMA StayingNamed ==
  ASSUME TypeInv, mLabelParams' = mLabelParams, outcome' # "undefined",
         last'.call \in {"SetColumnName", "SetRowName", "Save"}, last'.call = "Save" => last'.cells = << >>,
         \A c, r \in Nat : MovesTo(c, r, c, r)
  PROVE  Named
<1>1. CellsStay
  <2> SUFFICES ASSUME NEW c \in Nat, NEW r \in Nat, NEW place \in PlaceAfter(last', c, r)
               PROVE  GetCell(c, r) \subseteq CellAt(mData', mLabelParams', place[1], place[2])
    BY DEF CellsStay
  <2>1. PlaceAfter(last', c, r) = {<<c, r>>}
    BY DEF PlaceAfter
  <2>2. place[1] = c /\ place[2] = r
    BY <2>1
  <2> QED
    BY <2>2, MovedIs
<1>2. CellsArePut
  BY DEF CellsArePut
<1> QED
  BY <1>1, <1>2 DEF Named

LEMMA SetColumnNameNamed ==
  ASSUME TypeInv, NEW c0 \in 0..MaxIndex, NEW n \in Names, SetColumnName(c0, n)
  PROVE  Named
<1>1. CASE mLabelParams.column < 0
  BY <1>1, ThrowNamed DEF SetColumnName
<1>2. CASE ~(mLabelParams.column < 0)
  <2>1. mData' = WithColumnName(mData, mColumnNames, c0, n).data /\ outcome' = "ok" /\ mLabelParams' = mLabelParams
        /\ last' = [call |-> "SetColumnName", column |-> c0, row |-> -1, cells |-> <<n>>]
    BY <1>2 DEF SetColumnName, Changed, Call, Same
  <2>2. c0 \in Nat /\ n \in Seq(Chars) /\ mData \in Table(Chars) /\ mLabelParams.column >= 0
    BY <1>2, IndicesAre, CharsAre DEF TypeInv
  <2>3. ASSUME NEW c \in Nat, NEW r \in Nat PROVE MovesTo(c, r, c, r)
    BY <2>1, <2>2, NamedColumnMoves DEF MovesTo
  <2> QED
    BY <2>1, <2>3, StayingNamed
<1> QED
  BY <1>1, <1>2

LEMMA SetRowNameNamed ==
  ASSUME TypeInv, NEW r0 \in 0..MaxIndex, NEW n \in Names, SetRowName(r0, n)
  PROVE  Named
<1>1. mData' = WithRowName(mData, r0, n).data /\ outcome' = WithRowName(mData, r0, n).outcome
      /\ mLabelParams' = mLabelParams
      /\ last' = [call |-> "SetRowName", column |-> -1, row |-> r0, cells |-> <<n>>]
  BY DEF SetRowName, Changed, Call, Same
<1>2. r0 \in Nat /\ n \in Seq(Chars) /\ mData \in Table(Chars)
  BY IndicesAre, CharsAre DEF TypeInv
<1>3. outcome' # "undefined"
  BY <1>1, <1>2, WithRowNameIs
<1>4. ASSUME NEW c \in Nat, NEW r \in Nat PROVE MovesTo(c, r, c, r)
  BY <1>1, <1>2, NamedRowMoves DEF MovesTo
<1> QED
  BY <1>1, <1>3, <1>4, StayingNamed

LEMMA RemoveRowNamed ==
  ASSUME TypeInv, NEW r0 \in Rows, RemoveRow(r0)
  PROVE  Named
<1>1. CASE r0 < 0
  BY <1>1, ThrowNamed DEF RemoveRow
<1>2. CASE ~(r0 < 0)
  <2> DEFINE row == GetDataRowIndex(r0)
             q0 == row + 1
  <2>1. /\ IF row < Len(mData) THEN mData' = RemoveAt(mData, q0) /\ outcome' = "ok"
           ELSE mData' = mData /\ outcome' = "undefined"
        /\ mLabelParams' = mLabelParams
        /\ last' = [call |-> "RemoveRow", column |-> -1, row |-> r0, cells |-> << >>]
    BY <1>2 DEF RemoveRow, Changed, Call, Same
  <2>2. r0 \in Nat
    BY <1>2, IndicesAre
  <2>3. row \in Nat
    BY <2>2, IndexIs
  <2>4. mData \in Table(Chars)
    BY DEF TypeInv
  <2>5. Len(mData) \in Nat
    BY <2>4, TableIs
  <2> DEFINE S == Seq(Seq(Chars))
  <2>6. mData \in Seq(S)
    BY <2>4 DEF Table
  <2>7. ASSUME outcome' = "undefined" PROVE PastTheEnd
    <3>1. row >= Len(mData)
      BY <2>1, <2>3, <2>5, <2>7
    <3> QED
      BY <2>1, <3>1 DEF PastTheEnd, GetDataRowCount
  <2>8. ASSUME outcome' = "ok", NEW c \in Nat, NEW r \in Nat, r # r0
        PROVE  MovesTo(c, r, c, IF r > r0 THEN r - 1 ELSE r)
    <3> DEFINE d == IF r > r0 THEN r - 1 ELSE r
               q == GetDataRowIndex(r) + 1
               q2 == GetDataRowIndex(d) + 1
               p == GetDataColumnIndex(c) + 1
    <3> SUFFICES ASSUME NEW x, Holds(mData, GetDataRowIndex(r), GetDataColumnIndex(c), x)
                 PROVE  Holds(mData', GetDataRowIndex(d), GetDataColumnIndex(c), x)
      BY DEF MovesTo
    <3>1. IsCellAt(mData, q, p, x)
      BY <2>4, CellOf
    <3>2. d \in Nat
      BY <2>2, <2>8
    <3>3. IF r > r0 THEN q > q0 /\ q2 = q - 1 ELSE q < q0 /\ q2 = q
      <4> DEFINE l == mLabelParams.column
      <4>1. l \in Int
        BY IndicesTell
      <4> HIDE DEF l
      <4>2. q0 = (r0 + l + 1) + 1 /\ q = (r + l + 1) + 1 /\ q2 = (d + l + 1) + 1
        BY DEF GetDataRowIndex, l
      <4>3. d = IF r > r0 THEN r - 1 ELSE r
        OBVIOUS
      <4> HIDE DEF q0, q, q2, d
      <4> QED
        BY <2>2, <2>8, <4>1, <4>2, <4>3
    <3>4. q \in Int /\ q2 \in Nat \ {0} /\ q0 \in 1..Len(mData) /\ mData' = RemoveAt(mData, q0)
      <4>1. GetDataRowIndex(r) \in Nat
        BY IndicesTell
      <4>2. GetDataRowIndex(d) \in Nat
        BY <3>2, IndicesTell
      <4> HIDE DEF d, row
      <4> QED
        BY <2>1, <2>3, <2>5, <2>8, <4>1, <4>2
    <3> HIDE DEF q, p, q2, q0, d, S
    <3>5. mData' \in Seq(S) /\ IsRemoved(mData, q0, mData')
      BY <2>6, <3>4, RemoveAtIs
    <3>6. q \in 1..Len(mData) /\ p \in 1..Len(mData[q]) /\ mData[q][p] = x
      BY <3>1 DEF IsCellAt
    <3>7. q2 \in 1..Len(mData') /\ mData'[q2] = mData[q]
      <4>1. Len(mData') = Len(mData) - 1
        BY <3>5 DEF IsRemoved
      <4>2. CASE r > r0
        <5>1. q \in (q0 + 1)..Len(mData) /\ q2 = q - 1 /\ q2 <= Len(mData) - 1
          BY <2>5, <3>3, <3>4, <3>6, <4>2
        <5>2. mData'[q2] = mData[q]
          BY <3>5, <5>1 DEF IsRemoved
        <5> QED
          BY <2>5, <3>4, <4>1, <5>1, <5>2
      <4>3. CASE ~(r > r0)
        <5>1. q \in 1..(q0 - 1) /\ q2 = q /\ q2 <= Len(mData) - 1
          BY <2>5, <3>3, <3>4, <3>6, <4>3
        <5>2. mData'[q2] = mData[q]
          BY <3>5, <5>1 DEF IsRemoved
        <5> QED
          BY <2>5, <3>4, <4>1, <5>1, <5>2
      <4> QED
        BY <4>2, <4>3
    <3>8. IsCellAt(mData', q2, p, x) /\ mData' \in Table(Chars)
      BY <3>5, <3>6, <3>7 DEF IsCellAt, Table, S
    <3> QED
      BY <3>2, <3>8, CellOf DEF q2, p
  <2>9. ASSUME outcome' = "ok" PROVE CellsStay
    <3> SUFFICES ASSUME NEW c \in Nat, NEW r \in Nat, NEW place \in PlaceAfter(last', c, r)
                 PROVE  GetCell(c, r) \subseteq CellAt(mData', mLabelParams', place[1], place[2])
      BY DEF CellsStay
    <3> DEFINE d == IF r > r0 THEN r - 1 ELSE r
    <3>1. PlaceAfter(last', c, r) = IF r = r0 THEN {} ELSE {<<c, d>>}
      BY <2>1 DEF PlaceAfter
    <3>2. r # r0 /\ place[1] = c /\ place[2] = d /\ d \in Int
      BY <3>1
    <3>3. MovesTo(c, r, c, d)
      BY <2>8, <2>9, <3>2
    <3> HIDE DEF d
    <3> QED
      BY <2>1, <3>2, <3>3, MovedIs
  <2>10. CellsArePut
    BY <2>1 DEF CellsArePut
  <2> QED
    BY <2>7, <2>9, <2>10 DEF Named
<1> QED
  BY <1>1, <1>2

IsPadded(C, n, cells, row) ==
  row \in Seq(Seq(C)) /\ Len(row) = n + Len(cells) /\ \A i \in 1..Len(cells) : row[n + i] = cells[i]

LEMMA PaddedIs ==
  ASSUME NEW C, NEW n \in Nat, NEW cells \in Seq(Seq(C))
  PROVE  IsPadded(C, n, cells, Resized(<< >>, n) \o cells)
<1> DEFINE pad == Resized(<< >>, n)
           row == pad \o cells
<1>1. << >> \in Seq(Seq(C))
  OBVIOUS
<1>2. pad \in Seq(Seq(C)) /\ Len(pad) = n
  BY <1>1, ResizedIs
<1> HIDE DEF pad
<1>3. row \in Seq(Seq(C)) /\ Concatenates(row, pad, cells)
  BY <1>2, Concatenation
<1> HIDE DEF row
<1>4. IsPadded(C, n, cells, row)
  BY <1>2, <1>3 DEF Concatenates, IsPadded
<1> QED
  BY <1>4 DEF row, pad

LEMMA InsertRowNamed ==
  ASSUME TypeInv, NEW r0 \in 0..MaxIndex, NEW cells \in Lists, NEW n \in Names \union {NoCell},
         InsertRow(r0, cells, n)
  PROVE  Named
<1> DEFINE l == mLabelParams
           place == GetDataRowIndex(r0)
           count == GetDataColumnCount
           row == IF cells = << >> THEN Resized(<< >>, count) ELSE Resized(<< >>, l.row + 1) \o cells
           grown == Grown(mData, place, count)
           q0 == place + 1
           longer == InsertAt(grown, q0, row)
           result == IF n = NoCell THEN [data |-> longer, outcome |-> "ok"] ELSE WithRowName(longer, r0, n)
           S == Seq(Seq(Chars))
<1>1. mData' = result.data /\ outcome' = result.outcome /\ mLabelParams' = mLabelParams
      /\ last' = [call |-> "InsertRow", column |-> -1, row |-> r0, cells |-> cells]
  BY DEF InsertRow, Changed, Call, Same
<1>2. r0 \in Nat /\ n \in Seq(Chars) /\ cells \in S /\ Len(cells) \in Nat /\ DOMAIN cells = 1..Len(cells)
  BY IndicesAre, CharsAre, ListsAre
<1>3. mData \in Table(Chars) /\ l.column \in Int /\ l.row \in Int
  BY IndicesTell, <1>2 DEF TypeInv
<1>4. place \in Nat
  BY <1>2, IndexIs
<1>5. count \in Nat /\ l.row + 1 \in Nat
  <2>1. l.row + 1 \in Nat
    BY DEF TypeInv, IsLabels
  <2> QED
    BY <2>1, IndicesAre
<1>6. row \in S
  BY <1>2, <1>5, Padded
<1>7. cells # << >> => \A i \in 1..Len(cells) : l.row + 1 + i \in 1..Len(row) /\ row[l.row + 1 + i] = cells[i]
  <2> DEFINE k == l.row + 1
  <2>1. k \in Nat
    BY <1>5
  <2> SUFFICES ASSUME cells # << >> PROVE \A i \in 1..Len(cells) : k + i \in 1..Len(row) /\ row[k + i] = cells[i]
    OBVIOUS
  <2>2. row = Resized(<< >>, k) \o cells
    OBVIOUS
  <2> HIDE DEF k, row
  <2>3. IsPadded(Chars, k, cells, row)
    BY <1>2, <2>1, <2>2, PaddedIs
  <2> QED
    BY <1>2, <2>1, <2>3 DEF IsPadded
<1> HIDE DEF row, count
<1>8. grown \in Table(Chars) /\ Len(grown) >= place /\ Len(grown) \in Nat
  <2> HIDE DEF place
  <2>1. IsGrown(Chars, mData, place, count, grown) /\ Len(mData) \in Nat
    BY <1>3, <1>4, <1>5, GrownIs, TableIs
  <2> QED
    BY <1>4, <2>1 DEF IsGrown
<1>9. ASSUME NEW r \in Nat, NEW c \in Nat, NEW x, Holds(mData, GetDataRowIndex(r), GetDataColumnIndex(c), x)
      PROVE  Holds(grown, GetDataRowIndex(r), GetDataColumnIndex(c), x)
  <2> DEFINE i == GetDataRowIndex(r)
  <2>1. i \in Nat
    BY IndicesTell
  <2> HIDE DEF place
  <2> QED
    BY <1>3, <1>4, <1>5, <1>9, <2>1, GrownHolds
<1> HIDE DEF grown
<1>10. q0 \in 1..(Len(grown) + 1) /\ grown \in Seq(S)
  BY <1>4, <1>8 DEF Table
<1> HIDE DEF q0, S, longer
<1>11. longer \in Seq(S) /\ IsInserted(grown, q0, row, longer)
  BY <1>6, <1>10, InsertAtIs DEF longer
<1>12. longer \in Table(Chars)
  BY <1>11 DEF Table, S
<1>13. ASSUME NEW r \in Nat, NEW c \in Nat, NEW x, Holds(longer, GetDataRowIndex(r), GetDataColumnIndex(c), x)
       PROVE  Holds(mData', GetDataRowIndex(r), GetDataColumnIndex(c), x)
  <2>1. CASE n = NoCell
    BY <1>1, <1>13, <2>1
  <2>2. CASE n # NoCell
    <3>1. mData' = WithRowName(longer, r0, n).data
      BY <1>1, <2>2
    <3> QED
      BY <1>2, <1>12, <1>13, <3>1, NamedRowMoves
  <2> QED
    BY <2>1, <2>2
<1>14. outcome' # "undefined"
  <2>1. CASE n = NoCell
    BY <1>1, <2>1
  <2>2. CASE n # NoCell
    <3>1. outcome' = WithRowName(longer, r0, n).outcome
      BY <1>1, <2>2
    <3> QED
      BY <1>2, <3>1, WithRowNameIs
  <2> QED
    BY <2>1, <2>2
<1>15. ASSUME NEW c \in Nat, NEW r \in Nat
       PROVE  MovesTo(c, r, c, IF r >= r0 THEN r + 1 ELSE r)
  <2> DEFINE d == IF r >= r0 THEN r + 1 ELSE r
             q == GetDataRowIndex(r) + 1
             q2 == GetDataRowIndex(d) + 1
             p == GetDataColumnIndex(c) + 1
  <2> SUFFICES ASSUME NEW x, Holds(mData, GetDataRowIndex(r), GetDataColumnIndex(c), x)
               PROVE  Holds(mData', GetDataRowIndex(d), GetDataColumnIndex(c), x)
    BY DEF MovesTo
  <2>1. IsCellAt(grown, q, p, x)
    BY <1>8, <1>9, CellOf
  <2>2. d \in Nat
    BY <1>2
  <2>3. q \in Int /\ IF r >= r0 THEN q >= q0 /\ q2 = q + 1 ELSE q < q0 /\ q2 = q
    <3> DEFINE k == l.column
    <3>1. k \in Int
      BY <1>3
    <3> HIDE DEF k
    <3>2. q0 = (r0 + k + 1) + 1 /\ q = (r + k + 1) + 1 /\ q2 = (d + k + 1) + 1
      BY DEF GetDataRowIndex, k, q0
    <3>3. d = IF r >= r0 THEN r + 1 ELSE r
      OBVIOUS
    <3> HIDE DEF q, q2, d
    <3> QED
      BY <1>2, <3>1, <3>2, <3>3
  <2> HIDE DEF q, q2, p, d
  <2>4. q \in 1..Len(grown) /\ p \in 1..Len(grown[q]) /\ grown[q][p] = x
    BY <2>1 DEF IsCellAt
  <2>5. q2 \in 1..Len(longer) /\ longer[q2] = grown[q]
    <3>1. Len(longer) = Len(grown) + 1
      BY <1>11 DEF IsInserted
    <3>2. CASE r >= r0
      <4>1. q \in q0..Len(grown) /\ q2 = q + 1 /\ q2 \in 1..(Len(grown) + 1)
        BY <1>8, <1>10, <2>3, <2>4, <3>2
      <4> QED
        BY <1>11, <3>1, <4>1 DEF IsInserted
    <3>3. CASE ~(r >= r0)
      <4>1. q \in 1..(q0 - 1) /\ q2 = q /\ q2 \in 1..(Len(grown) + 1)
        BY <1>8, <1>10, <2>3, <2>4, <3>3
      <4> QED
        BY <1>11, <3>1, <4>1 DEF IsInserted
    <3> QED
      BY <3>2, <3>3
  <2>6. IsCellAt(longer, q2, p, x)
    BY <2>4, <2>5 DEF IsCellAt
  <2>7. Holds(longer, GetDataRowIndex(d), GetDataColumnIndex(c), x)
    BY <1>12, <2>2, <2>6, CellOf DEF q2, p
  <2> QED
    BY <1>13, <2>2, <2>7
<1>16. CellsStay
  <2> SUFFICES ASSUME NEW c \in Nat, NEW r \in Nat, NEW place2 \in PlaceAfter(last', c, r)
               PROVE  GetCell(c, r) \subseteq CellAt(mData', mLabelParams', place2[1], place2[2])
    BY DEF CellsStay
  <2> DEFINE d == IF r >= r0 THEN r + 1 ELSE r
  <2>1. PlaceAfter(last', c, r) = {<<c, d>>}
    BY <1>1 DEF PlaceAfter
  <2>2. place2[1] = c /\ place2[2] = d /\ d \in Int
    BY <2>1
  <2>3. MovesTo(c, r, c, d)
    BY <1>15
  <2> HIDE DEF d
  <2> QED
    BY <1>1, <2>2, <2>3, MovedIs
<1>17. CellsArePut
  <2>1. ASSUME NEW i \in 1..Len(cells) PROVE CellAt(mData', mLabelParams', i - 1, r0) = {cells[i]}
    <3> DEFINE m == i - 1
               p == GetDataColumnIndex(m) + 1
    <3>1. m \in Nat /\ cells # << >>
      BY <1>2
    <3>2. p = l.row + 1 + i
      BY <1>2, <1>3 DEF GetDataColumnIndex
    <3>3. p \in 1..Len(row) /\ row[p] = cells[i]
      BY <1>7, <3>1, <3>2
    <3>4. q0 \in 1..Len(longer) /\ longer[q0] = row
      BY <1>8, <1>10, <1>11 DEF IsInserted
    <3> HIDE DEF m, p
    <3>5. IsCellAt(longer, q0, p, cells[i])
      BY <3>3, <3>4 DEF IsCellAt
    <3>6. Holds(longer, GetDataRowIndex(r0), GetDataColumnIndex(m), cells[i])
      BY <1>2, <1>12, <3>1, <3>5, CellOf DEF q0, p
    <3>7. Holds(mData', GetDataRowIndex(r0), GetDataColumnIndex(m), cells[i])
      BY <1>2, <1>13, <3>1, <3>6
    <3>8. CellAt(mData', mLabelParams', m, r0) = {cells[i]}
      BY <1>1, <1>2, <3>1, <3>7, PutIs
    <3> QED
      BY <3>8 DEF m
  <2>2. \A i \in 1..Len(cells) : PlaceOf(last', i) = <<i - 1, r0>>
    BY <1>1 DEF PlaceOf
  <2> QED
    BY <1>1, <1>2, <2>1, <2>2 DEF CellsArePut
<1> QED
  BY <1>14, <1>16, <1>17 DEF Named

LEMMA InsertColumnNamed ==
  ASSUME TypeInv, Rectangular, NEW c0 \in 0..MaxIndex, NEW cells \in Lists, NEW n \in Names \union {NoCell},
         InsertColumn(c0, cells, n)
  PROVE  Named
<1> DEFINE l == mLabelParams
           column == IF cells = << >> THEN Resized(<< >>, GetDataRowCount)
                     ELSE Resized(<< >>, l.column + 1) \o cells
           width == Max({l.column + 1, GetDataColumnCount})
           grown == Grown(mData, Len(column), width)
           place == GetDataColumnIndex(c0)
           p0 == place + 1
           bad == [r \in DOMAIN grown |-> IF place > Len(grown[r]) THEN "undefined"
                                          ELSE IF r > Len(column) THEN "threw" ELSE "ok"]
           newRow == [r \in DOMAIN grown |-> InsertAt(grown[r], place + 1, column[r])]
           result == RowByRow(grown, bad, newRow)
           named  == result.outcome = "ok" /\ n # NoCell
           final  == IF ~named \/ l.column < 0 THEN result.data
                     ELSE WithColumnName(result.data, mColumnNames, c0, n).data
           S == Seq(Seq(Chars))
<1>1. /\ mData' = final /\ mLabelParams' = l
      /\ outcome' = (IF named /\ l.column < 0 THEN "threw" ELSE result.outcome)
      /\ last' = [call |-> "InsertColumn", column |-> c0, row |-> -1, cells |-> cells]
  BY DEF InsertColumn, Call, Same
<1>2. c0 \in Nat /\ n \in Seq(Chars) /\ cells \in S /\ Len(cells) \in Nat /\ DOMAIN cells = 1..Len(cells)
  BY IndicesAre, CharsAre, ListsAre
<1>3. mData \in Table(Chars) /\ l.column \in Int /\ l.row \in Int
  BY <1>2, IndicesTell DEF TypeInv
<1>4. place \in Nat
  BY <1>2, IndexIs
<1>5. l.column + 1 \in Nat /\ GetDataRowCount \in Nat /\ GetDataColumnCount \in Nat
  <2>1. l.column + 1 \in Nat
    BY DEF TypeInv, IsLabels
  <2>2. GetDataRowCount \in Nat
    BY <1>3, TableIs DEF GetDataRowCount
  <2> QED
    BY <2>1, <2>2, IndicesAre
<1>6. column \in S
  BY <1>2, <1>5, Padded
<1>7. width \in Nat /\ width >= GetDataColumnCount
  BY <1>5, LargerOf
<1>8. cells # << >> =>
        Len(column) = l.column + 1 + Len(cells) /\ \A i \in 1..Len(cells) : column[l.column + 1 + i] = cells[i]
  <2> DEFINE k == l.column + 1
  <2>1. k \in Nat
    BY <1>5
  <2> SUFFICES ASSUME cells # << >> PROVE Len(column) = k + Len(cells) /\ \A i \in 1..Len(cells) : column[k + i] = cells[i]
    OBVIOUS
  <2>2. column = Resized(<< >>, k) \o cells
    OBVIOUS
  <2> HIDE DEF k, column
  <2>3. IsPadded(Chars, k, cells, column)
    BY <1>2, <2>1, <2>2, PaddedIs
  <2> QED
    BY <2>3 DEF IsPadded
<1> HIDE DEF column, width, place
<1>9. Len(column) \in Nat
  BY <1>6
<1>10. IsGrown(Chars, mData, Len(column), width, grown)
  BY <1>3, <1>7, <1>9, GrownIs
<1>11. ASSUME NEW r \in Nat, NEW c \in Nat, NEW x, Holds(mData, GetDataRowIndex(r), GetDataColumnIndex(c), x)
       PROVE  Holds(grown, GetDataRowIndex(r), GetDataColumnIndex(c), x)
  <2> DEFINE i == GetDataRowIndex(r)
  <2>1. i \in Nat
    BY IndicesTell
  <2>2. Len(column) \in Int
    BY <1>9
  <2> QED
    BY <1>3, <1>7, <1>11, <2>1, <2>2, GrownHolds
<1> HIDE DEF grown
<1>12. /\ grown \in Table(Chars) /\ Len(grown) \in Nat /\ Len(mData) \in Nat
       /\ Len(grown) >= Len(mData) /\ Len(grown) >= Len(column) /\ DOMAIN grown = 1..Len(grown)
       /\ \A r \in 1..Len(grown) : grown[r] \in S /\ Len(grown[r]) \in Nat
  <2>1. grown \in Table(Chars) /\ Len(grown) = IF Len(column) > Len(mData) THEN Len(column) ELSE Len(mData)
    BY <1>10 DEF IsGrown
  <2>2. Len(mData) \in Nat
    BY <1>3, TableIs
  <2> QED
    BY <1>9, <2>1, <2>2, TableIs
<1>13. \A r \in 1..Len(grown) : r - 1 >= l.column => Len(grown[r]) >= GetDataColumnCount
  <2> SUFFICES ASSUME NEW r \in 1..Len(grown), r - 1 >= l.column PROVE Len(grown[r]) >= GetDataColumnCount
    OBVIOUS
  <2>1. CASE r \in 1..Len(mData)
    <3>1. Len(mData[r]) = GetDataColumnCount
      BY <2>1, RectangularIs
    <3>2. grown[r] = mData[r]
      BY <1>10, <2>1 DEF IsGrown
    <3> QED
      BY <1>5, <3>1, <3>2
  <2>2. CASE r \in (Len(mData) + 1)..Len(grown)
    <3>1. grown[r] = Resized(<< >>, width)
      BY <1>10, <2>2 DEF IsGrown
    <3>2. << >> \in S
      OBVIOUS
    <3>3. Len(Resized(<< >>, width)) = width
      BY <1>7, <3>2, ResizedIs
    <3> QED
      BY <1>7, <3>1, <3>3
  <2> QED
    BY <1>12, <2>1, <2>2
<1>14. \A r \in 1..Len(grown) :
         /\ bad[r] = IF place > Len(grown[r]) THEN "undefined" ELSE IF r > Len(column) THEN "threw" ELSE "ok"
         /\ newRow[r] = InsertAt(grown[r], p0, column[r])
  BY <1>12
<1> HIDE DEF bad, newRow
<1>15. ASSUME NEW r \in 1..Len(grown), bad[r] = "ok"
       PROVE  /\ newRow[r] \in S /\ IsInserted(grown[r], p0, column[r], newRow[r])
              /\ p0 \in 1..(Len(grown[r]) + 1) /\ Len(grown[r]) \in Nat
  <2>1. ~(place > Len(grown[r])) /\ ~(r > Len(column))
    BY <1>14, <1>15
  <2>2. p0 \in 1..(Len(grown[r]) + 1) /\ r \in 1..Len(column)
    BY <1>4, <1>9, <1>12, <2>1
  <2>3. column[r] \in Seq(Chars)
    BY <1>6, <2>2
  <2> HIDE DEF p0
  <2> QED
    BY <1>12, <1>14, <2>2, <2>3, InsertAtIs
<1>16. IsRowByRow(Chars, grown, bad, newRow, result)
  BY <1>12, <1>15, RowByRowIs
<1> HIDE DEF result
<1>17. result.data \in Table(Chars)
  BY <1>16 DEF IsRowByRow
<1>18. ASSUME outcome' = "undefined" PROVE PastTheEnd
  <2>1. result.outcome = "undefined"
    BY <1>1, <1>18
  <2>2. PICK r \in 1..Len(grown) : r - 1 >= l.column /\ result.outcome = bad[r]
    BY <1>16, <2>1 DEF IsRowByRow
  <2>3. place > Len(grown[r])
    BY <1>14, <2>1, <2>2
  <2>4. place >= GetDataColumnCount
    BY <1>4, <1>5, <1>12, <1>13, <2>2, <2>3
  <2> QED
    BY <1>1, <2>4 DEF PastTheEnd, place
<1>19. ASSUME NEW r \in Nat, NEW c \in Nat, NEW x, Holds(result.data, GetDataRowIndex(r), GetDataColumnIndex(c), x)
       PROVE  Holds(mData', GetDataRowIndex(r), GetDataColumnIndex(c), x)
  <2>1. CASE ~named \/ l.column < 0
    BY <1>1, <1>19, <2>1
  <2>2. CASE ~(~named \/ l.column < 0)
    <3>1. l.column >= 0 /\ mData' = WithColumnName(result.data, mColumnNames, c0, n).data
      BY <1>1, <1>3, <2>2
    <3> QED
      BY <1>2, <1>17, <1>19, <3>1, NamedColumnMoves
  <2> QED
    BY <2>1, <2>2
<1> HIDE DEF named, final, S
<1>20. ASSUME outcome' = "ok" PROVE \A r \in 1..Len(grown) : r - 1 >= l.column => bad[r] = "ok" /\ result.data[r] = newRow[r]
  <2>1. result.outcome = "ok"
    BY <1>1, <1>20
  <2> QED
    BY <1>16, <2>1 DEF IsRowByRow
<1>21. Len(result.data) = Len(grown)
  BY <1>16 DEF IsRowByRow
<1>22. ASSUME outcome' = "ok", NEW c \in Nat, NEW r \in Nat
       PROVE  MovesTo(c, r, IF c >= c0 THEN c + 1 ELSE c, r)
  <2> DEFINE d == IF c >= c0 THEN c + 1 ELSE c
             q == GetDataRowIndex(r) + 1
             p == GetDataColumnIndex(c) + 1
             p2 == GetDataColumnIndex(d) + 1
  <2> SUFFICES ASSUME NEW x, Holds(mData, GetDataRowIndex(r), GetDataColumnIndex(c), x)
               PROVE  Holds(mData', GetDataRowIndex(r), GetDataColumnIndex(d), x)
    BY DEF MovesTo
  <2>1. IsCellAt(grown, q, p, x)
    BY <1>11, <1>12, CellOf
  <2>2. d \in Nat
    BY <1>2
  <2>3. p \in Int /\ IF c >= c0 THEN p >= p0 /\ p2 = p + 1 ELSE p < p0 /\ p2 = p
    <3> DEFINE k == l.row
    <3>1. k \in Int
      BY <1>3
    <3> HIDE DEF k
    <3>2. p0 = (c0 + k + 1) + 1 /\ p = (c + k + 1) + 1 /\ p2 = (d + k + 1) + 1
      BY DEF GetDataColumnIndex, k, place
    <3>3. d = IF c >= c0 THEN c + 1 ELSE c
      OBVIOUS
    <3> HIDE DEF p0, p, p2, d
    <3> QED
      BY <1>2, <3>1, <3>2, <3>3
  <2>4. q - 1 >= l.column
    <3>1. GetDataRowIndex(r) \in Nat /\ GetDataRowIndex(r) > l.column
      BY IndicesTell
    <3> QED
      BY <1>3, <3>1
  <2> HIDE DEF q, p, p2, d, p0
  <2>5. q \in 1..Len(grown) /\ p \in 1..Len(grown[q]) /\ grown[q][p] = x
    BY <2>1 DEF IsCellAt
  <2>6. bad[q] = "ok" /\ result.data[q] = newRow[q]
    BY <1>20, <1>22, <2>4, <2>5
  <2>7. IsInserted(grown[q], p0, column[q], result.data[q]) /\ p0 \in 1..(Len(grown[q]) + 1) /\ Len(grown[q]) \in Nat
    BY <1>15, <2>5, <2>6
  <2>8. p2 \in 1..Len(result.data[q]) /\ result.data[q][p2] = x
    <3>1. Len(result.data[q]) = Len(grown[q]) + 1
      BY <2>7 DEF IsInserted
    <3>2. CASE c >= c0
      <4>1. p \in p0..Len(grown[q]) /\ p2 = p + 1 /\ p2 \in 1..(Len(grown[q]) + 1)
        BY <2>3, <2>5, <2>7, <3>2
      <4> QED
        BY <2>5, <2>7, <3>1, <4>1 DEF IsInserted
    <3>3. CASE ~(c >= c0)
      <4>1. p \in 1..(p0 - 1) /\ p2 = p /\ p2 \in 1..(Len(grown[q]) + 1)
        BY <2>3, <2>5, <2>7, <3>3
      <4> QED
        BY <2>5, <2>7, <3>1, <4>1 DEF IsInserted
    <3> QED
      BY <3>2, <3>3
  <2>9. IsCellAt(result.data, q, p2, x)
    BY <1>21, <2>5, <2>8 DEF IsCellAt
  <2>10. Holds(result.data, GetDataRowIndex(r), GetDataColumnIndex(d), x)
    BY <1>17, <2>2, <2>9, CellOf DEF q, p2
  <2> QED
    BY <1>19, <2>2, <2>10
<1>23. ASSUME outcome' = "ok" PROVE CellsStay
  <2> SUFFICES ASSUME NEW c \in Nat, NEW r \in Nat, NEW place2 \in PlaceAfter(last', c, r)
               PROVE  GetCell(c, r) \subseteq CellAt(mData', mLabelParams', place2[1], place2[2])
    BY DEF CellsStay
  <2> DEFINE d == IF c >= c0 THEN c + 1 ELSE c
  <2>1. PlaceAfter(last', c, r) = {<<d, r>>}
    BY <1>1 DEF PlaceAfter
  <2>2. place2[1] = d /\ place2[2] = r /\ d \in Int
    BY <2>1
  <2>3. MovesTo(c, r, d, r)
    BY <1>22, <1>23
  <2> HIDE DEF d
  <2> QED
    BY <1>1, <2>2, <2>3, MovedIs
<1>24. ASSUME outcome' = "ok" PROVE CellsArePut
  <2>1. ASSUME NEW i \in 1..Len(cells) PROVE CellAt(mData', mLabelParams', c0, i - 1) = {cells[i]}
    <3> DEFINE m == i - 1
               q == GetDataRowIndex(m) + 1
    <3>1. m \in Nat /\ cells # << >> /\ i \in Nat
      BY <1>2
    <3>2. q = l.column + 1 + i
      BY <1>3, <3>1 DEF GetDataRowIndex
    <3>3. q \in 1..Len(column) /\ column[q] = cells[i] /\ q - 1 >= l.column
      <4> HIDE DEF m, q
      <4> DEFINE a == l.column + 1
      <4>1. /\ Len(column) = a + Len(cells) /\ column[a + i] = cells[i]
            /\ q = a + i /\ a \in Nat /\ i \in 1..Len(cells)
        BY <1>5, <1>8, <3>1, <3>2
      <4>2. q - 1 >= l.column
        BY <1>3, <3>1, <3>2
      <4> HIDE DEF a
      <4> QED
        BY <1>2, <4>1, <4>2
    <3> HIDE DEF m, q, p0
    <3>4. q \in 1..Len(grown)
      BY <1>9, <1>12, <3>3
    <3>5. bad[q] = "ok" /\ result.data[q] = newRow[q]
      BY <1>20, <1>24, <3>3, <3>4
    <3>6. IsInserted(grown[q], p0, column[q], result.data[q]) /\ p0 \in 1..(Len(grown[q]) + 1) /\ Len(grown[q]) \in Nat
      BY <1>15, <3>4, <3>5
    <3>7. p0 \in 1..Len(result.data[q]) /\ result.data[q][p0] = cells[i]
      BY <3>3, <3>6 DEF IsInserted
    <3>8. IsCellAt(result.data, q, p0, cells[i])
      BY <1>21, <3>4, <3>7 DEF IsCellAt
    <3>9. Holds(result.data, GetDataRowIndex(m), GetDataColumnIndex(c0), cells[i])
      BY <1>2, <1>17, <3>1, <3>8, CellOf DEF q, p0, place
    <3>10. Holds(mData', GetDataRowIndex(m), GetDataColumnIndex(c0), cells[i])
      BY <1>2, <1>19, <3>1, <3>9
    <3>11. CellAt(mData', mLabelParams', c0, m) = {cells[i]}
      BY <1>1, <1>2, <3>1, <3>10, PutIs
    <3> QED
      BY <3>11 DEF m
  <2>2. \A i \in 1..Len(cells) : PlaceOf(last', i) = <<c0, i - 1>>
    BY <1>1 DEF PlaceOf
  <2> QED
    BY <1>1, <1>2, <2>1, <2>2 DEF CellsArePut
<1> QED
  BY <1>18, <1>23, <1>24 DEF Named

LEMMA LoadNamed ==
  ASSUME NEW labels, Load(labels) \/ LoadMissing(labels)
  PROVE  Named
<1>1. last' = [call |-> "Load", column |-> -1, row |-> -1, cells |-> << >>] /\ outcome' \in {"ok", "threw"}
  BY DEF Load, LoadMissing, Call
<1>2. \A c, r \in Nat : PlaceAfter(last', c, r) = {}
  BY <1>1 DEF PlaceAfter
<1>3. last'.cells = << >>
  BY <1>1
<1> QED
  BY <1>1, <1>2, <1>3 DEF Named, CellsStay, CellsArePut

LEMMA ClearNamed ==
  ASSUME Clear
  PROVE  Named
<1>1. last' = [call |-> "Clear", column |-> -1, row |-> -1, cells |-> << >>] /\ outcome' = "ok"
  BY DEF Clear, Call
<1>2. \A c, r \in Nat : PlaceAfter(last', c, r) = {}
  BY <1>1 DEF PlaceAfter
<1>3. last'.cells = << >>
  BY <1>1
<1> QED
  BY <1>1, <1>2, <1>3 DEF Named, CellsStay, CellsArePut

LEMMA SaveNamed ==
  ASSUME TypeInv, NEW toPath, Save(toPath)
  PROVE  Named
<1>1. last' = [call |-> "Save", column |-> -1, row |-> -1, cells |-> << >>] /\ outcome' = "ok"
      /\ mData' = mData /\ mLabelParams' = mLabelParams
  BY DEF Save, Call, doc
<1>2. \A c, r \in Nat : MovesTo(c, r, c, r)
  BY <1>1 DEF MovesTo
<1>3. last'.call = "Save" /\ last'.cells = << >> /\ outcome' # "undefined"
  BY <1>1
<1> QED
  BY <1>1, <1>2, <1>3, StayingNamed

LEMMA CallsAreNamed ==
  ASSUME TypeInv, Rectangular, Next
  PROVE  Named
<1>1. CASE ChangeColumns
  <2>1. ASSUME NEW c \in Columns, NEW cells \in Lists, SetColumn(c, cells) PROVE Named
    BY <2>1, SetColumnNamed
  <2>2. ASSUME NEW c \in Columns, RemoveColumn(c) PROVE Named
    BY <2>2, RemoveColumnNamed
  <2>3. ASSUME NEW c \in 0..MaxIndex, NEW cells \in Lists, NEW n \in Names \union {NoCell}, InsertColumn(c, cells, n)
        PROVE  Named
    BY <2>3, InsertColumnNamed
  <2>4. ASSUME NEW c \in 0..MaxIndex, NEW n \in Names, SetColumnName(c, n) PROVE Named
    BY <2>4, SetColumnNameNamed
  <2> QED
    BY <1>1, <2>1, <2>2, <2>3, <2>4 DEF ChangeColumns
<1>2. CASE ChangeRows
  <2>1. ASSUME NEW r \in Rows, NEW cells \in Lists, SetRow(r, cells) PROVE Named
    BY <2>1, SetRowNamed
  <2>2. ASSUME NEW r \in Rows, RemoveRow(r) PROVE Named
    BY <2>2, RemoveRowNamed
  <2>3. ASSUME NEW r \in 0..MaxIndex, NEW cells \in Lists, NEW n \in Names \union {NoCell}, InsertRow(r, cells, n)
        PROVE  Named
    BY <2>3, InsertRowNamed
  <2>4. ASSUME NEW r \in 0..MaxIndex, NEW n \in Names, SetRowName(r, n) PROVE Named
    BY <2>4, SetRowNameNamed
  <2> QED
    BY <1>2, <2>1, <2>2, <2>3, <2>4 DEF ChangeRows
<1>3. ASSUME NEW c \in Columns, NEW r \in Rows, NEW cell \in Cells, SetCell(c, r, cell) PROVE Named
  BY <1>3, SetCellNamed
<1>4. ASSUME NEW labels \in Labels, Load(labels) \/ LoadMissing(labels) PROVE Named
  BY <1>4, LoadNamed
<1>5. ASSUME NEW toPath \in BOOLEAN, Save(toPath) PROVE Named
  BY <1>5, SaveNamed
<1>6. CASE Clear
  BY <1>6, ClearNamed
<1> QED
  BY <1>1, <1>2, <1>3, <1>4, <1>5, <1>6 DEF Next

\* Whatever was called before, a call on a rectangular table changes only the cells that it
\* is told to, every other cell can be read where the call has moved it, and the memory of a
\* row is left only by removing or inserting past the end (SetColumn, SetRow, SetCell,
\* RemoveColumn, RemoveRow, InsertColumn and InsertRow of Document).
THEOREM ChangesWhatIsNamed == Spec => OnlyWhatIsNamed
<1> DEFINE Only ==
      /\ outcome' = "ok" =>
           /\ \A c, r \in 0..(MaxIndex + 2) : \A place \in PlaceAfter(last', c, r) :
                GetCell(c, r) \subseteq CellAt(mData', mLabelParams', place[1], place[2])
           /\ last'.call \notin {"SetColumnName", "SetRowName"} =>
                \A i \in DOMAIN last'.cells :
                  LET place == PlaceOf(last', i)
                  IN  CellAt(mData', mLabelParams', place[1], place[2]) = {last'.cells[i]}
      /\ outcome' = "undefined" =>
           \/ GetDataColumnIndex(last'.column) >= GetDataColumnCount
           \/ GetDataRowIndex(last'.row) >= GetDataRowCount
<1>1. 0..(MaxIndex + 2) \subseteq Nat
  BY DocumentAssumption
<1>2. Named => Only
  BY <1>1 DEF Named, CellsStay, CellsArePut, PastTheEnd
<1>3. TypeInv /\ [Next]_vars => [Rectangular /\ calls' # calls => Only]_vars
  <2> SUFFICES ASSUME TypeInv, [Next]_vars, Rectangular, calls' # calls PROVE Only
    OBVIOUS
  <2>1. Next
    BY DEF vars
  <2> QED
    BY <1>2, <2>1, CallsAreNamed
<1> QED
  BY <1>3, TypeCorrect, PTL DEF Spec, OnlyWhatIsNamed
=============================================================================
