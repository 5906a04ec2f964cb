----------------------------- MODULE FoldFacts -----------------------------
(***************************************************************************)
(* Facts about numbers, sequences and folds that the proofs of several     *)
(* components cite: induction over the natural numbers, with a set for the *)
(* predicate, from the well-foundedness of <; functions that are defined   *)
(* by recursion; and what FlattenSeq and FoldSet of the community modules  *)
(* compute, which both define by recursion.                                *)
(***************************************************************************)
EXTENDS Integers, Sequences, SequencesExt, FiniteSetsExt, FiniteSetTheorems,
        WellFoundedInduction, TLAPS

----------------------------------------------------------------------------
(* Induction and recursion *)

\* A set of natural numbers has a least element.
LEMMA LeastElement ==
  ASSUME NEW T \in SUBSET Nat, T # {}
  PROVE  \E x \in T : \A y \in T : x <= y
<1> DEFINE R == {ss \in Nat \X Nat : ss[1] < ss[2]}
<1>1. IsWellFoundedOn(R, Nat)
  BY NatLessThanWellFounded DEF OpToRel
<1> HIDE DEF R
<1>2. PICK x \in T : \A y \in T : ~ (<<y, x>> \in R)
  BY <1>1, WFMin
<1>3. \A y \in T : y < x => <<y, x>> \in R
  BY DEF R
<1>4. \A y \in T : ~ (y < x)
  BY <1>2, <1>3, Zenon
<1>5. \A y \in T : x <= y
  BY <1>4
<1> QED
  BY <1>5

\* A set that holds 0, and with every n its successor, holds every natural number.
LEMMA InductionOnNat ==
  ASSUME NEW T, 0 \in T, \A n \in Nat : n \in T => n + 1 \in T
  PROVE  Nat \subseteq T
<1> SUFFICES ASSUME Nat \ T # {} PROVE FALSE
  OBVIOUS
<1>1. PICK x \in Nat \ T : \A y \in Nat \ T : x <= y
  BY LeastElement
<1>2. x # 0 /\ x - 1 \in Nat /\ ~(x <= x - 1)
  BY <1>1
<1>3. x - 1 \in T
  BY <1>1, <1>2
<1>4. (x - 1) + 1 \in T
  BY <1>2, <1>3
<1> QED
  BY <1>1, <1>4

\* The same up to a number k.
LEMMA InductionUpTo ==
  ASSUME NEW k \in Nat, NEW T, 0 \in T, \A n \in 0..(k - 1) : n \in T => n + 1 \in T
  PROVE  0..k \subseteq T
<1> DEFINE U == {n \in Nat : n <= k => n \in T}
<1>1. 0 \in U
  OBVIOUS
<1>2. \A n \in Nat : n \in U => n + 1 \in U
  <2> SUFFICES ASSUME NEW n \in Nat, n \in U, n + 1 <= k PROVE n + 1 \in T
    OBVIOUS
  <2>1. n \in 0..(k - 1) /\ n <= k
    OBVIOUS
  <2> QED
    BY <2>1
<1> HIDE DEF U
<1>3. Nat \subseteq U
  BY <1>1, <1>2, InductionOnNat
<1> QED
  BY <1>3 DEF U

\* The largest of some numbers up to a bound.
LEMMA MaxUpTo ==
  ASSUME NEW n \in Nat, NEW S \in SUBSET (1..n), S # {}
  PROVE  Max(S) \in S /\ \A y \in S : y <= Max(S)
<1> DEFINE U == {x \in Nat : n - x \in S}
<1>1. U \in SUBSET Nat
  OBVIOUS
<1>2. \A y \in S : y \in 1..n /\ n - y \in Nat /\ n - (n - y) = y
  OBVIOUS
<1>3. \A y \in S : n - y \in U
  BY <1>2
<1>4. U # {}
  BY <1>3
<1>5. PICK x \in U : \A y \in U : x <= y
  BY <1>1, <1>4, LeastElement
<1>6. x \in Nat /\ n - x \in S
  OBVIOUS
<1> HIDE DEF U
<1>7. \A y \in S : n - x >= y
  <2> TAKE y \in S
  <2>1. x <= n - y /\ y \in 1..n
    BY <1>2, <1>3, <1>5
  <2> QED
    BY <1>6, <2>1
<1>8. Max(S) \in S /\ \A y \in S : Max(S) >= y
  BY <1>6, <1>7 DEF Max
<1> QED
  BY <1>2, <1>8

\* The functions on 0..k that start with a and go on as step says.
Recursively(k, S, a, step) ==
  {f \in [0..k -> S] : f[0] = a /\ \A n \in 1..k : f[n] = step[n][f[n - 1]]}

\* There is a function with a first value, and each further one computed from the one before.
LEMMA Recursion ==
  ASSUME NEW k \in Nat, NEW S, NEW a \in S, NEW step \in [1..k -> [S -> S]]
  PROVE  Recursively(k, S, a, step) # {}
<1> DEFINE Upto(n) == {f \in [0..n -> S] :
                         f[0] = a /\ \A i \in 1..n : f[i] = step[i][f[i - 1]]}
           T == {n \in 0..k : Upto(n) # {}}
<1>1. 0 \in T
  <2> DEFINE g == [i \in 0..0 |-> a]
  <2>1. g \in [0..0 -> S] /\ g[0] = a /\ 1..0 = {}
    OBVIOUS
  <2> HIDE DEF g
  <2>2. g \in Upto(0)
    BY <2>1
  <2> QED
    BY <2>2
<1>2. ASSUME NEW n \in 0..(k - 1), n \in T PROVE n + 1 \in T
  <2>0. n \in Nat /\ n + 1 \in 1..k /\ n + 1 \in 0..k /\ n \in 0..n
    OBVIOUS
  <2>1. PICK f \in [0..n -> S] : f[0] = a /\ \A i \in 1..n : f[i] = step[i][f[i - 1]]
    BY <1>2
  <2>2. f[n] \in S /\ step[n + 1] \in [S -> S]
    BY <2>0
  <2>3. step[n + 1][f[n]] \in S
    BY <2>2
  <2> DEFINE y == step[n + 1][f[n]]
             g == [i \in 0..(n + 1) |-> IF i <= n THEN f[i] ELSE y]
  <2>4. y \in S /\ y = step[n + 1][f[n]]
    BY <2>3
  <2> HIDE DEF y
  <2>5. \A i \in 0..(n + 1) : i <= n => i \in 0..n /\ f[i] \in S
    BY <2>0
  <2>6. g \in [0..(n + 1) -> S]
    BY <2>4, <2>5
  <2>7. \A i \in 0..(n + 1) : g[i] = IF i <= n THEN f[i] ELSE y
    OBVIOUS
  <2> HIDE DEF g
  <2>8. g[0] = a
    BY <2>0, <2>1, <2>7
  <2>9. ASSUME NEW i \in 1..(n + 1) PROVE g[i] = step[i][g[i - 1]]
    <3>0. i \in 0..(n + 1) /\ i - 1 \in 0..(n + 1) /\ i - 1 <= n
      BY <2>0
    <3>1. g[i - 1] = f[i - 1]
      BY <3>0, <2>7
    <3>2. CASE i <= n
      <4>1. i \in 1..n
        BY <2>0, <3>2
      <4>2. g[i] = f[i] /\ f[i] = step[i][f[i - 1]]
        BY <4>1, <3>0, <3>2, <2>7, <2>1
      <4> QED
        BY <4>2, <3>1
    <3>3. CASE ~ (i <= n)
      <4>1. i = n + 1 /\ i - 1 = n
        BY <2>0, <3>3
      <4>2. g[i] = y
        BY <3>0, <3>3, <2>7
      <4> QED
        BY <4>1, <4>2, <3>1, <2>4
    <3> QED
      BY <3>2, <3>3
  <2>10. g \in Upto(n + 1)
    BY <2>6, <2>8, <2>9
  <2> QED
    BY <2>0, <2>10
<1> HIDE DEF T
<1>3. 0..k \subseteq T
  BY <1>1, <1>2, InductionUpTo
<1>4. k \in T
  BY <1>3
<1> QED
  BY <1>4 DEF T, Recursively

----------------------------------------------------------------------------
(* Concatenation and FlattenSeq *)

\* FlattenSeq appends one sequence after the other.
LEMMA FlattenUnfolds ==
  ASSUME NEW S, NEW ss \in Seq(Seq(S)), ss # << >>
  PROVE  \E f \in [1..Len(ss) -> Seq(S)] :
           /\ f[1] = ss[1]
           /\ \A i \in 2..Len(ss) : f[i] = f[i - 1] \o ss[i]
           /\ FlattenSeq(ss) = f[Len(ss)]
<1>0. Len(ss) \in Nat \ {0} /\ \A i \in 1..Len(ss) : ss[i] \in Seq(S)
  OBVIOUS
<1> DEFINE P == Seq(S)
           k == Len(ss) - 1
           step == [i \in 1..k |-> [s \in Seq(S) |-> s \o ss[i + 1]]]
           tab == CHOOSE g : g = [i \in 1..Len(ss) |-> IF i = 1 THEN ss[i] ELSE g[i - 1] \o ss[i]]
<1>1. k \in Nat /\ ss[1] \in Seq(S) /\ \A i \in 1..k : i + 1 \in 1..Len(ss)
  BY <1>0
<1>2. \A i \in 1..k : \A s \in Seq(S) : s \o ss[i + 1] \in Seq(S)
  <2> TAKE i \in 1..k
  <2> TAKE s \in Seq(S)
  <2>1. ss[i + 1] \in Seq(S)
    BY <1>0, <1>1
  <2> QED
    BY <2>1
<1>3. step \in [1..k -> [Seq(S) -> Seq(S)]]
  BY <1>2
<1>4. \A i \in 1..k : \A s \in Seq(S) : step[i][s] = s \o ss[i + 1]
  OBVIOUS
<1>5. FlattenSeq(ss) = tab[Len(ss)]
  BY <1>0 DEF FlattenSeq
<1> DEFINE a == ss[1]
<1>a. k \in Nat /\ a \in P /\ step \in [1..k -> [P -> P]]
  BY <1>1, <1>3
<1> HIDE DEF step, P, k, a
<1>c. PICK f \in Recursively(k, P, a, step) : TRUE
  BY <1>a, Recursion
<1>6. f \in [0..k -> P] /\ f[0] = a /\ \A n \in 1..k : f[n] = step[n][f[n - 1]]
  BY <1>c DEF Recursively
<1> USE DEF k, a
<1> DEFINE g == [i \in 1..Len(ss) |-> f[i - 1]]
<1>7. \A i \in 1..Len(ss) : i - 1 \in 0..k /\ (i # 1 => i - 1 \in 1..Len(ss) /\ i - 1 \in 1..k /\ (i - 1) + 1 = i /\ (i - 1) - 1 \in 0..k)
  BY <1>0
<1>8. \A i \in 1..Len(ss) : g[i] = f[i - 1]
  OBVIOUS
<1>11. g \in [1..Len(ss) -> Seq(S)]
  BY <1>6, <1>7 DEF P
<1> HIDE DEF g, k
<1>9. ASSUME NEW i \in 1..Len(ss), i # 1 PROVE g[i] = g[i - 1] \o ss[i]
  <2>1. i - 1 \in 1..Len(ss) /\ i - 1 \in 1..k /\ (i - 1) + 1 = i /\ (i - 1) - 1 \in 0..k
    BY <1>7, <1>9
  <2>2. f[(i - 1) - 1] \in Seq(S)
    BY <1>6, <2>1 DEF P
  <2>3. f[i - 1] = step[i - 1][f[(i - 1) - 1]]
    BY <1>6, <2>1
  <2>4. step[i - 1][f[(i - 1) - 1]] = f[(i - 1) - 1] \o ss[i]
    BY <1>4, <2>1, <2>2
  <2> QED
    BY <1>8, <2>1, <2>3, <2>4
<1>b. g[1] = ss[1]
  BY <1>0, <1>6, <1>8
<1>10. \A i \in 1..Len(ss) : g[i] = IF i = 1 THEN ss[i] ELSE g[i - 1] \o ss[i]
  BY <1>9, <1>b
<1>12. g = [i \in 1..Len(ss) |-> IF i = 1 THEN ss[i] ELSE g[i - 1] \o ss[i]]
  BY <1>10, <1>11
<1>13. tab = [i \in 1..Len(ss) |-> IF i = 1 THEN ss[i] ELSE tab[i - 1] \o ss[i]]
  BY <1>12
<1> HIDE DEF tab
<1> DEFINE T == {n \in 0..k : tab[n + 1] = g[n + 1]}
<1>14. 0 \in T
  BY <1>0, <1>1, <1>10, <1>13
<1>15. ASSUME NEW n \in 0..(k - 1), n \in T PROVE n + 1 \in T
  <2>1. (n + 1) + 1 \in 1..Len(ss) /\ (n + 1) + 1 # 1 /\ ((n + 1) + 1) - 1 = n + 1 /\ n + 1 \in 0..k
    BY <1>0, <1>1 DEF k
  <2>2. tab[(n + 1) + 1] = tab[n + 1] \o ss[(n + 1) + 1]
    BY <1>13, <2>1
  <2>3. g[(n + 1) + 1] = g[n + 1] \o ss[(n + 1) + 1]
    BY <1>10, <2>1
  <2> QED
    BY <2>1, <2>2, <2>3, <1>15
<1> HIDE DEF T
<1>16. 0..k \subseteq T
  BY <1>1, <1>14, <1>15, InductionUpTo
<1>17. k \in T /\ k + 1 = Len(ss)
  BY <1>0, <1>1, <1>16 DEF k
<1>18. FlattenSeq(ss) = g[Len(ss)]
  BY <1>5, <1>17 DEF T
<1>19. \A i \in 2..Len(ss) : i \in 1..Len(ss) /\ i # 1
  BY <1>0
<1>20. g[1] = ss[1] /\ \A i \in 2..Len(ss) : g[i] = g[i - 1] \o ss[i]
  BY <1>9, <1>b, <1>19
<1> QED
  BY <1>11, <1>18, <1>20

\* A function on 1..n is a sequence.
LEMMA FunctionIsSeq ==
  ASSUME NEW n \in Nat, NEW S, NEW f, f = [j \in 1..n |-> f[j]], \A j \in 1..n : f[j] \in S
  PROVE  f \in Seq(S) /\ Len(f) = n
<1>1. f \in [1..n -> S]
  OBVIOUS
<1>2. f \in Seq(S)
  BY <1>1
<1>3. DOMAIN f = 1..n
  OBVIOUS
<1> QED
  BY <1>2, <1>3

\* All of s, and then all of t.
Concatenates(st, s, t) ==
  /\ Len(st) = Len(s) + Len(t) /\ Len(s) \in Nat /\ Len(t) \in Nat
  /\ \A q \in 1..Len(s) : st[q] = s[q]
  /\ \A q \in 1..Len(t) : st[Len(s) + q] = t[q]

\* What the elements of a concatenation are.
LEMMA Concatenation ==
  ASSUME NEW S, NEW s \in Seq(S), NEW t \in Seq(S)
  PROVE  s \o t \in Seq(S) /\ Concatenates(s \o t, s, t)
<1>1. s \o t \in Seq(S) /\ Len(s \o t) = Len(s) + Len(t) /\ Len(s) \in Nat /\ Len(t) \in Nat
  OBVIOUS
<1>2. ASSUME NEW q \in 1..Len(s) PROVE (s \o t)[q] = s[q]
  BY <1>1
<1>3. ASSUME NEW q \in 1..Len(t) PROVE (s \o t)[Len(s) + q] = t[q]
  <2>1. Len(s) + q \in (Len(s) + 1)..(Len(s) + Len(t)) /\ (Len(s) + q) - Len(s) = q
    BY <1>1
  <2> QED
    BY <1>1, <2>1
<1> QED
  BY <1>1, <1>2, <1>3 DEF Concatenates

\* The elements m to n of s.
IsPiece(t, s, m, n) ==
  /\ Len(t) = (n - m) + 1
  /\ \A q \in 1..((n - m) + 1) : t[q] = s[(m + q) - 1] /\ (m + q) - 1 \in 1..Len(s)

\* What the elements of a part of a sequence are.
LEMMA Piece ==
  ASSUME NEW S, NEW s \in Seq(S), NEW m \in Nat \ {0}, NEW n \in Nat, n <= Len(s), m <= n + 1
  PROVE  SubSeq(s, m, n) \in Seq(S) /\ IsPiece(SubSeq(s, m, n), s, m, n)
<1>1. SubSeq(s, m, n) = [q \in 1..((n - m) + 1) |-> s[(m + q) - 1]]
  OBVIOUS
<1>2. (n - m) + 1 \in Nat /\ Len(s) \in Nat /\ \A q \in 1..((n - m) + 1) : (m + q) - 1 \in 1..Len(s)
  OBVIOUS
<1>3. \A q \in 1..((n - m) + 1) : s[(m + q) - 1] \in S
  BY <1>2
<1> DEFINE t == SubSeq(s, m, n)
           w == (n - m) + 1
<1>4. t = [q \in 1..w |-> t[q]] /\ \A q \in 1..w : t[q] = s[(m + q) - 1] /\ t[q] \in S
  BY <1>1, <1>3
<1>5. w \in Nat
  BY <1>2
<1> HIDE DEF t, w
<1>6. t \in Seq(S) /\ Len(t) = w
  BY <1>4, <1>5, FunctionIsSeq
<1> QED
  BY <1>2, <1>4, <1>6 DEF t, w, IsPiece

\* No sequences make an empty one.
LEMMA FlattenEmpty == FlattenSeq(<< >>) = << >>
BY DEF FlattenSeq

\* Where the pieces of a flattened sequence begin.
Offsets(ss) ==
  {off \in [0..Len(ss) -> Nat] :
     off[0] = 0 /\ \A i \in 1..Len(ss) : off[i] = off[i - 1] + Len(ss[i])}

\* The pieces ss stand in flat where off says.
Laid(flat, ss, off) ==
  /\ Len(flat) = off[Len(ss)]
  /\ \A i \in 1..Len(ss) :
       /\ off[i] <= Len(flat)
       /\ \A q \in 1..Len(ss[i]) : flat[off[i - 1] + q] = ss[i][q]

\* FlattenSeq lays the pieces out one after the other, whole and without gaps.
LEMMA FlattenLayout ==
  ASSUME NEW S, NEW ss \in Seq(Seq(S))
  PROVE  FlattenSeq(ss) \in Seq(S) /\ \E off \in Offsets(ss) : Laid(FlattenSeq(ss), ss, off)
<1>1. CASE ss = << >>
  <2> DEFINE off == [i \in 0..0 |-> 0]
  <2>1. Len(ss) = 0 /\ 1..0 = {} /\ FlattenSeq(ss) = << >>
    BY <1>1, FlattenEmpty
  <2>2. off \in [0..0 -> Nat] /\ off[0] = 0
    OBVIOUS
  <2> HIDE DEF off
  <2>3. off \in Offsets(ss)
    BY <2>1, <2>2 DEF Offsets
  <2>4. Laid(FlattenSeq(ss), ss, off)
    BY <2>1, <2>2 DEF Laid
  <2> QED
    BY <2>1, <2>3, <2>4
<1>2. CASE ss # << >>
  <2>0. Len(ss) \in Nat \ {0} /\ \A i \in 1..Len(ss) : ss[i] \in Seq(S) /\ Len(ss[i]) \in Nat
    BY <1>2
  <2>1. PICK f \in [1..Len(ss) -> Seq(S)] :
           /\ f[1] = ss[1]
           /\ \A i \in 2..Len(ss) : f[i] = f[i - 1] \o ss[i]
           /\ FlattenSeq(ss) = f[Len(ss)]
    BY <1>2, FlattenUnfolds
  <2> DEFINE off == [i \in 0..Len(ss) |-> IF i = 0 THEN 0 ELSE Len(f[i])]
  <2>2. \A i \in 1..Len(ss) : f[i] \in Seq(S) /\ Len(f[i]) \in Nat
    <3> TAKE i \in 1..Len(ss)
    <3>1. f[i] \in Seq(S)
      BY <2>1
    <3> QED
      BY <3>1
  <2>3. off \in [0..Len(ss) -> Nat] /\ off[0] = 0 /\ \A i \in 1..Len(ss) : off[i] = Len(f[i])
    BY <2>0, <2>2
  <2> HIDE DEF off
  <2>4. ASSUME NEW i \in 1..Len(ss)
        PROVE  off[i] = off[i - 1] + Len(ss[i]) /\ \A q \in 1..Len(ss[i]) : f[i][off[i - 1] + q] = ss[i][q]
    <3>1. CASE i = 1
      <4>1. i - 1 = 0 /\ off[i - 1] = 0 /\ off[i] = Len(ss[i]) /\ f[i] = ss[i]
        BY <2>0, <2>1, <2>3, <3>1
      <4>2. Len(ss[i]) \in Nat
        BY <2>0
      <4> QED
        BY <4>1, <4>2
    <3>2. CASE i # 1
      <4>1. i \in 2..Len(ss) /\ i - 1 \in 1..Len(ss)
        BY <2>0, <3>2
      <4>2. f[i] = f[i - 1] \o ss[i] /\ off[i - 1] = Len(f[i - 1]) /\ off[i] = Len(f[i])
        BY <2>1, <2>3, <4>1
      <4>3. f[i - 1] \in Seq(S) /\ ss[i] \in Seq(S)
        BY <2>0, <2>2, <4>1
      <4>4. Len(f[i - 1] \o ss[i]) = Len(f[i - 1]) + Len(ss[i])
        BY <4>3, Concatenation DEF Concatenates
      <4>5. \A q \in 1..Len(ss[i]) : (f[i - 1] \o ss[i])[Len(f[i - 1]) + q] = ss[i][q]
        <5> DEFINE a == f[i - 1]
                   b == ss[i]
        <5>1. a \in Seq(S) /\ b \in Seq(S)
          BY <4>3
        <5> HIDE DEF a, b
        <5>2. \A q \in 1..Len(b) : (a \o b)[Len(a) + q] = b[q]
          BY <5>1, Concatenation DEF Concatenates
        <5> QED
          BY <5>2 DEF a, b
      <4> QED
        BY <4>2, <4>4, <4>5
    <3> QED
      BY <3>1, <3>2
  <2>5. off \in Offsets(ss)
    BY <2>3, <2>4 DEF Offsets
  <2> DEFINE T == {n \in 0..(Len(ss) - 1) :
                     /\ off[Len(ss) - n] <= off[Len(ss)]
                     /\ \A q \in 1..off[Len(ss) - n] : f[Len(ss)][q] = f[Len(ss) - n][q]}
  <2>6. 0 \in T
    BY <2>0, <2>2, <2>3
  <2>7. ASSUME NEW n \in 0..((Len(ss) - 1) - 1), n \in T PROVE n + 1 \in T
    <3> DEFINE i == Len(ss) - n
    <3>1. n + 1 \in 0..(Len(ss) - 1) /\ i \in 2..Len(ss) /\ i - 1 \in 1..Len(ss) /\ Len(ss) - (n + 1) = i - 1 /\ i \in 1..Len(ss)
      BY <2>0
    <3>2. off[i] <= off[Len(ss)] /\ \A q \in 1..off[i] : f[Len(ss)][q] = f[i][q]
      BY <2>7
    <3> HIDE DEF i, T
    <3>3. f[i] = f[i - 1] \o ss[i] /\ off[i - 1] = Len(f[i - 1]) /\ off[i] = off[i - 1] + Len(ss[i])
      BY <2>1, <2>3, <2>4, <3>1
    <3>4. f[i - 1] \in Seq(S) /\ ss[i] \in Seq(S) /\ Len(ss[i]) \in Nat /\ Len(f[i - 1]) \in Nat /\ Len(f[Len(ss)]) \in Nat /\ off[Len(ss)] = Len(f[Len(ss)])
      BY <2>0, <2>2, <2>3, <3>1
    <3>5. \A q \in 1..Len(f[i - 1]) : (f[i - 1] \o ss[i])[q] = f[i - 1][q]
      BY <3>4, Concatenation DEF Concatenates
    <3>b. off[i - 1] \in Nat /\ off[i] \in Nat /\ off[Len(ss)] \in Nat
      BY <2>0, <2>3, <3>1
    <3>a. off[i - 1] <= off[i]
      <4>1. off[i] = off[i - 1] + Len(ss[i]) /\ Len(ss[i]) \in Nat
        BY <3>3, <3>4
      <4> DEFINE x == off[i - 1]
                 y == off[i]
                 z == Len(ss[i])
      <4>2. x \in Nat /\ y \in Nat /\ z \in Nat /\ y = x + z
        BY <4>1, <3>b
      <4> HIDE DEF x, y, z
      <4>3. x <= y
        BY <4>2
      <4> QED
        BY <4>3 DEF x, y
    <3>6. off[i - 1] <= off[Len(ss)] /\ \A q \in 1..off[i - 1] : q \in 1..off[i]
      BY <3>2, <3>a, <3>b
    <3>7. \A q \in 1..off[i - 1] : f[Len(ss)][q] = f[i - 1][q]
      BY <3>2, <3>3, <3>5, <3>6
    <3> QED
      BY <3>1, <3>6, <3>7 DEF T
  <2> HIDE DEF T
  <2>8. Len(ss) - 1 \in Nat
    BY <2>0
  <2>9. 0..(Len(ss) - 1) \subseteq T
    BY <2>6, <2>7, <2>8, InductionUpTo
  <2>10. ASSUME NEW i \in 1..Len(ss)
         PROVE off[i] <= off[Len(ss)] /\ \A q \in 1..off[i] : f[Len(ss)][q] = f[i][q]
    <3>1. Len(ss) - i \in 0..(Len(ss) - 1) /\ Len(ss) - (Len(ss) - i) = i
      BY <2>0
    <3> QED
      BY <2>9, <3>1 DEF T
  <2>11. ASSUME NEW i \in 1..Len(ss), NEW q \in 1..Len(ss[i])
         PROVE f[Len(ss)][off[i - 1] + q] = ss[i][q]
    <3>1. i - 1 \in 0..Len(ss) /\ off[i - 1] \in Nat /\ Len(ss[i]) \in Nat
      BY <2>0, <2>3
    <3>2. off[i - 1] + q \in 1..off[i]
      BY <2>4, <3>1
    <3> QED
      BY <2>4, <2>10, <3>2
  <2>12. Len(FlattenSeq(ss)) = off[Len(ss)] /\ FlattenSeq(ss) \in Seq(S)
    BY <2>0, <2>1, <2>2, <2>3
  <2>13. Laid(FlattenSeq(ss), ss, off)
    BY <2>1, <2>10, <2>11, <2>12 DEF Laid
  <2> QED
    BY <2>5, <2>12, <2>13
<1> QED
  BY <1>1, <1>2

\* The pieces ss stand in flat, and each of them is w long.
LaidEvery(w, flat, ss) ==
  /\ Len(flat) = w * Len(ss)
  /\ \A i \in 1..Len(ss), q \in 1..w : flat[w * (i - 1) + q] = ss[i][q]

\* Pieces of the same length begin at its multiples.
LEMMA FlattenUniform ==
  ASSUME NEW S, NEW w \in Nat, NEW ss \in Seq(Seq(S)), \A i \in 1..Len(ss) : Len(ss[i]) = w
  PROVE  FlattenSeq(ss) \in Seq(S) /\ LaidEvery(w, FlattenSeq(ss), ss)
<1>1. FlattenSeq(ss) \in Seq(S) /\ Len(ss) \in Nat
  BY FlattenLayout
<1>2. PICK off \in Offsets(ss) : Laid(FlattenSeq(ss), ss, off)
  BY FlattenLayout
<1> DEFINE T == {n \in 0..Len(ss) : off[n] = w * n}
<1>3. 0 \in T
  BY <1>1, <1>2 DEF Offsets
<1>4. ASSUME NEW n \in 0..(Len(ss) - 1), n \in T PROVE n + 1 \in T
  <2>1. n + 1 \in 1..Len(ss) /\ (n + 1) - 1 = n /\ n + 1 \in 0..Len(ss)
    BY <1>1
  <2>2. off[n + 1] = off[n] + w
    BY <1>2, <2>1 DEF Offsets
  <2>3. w * (n + 1) = w * n + w
    OBVIOUS
  <2> QED
    BY <1>4, <2>1, <2>2, <2>3
<1> HIDE DEF T
<1>5. 0..Len(ss) \subseteq T
  BY <1>1, <1>3, <1>4, InductionUpTo
<1>6. \A n \in 0..Len(ss) : off[n] = w * n
  BY <1>5 DEF T
<1>7. Len(ss) \in 0..Len(ss) /\ \A i \in 1..Len(ss) : i - 1 \in 0..Len(ss)
  BY <1>1
<1> QED
  BY <1>1, <1>2, <1>6, <1>7 DEF Laid, LaidEvery

----------------------------------------------------------------------------
(* FoldSet *)

\* The element that FoldSet takes next.
Pick(s) == CHOOSE x \in s : TRUE

\* The folds of step over the subsets of K.
Folds(K, V, base, step) ==
  {g \in [SUBSET K -> V] :
     /\ g[{}] = base
     /\ \A s \in SUBSET K : s # {} => g[s] = step[Pick(s)][g[s \ {Pick(s)}]]}

\* The folds of step over the subsets of K that take next the element that pick says.
PickingFolds(K, V, base, step, pick) ==
  {g \in [SUBSET K -> V] :
     /\ g[{}] = base
     /\ \A s \in SUBSET K : s # {} => g[s] = step[pick[s]][g[s \ {pick[s]}]]}

\* The subsets of a finite set, and what is left when an element is picked from one.
LEMMA Subsets ==
  ASSUME NEW K, IsFiniteSet(K)
  PROVE  /\ Cardinality(K) \in Nat
         /\ \A s \in SUBSET K :
              /\ Cardinality(s) \in Nat /\ Cardinality(s) <= Cardinality(K)
              /\ Cardinality(s) = 0 <=> s = {}
              /\ s # {} => Pick(s) \in s /\ Cardinality(s \ {Pick(s)}) = Cardinality(s) - 1
              /\ \A x \in s : Cardinality(s \ {x}) = Cardinality(s) - 1
<1>1. \A s \in SUBSET K : IsFiniteSet(s) /\ Cardinality(s) <= Cardinality(K)
  BY FS_Subset
<1>2. \A s \in SUBSET K : Cardinality(s) \in Nat /\ Cardinality(s) = 0 <=> s = {}
  BY <1>1, FS_CardinalityType, FS_EmptySet
<1>3. \A s \in SUBSET K : s # {} => Pick(s) \in s
  BY DEF Pick
<1>4. \A s \in SUBSET K : s # {} => Cardinality(s \ {Pick(s)}) = Cardinality(s) - 1
  BY <1>1, <1>3, FS_RemoveElement
<1>5. \A s \in SUBSET K : \A x \in s : Cardinality(s \ {x}) = Cardinality(s) - 1
  BY <1>1, FS_RemoveElement
<1> QED
  BY <1>1, <1>2, <1>3, <1>4, <1>5, FS_CardinalityType

\* There is a function on the subsets of a finite set that a fold computes by picking
\* one element after the other.
LEMMA PickingFoldExists ==
  ASSUME NEW K, IsFiniteSet(K), NEW V, NEW base \in V, NEW step \in [K -> [V -> V]],
         NEW pick, \A s \in SUBSET K : s # {} => pick[s] \in s
  PROVE  PickingFolds(K, V, base, step, pick) # {}
<1> DEFINE Small(n) == {s \in SUBSET K : Cardinality(s) <= n}
           Partial(n) ==
             {g \in [Small(n) -> V] :
                /\ g[{}] = base
                /\ \A s \in Small(n) : s # {} => g[s] = step[pick[s]][g[s \ {pick[s]}]]}
           T == {n \in 0..Cardinality(K) : Partial(n) # {}}
<1>0. Cardinality(K) \in Nat /\ {} \in SUBSET K /\ Cardinality({}) = 0
  BY Subsets
<1>1. 0 \in T
  <2> DEFINE g == [s \in Small(0) |-> base]
  <2>1. ASSUME NEW s \in Small(0) PROVE s = {}
    <3>1. s \in SUBSET K /\ Cardinality(s) <= 0
      OBVIOUS
    <3>2. Cardinality(s) \in Nat /\ (Cardinality(s) = 0 => s = {})
      BY <3>1, Subsets
    <3> QED
      BY <3>1, <3>2
  <2>2. {} \in Small(0)
    BY <1>0
  <2>3. g \in [Small(0) -> V] /\ g[{}] = base
    BY <2>2
  <2> HIDE DEF g, Small
  <2>4. g \in Partial(0)
    BY <2>1, <2>3
  <2> HIDE DEF Partial
  <2>5. Partial(0) # {}
    BY <2>4
  <2>6. 0 \in 0..Cardinality(K)
    BY <1>0
  <2> QED
    BY <2>5, <2>6
<1>2. ASSUME NEW n \in 0..(Cardinality(K) - 1), n \in T PROVE n + 1 \in T
  <2>1. PICK f \in Partial(n) : TRUE
    BY <1>2
  <2> DEFINE g == [s \in Small(n + 1) |->
                     IF s \in Small(n) THEN f[s] ELSE step[pick[s]][f[s \ {pick[s]}]]]
  <2>2. n \in Nat /\ n + 1 \in 0..Cardinality(K)
    BY <1>0
  <2>3. ASSUME NEW s \in Small(n + 1), s # {}
        PROVE  pick[s] \in K /\ s \ {pick[s]} \in Small(n) /\ s \ {pick[s]} \in Small(n + 1)
    <3>1. pick[s] \in s /\ Cardinality(s \ {pick[s]}) = Cardinality(s) - 1 /\ Cardinality(s) \in Nat
      BY <2>3, Subsets
    <3> QED
      BY <2>2, <3>1
  <2>4. {} \in Small(n) /\ {} \in Small(n + 1)
    BY <1>0, <2>2
  <2>5. f \in [Small(n) -> V] /\ f[{}] = base
        /\ \A s \in Small(n) : s # {} => f[s] = step[pick[s]][f[s \ {pick[s]}]]
    BY <2>1
  <2> HIDE DEF Small
  <2>6. \A s \in Small(n + 1) : g[s] = IF s \in Small(n) THEN f[s] ELSE step[pick[s]][f[s \ {pick[s]}]]
    OBVIOUS
  <2>7. \A s \in Small(n + 1) : (IF s \in Small(n) THEN f[s] ELSE step[pick[s]][f[s \ {pick[s]}]]) \in V
    <3> TAKE s \in Small(n + 1)
    <3>1. CASE s \in Small(n)
      BY <3>1, <2>5
    <3>2. CASE s \notin Small(n)
      <4>1. s # {}
        BY <2>4, <3>2
      <4>2. pick[s] \in K /\ f[s \ {pick[s]}] \in V
        BY <2>3, <2>5, <4>1
      <4> DEFINE x == pick[s]
                 y == f[s \ {pick[s]}]
      <4>a. x \in K /\ y \in V
        BY <4>2
      <4> HIDE DEF x, y
      <4>b. step[x] \in [V -> V]
        BY <4>a
      <4>c. step[x][y] \in V
        BY <4>a, <4>b
      <4>3. step[pick[s]][f[s \ {pick[s]}]] \in V
        BY <4>c DEF x, y
      <4> QED
        BY <3>2, <4>3
    <3> QED
      BY <3>1, <3>2
  <2>8. g \in [Small(n + 1) -> V]
    BY <2>7
  <2> HIDE DEF g
  <2>9. g[{}] = base
    BY <2>4, <2>5, <2>6
  <2>10. ASSUME NEW s \in Small(n + 1), s # {}
         PROVE  g[s] = step[pick[s]][g[s \ {pick[s]}]]
    BY <2>3, <2>5, <2>6, <2>10
  <2>11. g \in Partial(n + 1)
    BY <2>8, <2>9, <2>10
  <2> QED
    BY <2>2, <2>11
<1> HIDE DEF T, Partial, Small
<1>3. 0..Cardinality(K) \subseteq T
  BY <1>0, <1>1, <1>2, InductionUpTo
<1>4. Cardinality(K) \in 0..Cardinality(K)
  BY <1>0
<1>5. PICK g \in Partial(Cardinality(K)) : TRUE
  BY <1>3, <1>4 DEF T
<1>6. Small(Cardinality(K)) = SUBSET K
  BY Subsets DEF Small
<1>7. g \in PickingFolds(K, V, base, step, pick)
  BY <1>5, <1>6 DEF PickingFolds, Partial
<1> QED
  BY <1>7

\* So there is for the picking of FoldSet.
LEMMA FoldExists ==
  ASSUME NEW K, IsFiniteSet(K), NEW V, NEW base \in V, NEW step \in [K -> [V -> V]]
  PROVE  Folds(K, V, base, step) # {}
<1> DEFINE pick == [s \in SUBSET K |-> Pick(s)]
<1>1. \A s \in SUBSET K : s # {} => pick[s] \in s
  BY Subsets
<1>2. \A s \in SUBSET K : pick[s] = Pick(s)
  OBVIOUS
<1> HIDE DEF pick
<1>3. PICK g \in PickingFolds(K, V, base, step, pick) : TRUE
  BY <1>1, PickingFoldExists
<1>4. g \in Folds(K, V, base, step)
  BY <1>2, <1>3 DEF Folds, PickingFolds
<1> QED
  BY <1>4

\* Elements 1 to k taken from the last one, as FoldLeft does: the functions that compute
\* the fold of every set of them.
LeftFolds(k, V, base, step) ==
  {g \in [SUBSET (1..k) -> V] :
     /\ g[{}] = base
     /\ \A s \in SUBSET (1..k) : s # {} => g[s] = step[Max(s)][g[s \ {Max(s)}]]}

LEMMA LeftFoldExists ==
  ASSUME NEW k \in Nat, NEW V, NEW base \in V, NEW step \in [1..k -> [V -> V]]
  PROVE  LeftFolds(k, V, base, step) # {}
<1> DEFINE K == 1..k
           pick == [s \in SUBSET K |-> Max(s)]
<1>1. \A s \in SUBSET K : s # {} => pick[s] \in s
  BY MaxUpTo
<1>2. \A s \in SUBSET K : pick[s] = Max(s)
  OBVIOUS
<1>3. IsFiniteSet(K) /\ step \in [K -> [V -> V]]
  BY FS_Interval
<1> HIDE DEF pick, K
<1>4. PICK g \in PickingFolds(K, V, base, step, pick) : TRUE
  BY <1>1, <1>3, PickingFoldExists
<1>5. g \in LeftFolds(k, V, base, step)
  BY <1>2, <1>4 DEF K, LeftFolds, PickingFolds
<1> QED
  BY <1>5

\* The last of the elements 1 to n + 1 is n + 1, and without it 1 to n are left.
LEMMA LastOfMany ==
  ASSUME NEW n \in Nat
  PROVE  Max(1..(n + 1)) = n + 1 /\ (1..(n + 1)) \ {n + 1} = 1..n
<1>1. 1..(n + 1) # {} /\ n + 1 \in 1..(n + 1)
  OBVIOUS
<1> DEFINE S == 1..(n + 1)
<1>2. n + 1 \in Nat /\ S \in SUBSET (1..(n + 1)) /\ S # {}
  BY <1>1
<1> HIDE DEF S
<1>3. Max(S) \in S /\ \A y \in S : y <= Max(S)
  BY <1>2, MaxUpTo
<1> QED
  BY <1>1, <1>3 DEF S

\* Such a fold of 1 to k is computed by going through them from 1 to k.
LEMMA LeftFoldRuns ==
  ASSUME NEW k \in Nat, NEW V, NEW base \in V, NEW step \in [1..k -> [V -> V]],
         NEW tab, tab[{}] = base,
         \A s \in SUBSET (1..k) : s # {} /\ tab[s \ {Max(s)}] \in V =>
           tab[s] = step[Max(s)][tab[s \ {Max(s)}]]
  PROVE  [n \in 0..k |-> tab[1..n]] \in Recursively(k, V, base, step)
<1>1. ASSUME NEW n \in 0..(k - 1), tab[1..n] \in V
      PROVE  tab[1..(n + 1)] = step[n + 1][tab[1..n]] /\ tab[1..(n + 1)] \in V
  <2>1. n \in Nat /\ n + 1 \in 1..k
    OBVIOUS
  <2>2. Max(1..(n + 1)) = n + 1 /\ (1..(n + 1)) \ {n + 1} = 1..n
    BY <2>1, LastOfMany
  <2> DEFINE s == 1..(n + 1)
  <2>3. n + 1 \in s /\ s \in SUBSET (1..k)
    BY <2>1
  <2> HIDE DEF s
  <2>4. Max(s) = n + 1 /\ s \ {n + 1} = 1..n
    BY <2>2 DEF s
  <2>5. s # {} /\ s \ {Max(s)} = 1..n
    BY <2>3, <2>4
  <2>6. tab[s] = step[n + 1][tab[1..n]]
    BY <1>1, <2>3, <2>4, <2>5
  <2> DEFINE x == n + 1
             y == tab[1..n]
  <2>7. x \in 1..k /\ y \in V
    BY <1>1, <2>1
  <2> HIDE DEF x, y
  <2>8. step[x] \in [V -> V]
    BY <2>7
  <2>9. step[x][y] \in V
    BY <2>7, <2>8
  <2> QED
    BY <2>6, <2>9 DEF s, x, y
<1>2. tab[1..0] = base
  <2>1. 1..0 = {}
    OBVIOUS
  <2> QED
    BY <2>1
<1> DEFINE T == {n \in 0..k : tab[1..n] \in V}
<1>3. 0 \in T
  BY <1>2
<1>4. ASSUME NEW n \in 0..(k - 1), n \in T PROVE n + 1 \in T
  <2>1. n + 1 \in 0..k
    OBVIOUS
  <2> QED
    BY <1>1, <1>4, <2>1
<1> HIDE DEF T
<1>5. 0..k \subseteq T
  BY <1>3, <1>4, InductionUpTo
<1> DEFINE f == [n \in 0..k |-> tab[1..n]]
<1>6. f \in [0..k -> V] /\ \A n \in 0..k : f[n] = tab[1..n] /\ tab[1..n] \in V
  BY <1>5 DEF T
<1> HIDE DEF f
<1>7. f[0] = base
  BY <1>2, <1>6
<1>8. ASSUME NEW n \in 1..k PROVE f[n] = step[n][f[n - 1]]
  <2>1. n - 1 \in 0..(k - 1) /\ n - 1 \in 0..k /\ n \in 0..k /\ (n - 1) + 1 = n
    OBVIOUS
  <2>2. tab[1..(n - 1)] \in V
    BY <1>6, <2>1
  <2>3. tab[1..((n - 1) + 1)] = step[(n - 1) + 1][tab[1..(n - 1)]]
    BY <1>1, <2>1, <2>2
  <2> QED
    BY <1>6, <2>1, <2>3
<1>9. f \in Recursively(k, V, base, step)
  BY <1>6, <1>7, <1>8 DEF Recursively
<1> QED
  BY <1>9 DEF f
=============================================================================
