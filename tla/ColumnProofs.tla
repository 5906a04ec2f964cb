---------------------------- MODULE ColumnProofs ----------------------------
(***************************************************************************)
(* Theorems about columns: main (IntegerConvertor) recovers the rows of    *)
(* every batch and never lengthens one, and an object of AthCompressor     *)
(* that is asked again answers the same, for every size of bytes, integers *)
(* and batches, and all data.                                              *)
(***************************************************************************)
EXTENDS IntegerConvertor, CompressorObject, AthCallsProofs, FunctionTheorems

----------------------------------------------------------------------------
(* The extremes of the data.                                               *)

LEMMA Extremes ==
  ASSUME NEW s \in Seq(Int), s # << >>
  PROVE  /\ \E i \in 1..Len(s) : \A k \in 1..Len(s) : s[i] <= s[k]
         /\ \E i \in 1..Len(s) : \A k \in 1..Len(s) : s[i] >= s[k]
<1>1. Len(s) \in Nat \ {0} /\ \A k \in 1..Len(s) : s[k] \in Int
  OBVIOUS
<1> DEFINE n == Len(s)
           T == {m \in 0..n : m > 0 =>
                   /\ \E i \in 1..m : \A k \in 1..m : s[i] <= s[k]
                   /\ \E i \in 1..m : \A k \in 1..m : s[i] >= s[k]}
<1>2. 0 \in T
  BY <1>1
<1>3. ASSUME NEW m \in 0..(n - 1), m \in T PROVE m + 1 \in T
  <2>1. m + 1 \in 0..n /\ m + 1 \in 1..n /\ \A k \in 1..(m + 1) : k \in 1..m \/ k = m + 1
    BY <1>1
  <2>2. \A k \in 1..m : k \in 1..(m + 1) /\ k \in 1..n
    BY <1>1
  <2>3. \E i \in 1..(m + 1) : \A k \in 1..(m + 1) : s[i] <= s[k]
    <3>1. CASE m = 0
      BY <1>1, <2>1, <3>1
    <3>2. CASE m > 0
      <4>1. PICK i \in 1..m : \A k \in 1..m : s[i] <= s[k]
        BY <1>3, <3>2
      <4>2. CASE s[i] <= s[m + 1]
        BY <2>1, <2>2, <4>1, <4>2
      <4>3. CASE s[m + 1] < s[i]
        <5>1. \A k \in 1..(m + 1) : s[m + 1] <= s[k]
          BY <1>1, <2>1, <2>2, <4>1, <4>3
        <5> QED
          BY <2>1, <5>1
      <4>4. s[i] \in Int /\ s[m + 1] \in Int
        BY <1>1, <2>1, <2>2
      <4>5. \A a \in Int : \A b \in Int : a <= b \/ b < a
        OBVIOUS
      <4>6. s[i] <= s[m + 1] \/ s[m + 1] < s[i]
        BY <4>4, <4>5
      <4> QED
        BY <4>2, <4>3, <4>6
    <3> QED
      BY <3>1, <3>2
  <2>4. \E i \in 1..(m + 1) : \A k \in 1..(m + 1) : s[i] >= s[k]
    <3>1. CASE m = 0
      BY <1>1, <2>1, <3>1
    <3>2. CASE m > 0
      <4>1. PICK i \in 1..m : \A k \in 1..m : s[i] >= s[k]
        BY <1>3, <3>2
      <4>2. CASE s[i] >= s[m + 1]
        BY <2>1, <2>2, <4>1, <4>2
      <4>3. CASE s[m + 1] > s[i]
        <5>1. \A k \in 1..(m + 1) : s[m + 1] >= s[k]
          BY <1>1, <2>1, <2>2, <4>1, <4>3
        <5> QED
          BY <2>1, <5>1
      <4>4. s[i] \in Int /\ s[m + 1] \in Int
        BY <1>1, <2>1, <2>2
      <4>5. \A a \in Int : \A b \in Int : a >= b \/ b > a
        OBVIOUS
      <4>6. s[i] >= s[m + 1] \/ s[m + 1] > s[i]
        BY <4>4, <4>5
      <4> QED
        BY <4>2, <4>3, <4>6
    <3> QED
      BY <3>1, <3>2
  <2> QED
    BY <2>1, <2>3, <2>4
<1> HIDE DEF T
<1>4. 0..n \subseteq T
  BY <1>1, <1>2, <1>3, InductionUpTo
<1>5. n \in T
  BY <1>1, <1>4
<1> QED
  BY <1>1, <1>5 DEF T

\* Min and Max of the elements of a sequence are elements, and bounds, of it.
LEMMA MinOfData ==
  ASSUME NEW s \in Seq(Int), s # << >>
  PROVE  /\ Min(ToSet(s)) \in Int
         /\ \E i \in 1..Len(s) : Min(ToSet(s)) = s[i]
         /\ \A i \in 1..Len(s) : Min(ToSet(s)) <= s[i]
<1>1. DOMAIN s = 1..Len(s) /\ \A k \in 1..Len(s) : s[k] \in Int
  OBVIOUS
<1>2. ToSet(s) = {s[i] : i \in 1..Len(s)}
  BY <1>1 DEF ToSet
<1>3. \E x \in ToSet(s) : \A y \in ToSet(s) : x <= y
  BY <1>2, Extremes
<1>4. Min(ToSet(s)) \in ToSet(s) /\ \A y \in ToSet(s) : Min(ToSet(s)) <= y
  BY <1>3 DEF Min
<1> QED
  BY <1>1, <1>2, <1>4

LEMMA MaxOfData ==
  ASSUME NEW s \in Seq(Int), s # << >>
  PROVE  /\ Max(ToSet(s)) \in Int
         /\ \E i \in 1..Len(s) : Max(ToSet(s)) = s[i]
         /\ \A i \in 1..Len(s) : Max(ToSet(s)) >= s[i]
<1>1. DOMAIN s = 1..Len(s) /\ \A k \in 1..Len(s) : s[k] \in Int
  OBVIOUS
<1>2. ToSet(s) = {s[i] : i \in 1..Len(s)}
  BY <1>1 DEF ToSet
<1>3. \E x \in ToSet(s) : \A y \in ToSet(s) : x >= y
  BY <1>2, Extremes
<1>4. Max(ToSet(s)) \in ToSet(s) /\ \A y \in ToSet(s) : Max(ToSet(s)) >= y
  BY <1>3 DEF Max
<1> QED
  BY <1>1, <1>2, <1>4

----------------------------------------------------------------------------
(* Powers, and the bytes of an integer.                                    *)

Bits == ByteBits * DatumLength(IntBits)

LEMMA Widths ==
  /\ ByteBits \in Nat \ {0} /\ IntBits \in 2..64 /\ Base = 2^ByteBits
  /\ \A d \in 1..IntBits : /\ DatumLength(d) \in 1..DatumLength(IntBits)
                           /\ d <= ByteBits * DatumLength(d)
  /\ DatumLength(IntBits) \in Nat \ {0}
  /\ Bits \in Nat \ {0} /\ IntBits <= Bits
<1>1. ByteBits \in Nat \ {0} /\ IntBits \in 2..64 /\ Base = 2^ByteBits
  BY WidthsAssumption
<1>2. ASSUME NEW d \in Nat \ {0}
      PROVE  /\ DatumLength(d) \in Nat \ {0}
             /\ d <= ByteBits * DatumLength(d) /\ ByteBits * DatumLength(d) < d + ByteBits
  <2> DEFINE q == d \div ByteBits
             r == d % ByteBits
  <2>1. q \in Nat /\ r \in 0..(ByteBits - 1) /\ d = ByteBits * q + r
    BY <1>1, DivModNat
  <2>2. DatumLength(d) = q + (IF r = 0 THEN 0 ELSE 1)
    BY DEF DatumLength
  <2> HIDE DEF q, r
  <2>3. CASE r = 0
    BY <1>1, <2>1, <2>2, <2>3
  <2>4. CASE r # 0
    <3>1. DatumLength(d) = q + 1 /\ ByteBits * (q + 1) = ByteBits * q + ByteBits
      BY <1>1, <2>1, <2>2, <2>4
    <3> QED
      BY <1>1, <2>1, <2>4, <3>1
  <2> QED
    BY <2>3, <2>4
<1>3. ASSUME NEW d \in 1..IntBits PROVE DatumLength(d) <= DatumLength(IntBits)
  <2> DEFINE a == DatumLength(d)
             b == DatumLength(IntBits)
  <2>1. /\ a \in Nat /\ b \in Nat /\ d \in Nat /\ ByteBits * a < d + ByteBits
        /\ IntBits <= ByteBits * b
    BY <1>1, <1>2
  <2> HIDE DEF a, b
  <2> SUFFICES ASSUME b + 1 <= a PROVE FALSE
    BY <2>1 DEF a, b
  <2>2. ByteBits * (b + 1) <= ByteBits * a
    BY <1>1, <2>1
  <2>3. ByteBits * (b + 1) = ByteBits * b + ByteBits
    BY <1>1, <2>1
  <2> QED
    BY <1>1, <2>1, <2>2, <2>3
<1>4. DatumLength(IntBits) \in Nat \ {0} /\ IntBits <= Bits
  BY <1>1, <1>2 DEF Bits
<1>5. Bits \in Nat \ {0}
  BY <1>1, <1>4 DEF Bits
<1>6. \A d \in 1..IntBits : d \in Nat \ {0}
  BY <1>1
<1> QED
  BY <1>1, <1>2, <1>3, <1>4, <1>5, <1>6

LEMMA PowersOfTwo ==
  /\ 2^0 = 1 /\ \A n \in 0..Bits : 2^n \in Nat \ {0}
  /\ \A n \in 1..Bits : 2^n = 2 * 2^(n - 1)
<1>1. Powers(Bits)
  BY PowersAssumption DEF Powers, Bits
<1>2. Bits \in Nat
  BY Widths
<1>3. \A n \in 0..Bits : 2^n \in Nat \ {0}
  BY <1>1, <1>2, PowersNatural
<1> QED
  BY <1>1, <1>3 DEF Powers

LEMMA PowerOfSum ==
  ASSUME NEW a \in Nat, NEW b \in Nat, a + b <= Bits
  PROVE  2^(a + b) = 2^a * 2^b
<1> DEFINE T == {n \in 0..b : 2^(a + n) = 2^a * 2^n}
<1>0. /\ Bits \in Nat /\ a \in 0..Bits /\ a + 0 = a
      /\ \A n \in 0..b : n \in 0..Bits /\ a + n \in 0..Bits
  BY Widths
<1>1. 0 \in T
  <2>1. 2^a \in Nat /\ 2^0 = 1
    BY <1>0, PowersOfTwo
  <2> DEFINE p == 2^a
  <2>2. p = p * 1
    BY <2>1
  <2> QED
    BY <1>0, <2>1, <2>2
<1>2. ASSUME NEW n \in 0..(b - 1), n \in T PROVE n + 1 \in T
  <2>1. /\ n \in 0..b /\ n + 1 \in 0..b /\ n + 1 \in 1..Bits /\ a + (n + 1) \in 1..Bits
        /\ (n + 1) - 1 = n /\ (a + (n + 1)) - 1 = a + n
    BY <1>0
  <2>2. 2^(a + (n + 1)) = 2 * 2^(a + n) /\ 2^(n + 1) = 2 * 2^n
    BY <2>1, PowersOfTwo
  <2>3. 2^(a + n) = 2^a * 2^n
    BY <1>2
  <2>4. 2^a \in Nat /\ 2^n \in Nat
    BY <1>0, <2>1, PowersOfTwo
  <2>5. \A p \in Nat : \A q \in Nat : 2 * (p * q) = p * (2 * q)
    OBVIOUS
  <2>6. 2^(a + (n + 1)) = 2^a * 2^(n + 1)
    BY <2>2, <2>3, <2>4, <2>5
  <2> QED
    BY <2>1, <2>6
<1> HIDE DEF T
<1>3. 0..b \subseteq T
  BY <1>1, <1>2, InductionUpTo
<1>4. b \in T
  BY <1>3
<1> QED
  BY <1>4 DEF T

\* A power of the values of a byte is one of two.
LEMMA PowersOfBase ==
  /\ Base^0 = 1
  /\ \A n \in 1..DatumLength(IntBits) : Base^n = Base * Base^(n - 1)
  /\ \A n \in 0..DatumLength(IntBits) :
       ByteBits * n \in 0..Bits /\ Base^n = 2^(ByteBits * n) /\ Base^n \in Nat \ {0}
<1> DEFINE L == DatumLength(IntBits)
           T == {n \in 0..L : ByteBits * n \in 0..Bits /\ Base^n = 2^(ByteBits * n)}
<1>1. Base^0 = 1 /\ \A n \in 1..L : Base^n = Base * Base^(n - 1)
  BY PowersAssumption
<1>2. ByteBits \in Nat \ {0} /\ L \in Nat \ {0} /\ Bits \in Nat /\ Bits = ByteBits * L /\ Base = 2^ByteBits
  BY Widths DEF Bits
<1> HIDE DEF L
<1>3. 0 \in T
  <2>1. ByteBits * 0 = 0 /\ 0 \in 0..L /\ 0 \in 0..Bits
    BY <1>2
  <2>2. Base^0 = 2^(ByteBits * 0)
    BY <1>1, <2>1, PowersOfTwo
  <2> QED
    BY <2>1, <2>2
<1>4. ASSUME NEW n \in 0..(L - 1), n \in T PROVE n + 1 \in T
  <2>1. n + 1 \in 0..L /\ n + 1 \in 1..L /\ (n + 1) - 1 = n /\ n \in Nat
    BY <1>2
  <2>2. ByteBits * n \in 0..Bits /\ Base^n = 2^(ByteBits * n)
    BY <1>4
  <2>3. ByteBits * (n + 1) = ByteBits + ByteBits * n
    BY <1>2, <2>1
  <2>4. ByteBits * (n + 1) \in 0..Bits
    <3>1. ByteBits * (n + 1) <= ByteBits * L
      BY <1>2, <2>1
    <3> QED
      BY <1>2, <2>1, <2>2, <2>3, <3>1
  <2>5. 2^(ByteBits + ByteBits * n) = 2^ByteBits * 2^(ByteBits * n)
    BY <1>2, <2>2, <2>3, <2>4, PowerOfSum
  <2>6. Base^(n + 1) = 2^(ByteBits * (n + 1))
    BY <1>1, <1>2, <2>1, <2>2, <2>3, <2>5
  <2> QED
    BY <2>1, <2>4, <2>6
<1> HIDE DEF T
<1>5. 0..L \subseteq T
  BY <1>2, <1>3, <1>4, InductionUpTo
<1>6. \A n \in 0..L : ByteBits * n \in 0..Bits /\ Base^n = 2^(ByteBits * n)
  BY <1>5 DEF T
<1>7. \A n \in 0..L : Base^n \in Nat \ {0}
  BY <1>6, PowersOfTwo
<1> QED
  BY <1>1, <1>6, <1>7 DEF L

LEMMA PowersGrow ==
  ASSUME NEW a \in Nat, NEW b \in Nat, a <= b, b <= Bits
  PROVE  2^a <= 2^b
<1>1. b - a \in Nat /\ a + (b - a) = b /\ a \in 0..Bits /\ b - a \in 0..Bits
  BY Widths
<1>2. 2^b = 2^a * 2^(b - a)
  BY <1>1, PowerOfSum
<1>3. 2^a \in Nat \ {0} /\ 2^(b - a) \in Nat \ {0}
  BY <1>1, PowersOfTwo
<1>4. \A p \in Nat \ {0} : \A q \in Nat \ {0} : p <= p * q
  OBVIOUS
<1> QED
  BY <1>2, <1>3, <1>4

\* The remainder of a product has the remainder of one factor, and the digit above it.
LEMMA NextDigit ==
  ASSUME NEW x \in Nat, NEW m \in Nat \ {0}, NEW b \in Nat \ {0}
  PROVE  x % (b * m) = (x % m) + ((x \div m) % b) * m
<1> DEFINE q == x \div m
           r == x % m
           h == q \div b
           c == q % b
<1>1. q \in Nat /\ r \in 0..(m - 1) /\ x = m * q + r
  BY DivModNat
<1>2. h \in Nat /\ c \in 0..(b - 1) /\ q = b * h + c
  BY <1>1, DivModNat
<1> HIDE DEF q, r, h, c
<1> DEFINE low == r + c * m
           n == b * m
<1>3. low \in Nat /\ n \in Nat \ {0} /\ low < n
  <2>1. c * m <= (b - 1) * m
    BY <1>2, MulMono
  <2>2. (b - 1) * m = b * m - m
    OBVIOUS
  <2>3. c * m \in Nat /\ b * m \in Nat \ {0}
    BY <1>2
  <2> QED
    BY <1>1, <2>1, <2>2, <2>3
<1>4. x = n * h + low
  <2>1. m * (b * h + c) = (b * m) * h + c * m
    BY <1>2
  <2> QED
    BY <1>1, <1>2, <2>1
<1> HIDE DEF low, n
<1>5. x \div n = h
  BY <1>2, <1>3, <1>4, QuotientUnique
<1>6. x = n * (x \div n) + (x % n) /\ x % n \in 0..(n - 1)
  BY <1>3, DivModNat
<1>7. x % n = low
  <2>1. n * h \in Nat
    BY <1>2, <1>3
  <2>2. x = n * h + (x % n)
    BY <1>5, <1>6, Zenon
  <2>4. x % n \in Nat
    <3>1. \A y : y \in 0..(n - 1) => y \in Nat
      BY <1>3
    <3> QED
      BY <1>6, <3>1
  <2>3. \A p \in Nat : \A y \in Nat : \A z \in Nat : p + y = p + z => y = z
    OBVIOUS
  <2> QED
    BY <1>3, <1>4, <2>1, <2>2, <2>3, <2>4, Zenon
<1> QED
  BY <1>7 DEF low, n, q, r, c

----------------------------------------------------------------------------
(* The differences from the smallest of the data, and their width.         *)

Half == 2^(IntBits - 1)
Integers64 == (-Half)..(Half - 1)   \* what the signed integers hold

LEMMA Halves ==
  Half \in Nat \ {0} /\ 2^IntBits = 2 * Half /\ 2^IntBits \in Nat \ {0}
<1>1. IntBits \in 1..Bits /\ IntBits - 1 \in 0..Bits
  BY Widths
<1>2. 2^IntBits = 2 * 2^(IntBits - 1) /\ 2^(IntBits - 1) \in Nat \ {0}
  BY <1>1, PowersOfTwo
<1>3. \A h \in Nat \ {0} : 2 * h \in Nat \ {0}
  OBVIOUS
<1> QED
  BY <1>2, <1>3 DEF Half

\* The machine's integers: every integer wraps, and those that fit stay what they are.
LEMMA Wraps ==
  ASSUME NEW x \in Int
  PROVE  /\ Unsigned(x) \in 0..(2^IntBits - 1) /\ Signed(x) \in Integers64
         /\ x \in Integers64 => Signed(x) = x
         /\ x \in 0..(Half - 1) => Unsigned(x) = x
<1> DEFINE m == 2^IntBits
           u == x % m
<1>1. Half \in Nat \ {0} /\ m = 2 * Half /\ m \in Nat \ {0}
  BY Halves
<1>2. Unsigned(x) = u /\ Signed(x) = IF u < Half THEN u ELSE u - m
  BY DEF Unsigned, Signed, Half
<1> HIDE DEF m
<1>3. x = m * (x \div m) + u /\ u \in 0..(m - 1) /\ x \div m \in Int
  BY <1>1, DivMod
<1>4. x \in 0..(m - 1) => u = x
  BY <1>1, ModSmall
<1>5. x \in Integers64 /\ x < 0 => u = x + m
  <2> SUFFICES ASSUME x \in Integers64, x < 0 PROVE u = x + m
    OBVIOUS
  <2> DEFINE q == x \div m
  <2>1. -m < x /\ x < 0 /\ q \in Int /\ u \in 0..(m - 1) /\ x = m * q + u
    BY <1>1, <1>3 DEF Integers64
  <2> HIDE DEF q, u
  <2>2. ~(q >= 0)
    <3>1. \A a \in Nat : m * a >= 0
      BY <1>1
    <3> QED
      BY <1>1, <2>1, <3>1
  <2>3. ~(q <= -2)
    <3>1. \A a \in Int : a <= -2 => m * a <= m * (-2)
      BY <1>1
    <3>2. m * (-2) = -(m + m)
      BY <1>1
    <3> QED
      BY <1>1, <2>1, <3>1, <3>2
  <2>4. q = -1 /\ m * (-1) = -m
    BY <1>1, <2>1, <2>2, <2>3
  <2> QED
    BY <1>1, <2>1, <2>4
<1> HIDE DEF u
<1> QED
  BY <1>1, <1>2, <1>3, <1>4, <1>5 DEF m, Integers64

LEMMA Differences ==
  ASSUME NEW s \in Seq(Int), s # << >>
  PROVE  /\ DeltaMin(s) \in Int /\ \A i \in 1..Len(s) : DeltaMin(s) <= s[i]
         /\ Deltas(s) \in Seq(Int) /\ Len(Deltas(s)) = Len(s)
         /\ \A i \in 1..Len(s) : Deltas(s)[i] = Signed(s[i] - DeltaMin(s)) /\ Deltas(s)[i] \in Integers64
         /\ Output(s) \in Seq(Nat) /\ Len(Output(s)) = Len(s)
         /\ \A i \in 1..Len(s) : Output(s)[i] = Unsigned(Deltas(s)[i])
<1>1. Len(s) \in Nat /\ DOMAIN s = 1..Len(s) /\ \A i \in 1..Len(s) : s[i] \in Int
  OBVIOUS
<1>2. DeltaMin(s) \in Int /\ \A i \in 1..Len(s) : DeltaMin(s) <= s[i]
  BY MinOfData DEF DeltaMin
<1>3. Deltas(s) = [i \in 1..Len(s) |-> Signed(s[i] - DeltaMin(s))]
  BY <1>1 DEF Deltas
<1>4. Output(s) = [i \in 1..Len(s) |-> Unsigned(Deltas(s)[i])]
  BY <1>1 DEF Output
<1>5. ASSUME NEW i \in 1..Len(s)
      PROVE  Signed(s[i] - DeltaMin(s)) \in Integers64
  <2>1. s[i] - DeltaMin(s) \in Int
    BY <1>1, <1>2
  <2> QED
    BY <2>1, Wraps
<1>6. \A i \in 1..Len(s) : Deltas(s)[i] = Signed(s[i] - DeltaMin(s)) /\ Deltas(s)[i] \in Integers64
  BY <1>3, <1>5
<1>7. \A x \in Integers64 : x \in Int
  BY Halves DEF Integers64
<1>8. ASSUME NEW i \in 1..Len(s)
      PROVE  Unsigned(Deltas(s)[i]) \in Nat
  <2>1. Deltas(s)[i] \in Int
    BY <1>6, <1>7
  <2>2. Unsigned(Deltas(s)[i]) \in 0..(2^IntBits - 1)
    BY <2>1, Wraps
  <2> DEFINE m == 2^IntBits
  <2>3. m \in Nat
    BY Halves
  <2> HIDE DEF m
  <2>4. \A y \in 0..(m - 1) : y \in Nat
    BY <2>3
  <2> QED
    BY <2>2, <2>4 DEF m
<1>9. \A i \in 1..Len(s) : Output(s)[i] = Unsigned(Deltas(s)[i]) /\ Output(s)[i] \in Nat
  BY <1>4, <1>8
<1>10. Deltas(s) = [i \in 1..Len(s) |-> Deltas(s)[i]] /\ Output(s) = [i \in 1..Len(s) |-> Output(s)[i]]
  <2>1. Deltas(s) = [i \in 1..Len(s) |-> Deltas(s)[i]]
    BY <1>3
  <2>2. Output(s) = [i \in 1..Len(s) |-> Output(s)[i]]
    BY <1>4
  <2> QED
    BY <2>1, <2>2
<1>11. Deltas(s) \in Seq(Int) /\ Len(Deltas(s)) = Len(s)
  BY <1>1, <1>6, <1>7, <1>10, FunctionIsSeq
<1>12. Output(s) \in Seq(Nat) /\ Len(Output(s)) = Len(s)
  BY <1>1, <1>9, <1>10, FunctionIsSeq
<1> QED
  BY <1>2, <1>6, <1>9, <1>11, <1>12

\* No difference is wider than DatumBit, if none is wider than the integers.
LEMMA WidthOfData ==
  ASSUME NEW s \in Seq(Int), s # << >>
  PROVE  /\ DatumBit(s) \in 1..(IntBits - 1) /\ DeltaMax(s) \in Int
         /\ Max(ToSet(s)) - DeltaMin(s) < Half =>
              \A i \in 1..Len(s) : /\ Output(s)[i] = s[i] - DeltaMin(s)
                                   /\ Output(s)[i] \in 0..(2^DatumBit(s) - 1)
<1> DEFINE n == IntBits - 1
           S == {1} \cup {l \in 1..n : DeltaMax(s) \div 2^(l - 1) # 0}
           d == DatumBit(s)
<1>1. n \in Nat \ {0} /\ n + 1 = IntBits /\ n \in 0..Bits /\ Bits \in Nat
  BY Widths
<1>2. S \in SUBSET (1..n) /\ S # {}
  BY <1>1
<1>3. d = Max(S)
  BY DEF DatumBit
<1>4. d \in S /\ \A y \in S : y <= d
  BY <1>1, <1>2, <1>3, MaxUpTo
<1>5. d \in 1..n /\ \A l \in 1..n : DeltaMax(s) \div 2^(l - 1) # 0 => l <= d
  BY <1>2, <1>4
<1> HIDE DEF S, d
<1>6. Deltas(s) \in Seq(Int) /\ Deltas(s) # << >> /\ Len(Deltas(s)) = Len(s)
  <2>1. Deltas(s) \in Seq(Int) /\ Len(Deltas(s)) = Len(s) /\ Len(s) # 0
    BY Differences
  <2> QED
    BY <2>1
<1>7. DeltaMax(s) \in Int /\ \A i \in 1..Len(s) : DeltaMax(s) >= Deltas(s)[i]
  BY <1>6, MaxOfData DEF DeltaMax
<1>8. ASSUME Max(ToSet(s)) - DeltaMin(s) < Half
      PROVE  \A i \in 1..Len(s) : Output(s)[i] = s[i] - DeltaMin(s) /\ Output(s)[i] \in 0..(2^d - 1)
  <2>1. \A i \in 1..Len(s) : s[i] \in Int /\ Max(ToSet(s)) \in Int /\ Max(ToSet(s)) >= s[i]
    BY MaxOfData
  <2>2. \A i \in 1..Len(s) : s[i] - DeltaMin(s) \in 0..(Half - 1)
    <3> TAKE i \in 1..Len(s)
    <3>1. DeltaMin(s) \in Int /\ DeltaMin(s) <= s[i]
      BY Differences
    <3>2. Half \in Nat /\ s[i] \in Int /\ Max(ToSet(s)) \in Int /\ Max(ToSet(s)) >= s[i]
      BY <2>1, Halves
    <3> QED
      BY <1>8, <3>1, <3>2
  <2>3. \A y \in 0..(Half - 1) : y \in Int /\ y \in Integers64
    BY Halves DEF Integers64
  <2>4. \A i \in 1..Len(s) : Deltas(s)[i] = s[i] - DeltaMin(s) /\ Output(s)[i] = Deltas(s)[i]
    <3> TAKE i \in 1..Len(s)
    <3> DEFINE x == s[i] - DeltaMin(s)
    <3>1. x \in 0..(Half - 1) /\ x \in Int /\ x \in Integers64
      BY <2>2, <2>3
    <3>2. Deltas(s)[i] = Signed(x) /\ Output(s)[i] = Unsigned(Deltas(s)[i])
      BY Differences
    <3> HIDE DEF x
    <3>3. Signed(x) = x /\ Unsigned(x) = x
      BY <3>1, Wraps
    <3> QED
      BY <3>2, <3>3 DEF x
  <2>5. DeltaMax(s) < 2^d
    <3>1. \E i \in 1..Len(s) : DeltaMax(s) = Deltas(s)[i]
      BY <1>6, MaxOfData DEF DeltaMax
    <3>2. DeltaMax(s) \in 0..(Half - 1)
      BY <2>2, <2>4, <3>1
    <3>3. CASE d = n
      <4>1. 2^d = Half
        BY <3>3 DEF Half
      <4> QED
        BY <3>2, <4>1, Halves
    <3>4. CASE d < n
      <4>1. d + 1 \in 1..n /\ (d + 1) - 1 = d /\ ~(d + 1 <= d)
        BY <1>1, <1>5, <3>4
      <4>2. DeltaMax(s) \div 2^d = 0
        BY <1>5, <4>1
      <4>3. d \in 0..Bits
        BY <1>1, <1>5
      <4> DEFINE p == 2^d
                 y == DeltaMax(s)
      <4>4. p \in Nat \ {0} /\ y \in Nat
        BY <3>2, <4>3, PowersOfTwo, Halves
      <4>5. y \div p = 0
        BY <4>2
      <4> HIDE DEF p, y
      <4>6. y < p
        <5>1. y % p \in 0..(p - 1) /\ y = p * (y \div p) + (y % p)
          BY <4>4, DivModNat
        <5>2. p * 0 = 0
          BY <4>4
        <5>3. y = 0 + (y % p)
          BY <4>5, <5>1, <5>2, Zenon
        <5> QED
          BY <4>4, <5>1, <5>3
      <4> QED
        BY <4>6 DEF p, y
    <3> QED
      BY <1>1, <1>5, <3>3, <3>4
  <2>6. 2^d \in Nat
    <3>1. d \in 0..Bits
      BY <1>1, <1>5
    <3> QED
      BY <3>1, PowersOfTwo
  <2> DEFINE p == 2^d
  <2> HIDE DEF p
  <2>7. \A i \in 1..Len(s) : Output(s)[i] \in 0..(p - 1)
    <3> TAKE i \in 1..Len(s)
    <3>1. Output(s)[i] \in 0..(Half - 1) /\ Output(s)[i] <= DeltaMax(s)
      BY <1>7, <2>2, <2>4
    <3> QED
      BY <1>7, <2>5, <2>6, <3>1, Halves DEF p
  <2> QED
    BY <2>4, <2>7 DEF p
<1> QED
  BY <1>5, <1>7, <1>8 DEF d

----------------------------------------------------------------------------
(* The two forms of a batch: the bytes of the differences, and codewords.  *)

\* The byte q of datum i stands where the bytes of the data before it end.
RawLaid(data, w) ==
  /\ Raw(data, w) \in Seq(Byte) /\ Len(Raw(data, w)) = w * Len(data)
  /\ \A i \in 1..Len(data), q \in 1..w :
       Raw(data, w)[w * (i - 1) + q] = (data[i] \div Base^(q - 1)) % Base

LEMMA RawBytes ==
  ASSUME NEW data \in Seq(Nat), NEW w \in 0..DatumLength(IntBits)
  PROVE  RawLaid(data, w)
<1> DEFINE piece(i) == [q \in 1..w |-> (data[i] \div Base^(q - 1)) % Base]
           ss == [i \in DOMAIN data |-> piece(i)]
<1>1. w \in Nat /\ Len(data) \in Nat /\ DOMAIN data = 1..Len(data)
      /\ \A i \in 1..Len(data) : data[i] \in Nat
  BY Widths
<1>2. ASSUME NEW i \in 1..Len(data), NEW q \in 1..w
      PROVE  (data[i] \div Base^(q - 1)) % Base \in Byte
  <2>1. q - 1 \in 0..DatumLength(IntBits) /\ data[i] \in Nat
    BY <1>1, Widths
  <2> DEFINE p == Base^(q - 1)
             y == data[i]
  <2>2. p \in Nat \ {0} /\ y \in Nat /\ Base \in Nat \ {0}
    BY <2>1, PowersOfBase, BaseAssumption
  <2> HIDE DEF p, y
  <2>3. y \div p \in Nat
    BY <2>2, DivModNat
  <2>4. (y \div p) % Base \in 0..(Base - 1)
    BY <2>2, <2>3, DivModNat
  <2> QED
    BY <2>4 DEF p, y, Byte
<1>3. ASSUME NEW i \in 1..Len(data)
      PROVE  piece(i) \in Seq(Byte) /\ Len(piece(i)) = w
  <2> DEFINE f == piece(i)
  <2>1. f = [q \in 1..w |-> f[q]] /\ \A q \in 1..w : f[q] \in Byte
    BY <1>2
  <2> HIDE DEF f
  <2>2. f \in Seq(Byte) /\ Len(f) = w
    BY <1>1, <2>1, FunctionIsSeq
  <2> QED
    BY <2>2 DEF f
<1>4. ss \in Seq(Seq(Byte)) /\ Len(ss) = Len(data) /\ \A i \in 1..Len(ss) : ss[i] = piece(i) /\ Len(ss[i]) = w
  <2>1. ss = [i \in 1..Len(data) |-> ss[i]] /\ \A i \in 1..Len(data) : ss[i] = piece(i)
    BY <1>1
  <2>2. \A i \in 1..Len(data) : ss[i] \in Seq(Byte) /\ Len(ss[i]) = w
    BY <1>3, <2>1
  <2> HIDE DEF ss
  <2>3. ss \in Seq(Seq(Byte)) /\ Len(ss) = Len(data)
    BY <1>1, <2>1, <2>2, FunctionIsSeq
  <2> QED
    BY <2>1, <2>2, <2>3
<1>5. Raw(data, w) = FlattenSeq(ss)
  BY DEF Raw
<1>6. \A i \in 1..Len(data), q \in 1..w : piece(i)[q] = (data[i] \div Base^(q - 1)) % Base
  OBVIOUS
<1> HIDE DEF ss, piece
<1>7. FlattenSeq(ss) \in Seq(Byte) /\ LaidEvery(w, FlattenSeq(ss), ss)
  BY <1>1, <1>4, FlattenUniform
<1> QED
  BY <1>4, <1>5, <1>6, <1>7 DEF RawLaid, LaidEvery

\* The codewords of the data.
Codewords(data, d, mode) == [i \in DOMAIN data |-> AthEncoding(data[i], d, mode)]

\* Where the codewords begin and end in their string.
Places(data, d, mode) ==
  CHOOSE off \in Offsets(Codewords(data, d, mode)) :
    Laid(AthStr(data, d, mode), Codewords(data, d, mode), off)

LEMMA CodewordsLaid ==
  ASSUME NEW data \in Seq(Nat), NEW d \in 1..64, NEW mode
  PROVE  /\ Codewords(data, d, mode) \in Seq(Seq(Byte)) /\ Len(Codewords(data, d, mode)) = Len(data)
         /\ \A i \in 1..Len(data) : Codewords(data, d, mode)[i] = AthEncoding(data[i], d, mode)
         /\ AthStr(data, d, mode) \in Seq(Byte)
         /\ Places(data, d, mode) \in Offsets(Codewords(data, d, mode))
         /\ Laid(AthStr(data, d, mode), Codewords(data, d, mode), Places(data, d, mode))
<1> DEFINE ss == Codewords(data, d, mode)
<1>1. Len(data) \in Nat /\ DOMAIN data = 1..Len(data) /\ \A i \in 1..Len(data) : data[i] \in Nat
  OBVIOUS
<1>2. ss = [i \in 1..Len(data) |-> ss[i]] /\ \A i \in 1..Len(data) : ss[i] = AthEncoding(data[i], d, mode)
  BY <1>1 DEF Codewords
<1>3. ASSUME NEW i \in 1..Len(data)
      PROVE  ss[i] \in Seq(Byte)
  <2> DEFINE v == data[i]
  <2>1. v \in Nat
    BY <1>1
  <2>2. ss[i] = AthEncoding(v, d, mode)
    BY <1>2
  <2> HIDE DEF v, ss
  <2>3. AthEncoding(v, d, mode) \in Seq(Byte)
    BY <2>1, CodewordType
  <2> QED
    BY <2>2, <2>3
<1>4. AthStr(data, d, mode) = FlattenSeq(ss)
  BY DEF AthStr, Codewords
<1> HIDE DEF ss
<1>5. ss \in Seq(Seq(Byte)) /\ Len(ss) = Len(data)
  BY <1>1, <1>2, <1>3, FunctionIsSeq
<1>6. FlattenSeq(ss) \in Seq(Byte) /\ \E off \in Offsets(ss) : Laid(FlattenSeq(ss), ss, off)
  BY <1>5, FlattenLayout
<1>7. Places(data, d, mode) \in Offsets(ss) /\ Laid(AthStr(data, d, mode), ss, Places(data, d, mode))
  BY <1>4, <1>6 DEF Places, ss
<1> QED
  BY <1>2, <1>4, <1>5, <1>6, <1>7 DEF ss

----------------------------------------------------------------------------
(* compress, field by field.                                               *)

\* What compress leaves of the data s.
CompressedAs(b, s) ==
  /\ b.dataList = s /\ b.output = Output(s) /\ b.deltaMin = DeltaMin(s)
  /\ b.datumBit = DatumBit(s) /\ b.datumLength = DatumLength(DatumBit(s))
  /\ b.naive = 12 + DatumLength(DatumBit(s)) * Len(s)
  /\ b.result \in Seq(Byte) /\ Len(b.result) <= DatumLength(DatumBit(s)) * Len(s)
  /\ b.valid \in BOOLEAN /\ b.mode \in 0..7
  /\ b.valid => b.result = AthStr(Output(s), b.datumBit, b.mode)
  /\ ~b.valid => b.result = Raw(Output(s), b.datumLength)

LEMMA CodedFits ==
  ASSUME NEW data \in Seq(Nat), NEW d \in 1..(IntBits - 1), NEW mode
  PROVE  LET c == Coded(data, d, mode)
         IN  /\ c.result \in Seq(Byte) /\ Len(c.result) <= DatumLength(d) * Len(data)
             /\ c.valid \in BOOLEAN
             /\ c.valid => c.result = AthStr(data, d, mode)
             /\ ~c.valid => c.result = Raw(data, DatumLength(d))
<1> DEFINE raw == Raw(data, DatumLength(d))
           str == AthStr(data, d, mode)
<1>1. d \in 1..64 /\ d \in 1..IntBits
  BY Widths
<1>2. DatumLength(d) \in 0..DatumLength(IntBits)
  BY <1>1, Widths
<1>3. raw \in Seq(Byte) /\ Len(raw) = DatumLength(d) * Len(data)
  BY <1>2, RawBytes DEF RawLaid
<1>4. str \in Seq(Byte)
  BY <1>1, CodewordsLaid
<1>5. Coded(data, d, mode) = IF d <= 8 THEN [result |-> raw, valid |-> FALSE]
                             ELSE IF Len(str) > Len(raw) THEN [result |-> raw, valid |-> FALSE]
                             ELSE [result |-> str, valid |-> TRUE]
  BY DEF Coded
<1>6. Len(raw) \in Nat /\ Len(str) \in Nat
  BY <1>3, <1>4
<1> HIDE DEF raw, str
<1>7. CASE d <= 8 \/ Len(str) > Len(raw)
  <2>1. Coded(data, d, mode) = [result |-> raw, valid |-> FALSE]
    BY <1>5, <1>7
  <2>2. Len(raw) <= DatumLength(d) * Len(data)
    BY <1>3, <1>6
  <2> QED
    BY <1>3, <2>1, <2>2 DEF raw
<1>8. CASE ~(d <= 8 \/ Len(str) > Len(raw))
  <2>1. Coded(data, d, mode) = [result |-> str, valid |-> TRUE]
    BY <1>5, <1>8
  <2>2. Len(str) <= DatumLength(d) * Len(data)
    BY <1>3, <1>6, <1>8
  <2> QED
    BY <1>4, <2>1, <2>2 DEF str
<1> QED
  BY <1>7, <1>8

LEMMA Compression ==
  ASSUME NEW s \in Seq(Int), s # << >>
  PROVE  CompressedAs(compress(s), s)
<1> DEFINE m == Measured(<< >>, s)
           b == compress(s)
           c == Coded(Encoded(m), m.datumBit, m.mode)
<1>1. Output(s) \in Seq(Nat) /\ Len(Output(s)) = Len(s) /\ Len(s) \in Nat
  BY Differences
<1>2. Outputs(<< >>, s) = Output(s)
  BY <1>1 DEF Outputs
<1>3. /\ m.dataList = s /\ m.output = Output(s) /\ m.deltaMin = DeltaMin(s) /\ m.datumBit = DatumBit(s)
      /\ m.datumLength = DatumLength(DatumBit(s)) /\ m.naive = NaiveSize(s, DatumBit(s))
  BY <1>2 DEF Measured
<1>4. b = Returned(m, c)
  BY DEF compress, compressAfter
<1> HIDE DEF m, b
<1>5. SubSeq(Output(s), 1, Len(s)) = Output(s)
  BY <1>1
<1>6. Encoded(m) = Output(s)
  BY <1>3, <1>5 DEF Encoded
<1>7. c = Coded(Output(s), DatumBit(s), m.mode)
  BY <1>3, <1>6
<1> HIDE DEF c
<1>8. DatumBit(s) \in 1..(IntBits - 1)
  BY WidthOfData
<1>9. /\ c.result \in Seq(Byte) /\ Len(c.result) <= DatumLength(DatumBit(s)) * Len(s)
      /\ c.valid \in BOOLEAN
      /\ c.valid => c.result = AthStr(Output(s), DatumBit(s), m.mode)
      /\ ~c.valid => c.result = Raw(Output(s), DatumLength(DatumBit(s)))
  BY <1>1, <1>7, <1>8, CodedFits
<1>10. /\ b.dataList = m.dataList /\ b.output = m.output /\ b.deltaMin = m.deltaMin
       /\ b.datumBit = m.datumBit /\ b.datumLength = m.datumLength /\ b.mode = m.mode
       /\ b.naive = m.naive /\ b.result = c.result /\ b.valid = c.valid
  BY <1>4 DEF Returned
<1>11. DatumLength(DatumBit(s)) \in Nat
  BY <1>8, Widths
<1>12. NaiveSize(s, DatumBit(s)) = 12 + DatumLength(DatumBit(s)) * Len(s)
  BY <1>1, <1>11 DEF NaiveSize
<1>13. m.mode \in 0..7
  <2>1. m.mode = getMode(Output(s), DatumBit(s))
    BY <1>2 DEF Measured, m
  <2> DEFINE one(first, final) == IF MostlyOnes(Output(s), first, final) THEN 1 ELSE 0
             e == SegSize(DatumBit(s))
  <2>2. m.mode = 4 * one(0, e) + 2 * one(e, 2 * e) + one(2 * e, DatumBit(s))
    BY <2>1 DEF getMode
  <2>3. one(0, e) \in {0, 1} /\ one(e, 2 * e) \in {0, 1} /\ one(2 * e, DatumBit(s)) \in {0, 1}
    OBVIOUS
  <2> HIDE DEF one
  <2> QED
    BY <2>2, <2>3
<1> QED
  BY <1>3, <1>9, <1>10, <1>12, <1>13 DEF CompressedAs, b

----------------------------------------------------------------------------
(* Both forms give the differences back.                                   *)

\* The bytes that follow the first ones of r, weighed and added.
BytesValue(r, first, w) ==
  LET value[b \in 0..w] == IF b = 0 THEN 0 ELSE value[b - 1] + r[first + b] * Base^(b - 1)
  IN  value[w]

\* The bytes of a number, weighed and added, are the number.
LEMMA BytesBack ==
  ASSUME NEW w \in 0..DatumLength(IntBits), NEW x \in Nat, x < Base^w, NEW first \in Nat, NEW r,
         \A b \in 1..w : r[first + b] = (x \div Base^(b - 1)) % Base
  PROVE  BytesValue(r, first, w) = x
<1> DEFINE turn(f) == [b \in 0..w |-> IF b = 0 THEN 0 ELSE f[b - 1] + r[first + b] * Base^(b - 1)]
           value == CHOOSE f : f = turn(f)
           g == [b \in 0..w |-> x % Base^b]
<1>0. w \in Nat /\ \A b \in 0..w : b \in 0..DatumLength(IntBits) /\ b \in Nat
  BY Widths
<1>1. \A b \in 0..w : g[b] = x % Base^b
  OBVIOUS
<1>2. g[0] = 0 /\ g[w] = x
  <2>1. x % 1 = 0
    OBVIOUS
  <2> DEFINE p == Base^w
  <2>2. p \in Nat \ {0} /\ x < p
    BY PowersOfBase
  <2>3. x % p = x
    <3> HIDE DEF p
    <3> QED
      BY <2>2, ModSmall
  <2>4. 0 \in 0..w /\ w \in 0..w /\ Base^0 = 1
    BY <1>0, PowersOfBase
  <2> HIDE DEF g
  <2> QED
    BY <1>1, <2>1, <2>3, <2>4
<1>3. ASSUME NEW b \in 1..w
      PROVE  b - 1 \in 0..w /\ b \in 0..w /\ g[b] = g[b - 1] + r[first + b] * Base^(b - 1)
  <2>1. b - 1 \in 0..w /\ b \in 0..w /\ b \in 1..DatumLength(IntBits) /\ b - 1 \in 0..DatumLength(IntBits)
    BY <1>0, Widths
  <2> DEFINE p == Base^(b - 1)
  <2>2. p \in Nat \ {0} /\ Base^b = Base * p /\ Base \in Nat \ {0}
    BY <2>1, PowersOfBase, BaseAssumption
  <2> HIDE DEF p
  <2>3. x % (Base * p) = (x % p) + ((x \div p) % Base) * p
    BY <2>2, NextDigit
  <2>4. r[first + b] = (x \div p) % Base
    BY DEF p
  <2>5. g[b] = x % (Base * p) /\ g[b - 1] = x % p
    BY <1>1, <2>1, <2>2 DEF p
  <2> HIDE DEF g
  <2>6. g[b] = g[b - 1] + r[first + b] * p
    BY <2>3, <2>4, <2>5
  <2> QED
    BY <2>1, <2>6 DEF p
<1>4. g = turn(g)
  <2>1. g = [b \in 0..w |-> g[b]]
    OBVIOUS
  <2> HIDE DEF g
  <2>2. \A b \in 0..w : g[b] = IF b = 0 THEN 0 ELSE g[b - 1] + r[first + b] * Base^(b - 1)
    <3> TAKE b \in 0..w
    <3>1. b = 0 \/ b \in 1..w
      BY <1>0
    <3> QED
      BY <1>2, <1>3, <3>1
  <2> QED
    BY <2>1, <2>2
<1>5. value = turn(value)
  BY <1>4, Zenon
<1> HIDE DEF value, g
<1>6. \A b \in 0..w : value[b] = IF b = 0 THEN 0 ELSE value[b - 1] + r[first + b] * Base^(b - 1)
  BY <1>5
<1> DEFINE T == {b \in 0..w : value[b] = g[b]}
<1>7. 0 \in T
  BY <1>0, <1>2, <1>6
<1>8. ASSUME NEW b \in 0..(w - 1), b \in T PROVE b + 1 \in T
  <2>1. b + 1 \in 1..w /\ b + 1 \in 0..w /\ (b + 1) - 1 = b /\ b + 1 # 0
    BY <1>0
  <2>2. value[b + 1] = value[b] + r[first + (b + 1)] * Base^b
    BY <1>6, <2>1
  <2>3. g[b + 1] = g[b] + r[first + (b + 1)] * Base^b
    BY <1>3, <2>1
  <2> QED
    BY <1>8, <2>1, <2>2, <2>3
<1> HIDE DEF T
<1>9. 0..w \subseteq T
  BY <1>0, <1>7, <1>8, InductionUpTo
<1>10. value[w] = g[w]
  <2>1. w \in T
    BY <1>0, <1>9
  <2> QED
    BY <2>1 DEF T
<1>11. value[w] = x
  BY <1>2, <1>10
<1> QED
  BY <1>11 DEF BytesValue, value

\* The powers that the widths need.
LEMMA PowersUpTo ==
  ASSUME NEW d \in 0..Bits
  PROVE  d \in Nat /\ Powers(d)
<1>1. Bits \in Nat
  BY Widths
<1>2. d \in Nat /\ \A n \in 1..d : n \in 1..Bits
  BY <1>1
<1> QED
  BY <1>2, PowersOfTwo DEF Powers

LEMMA BelowPower ==
  ASSUME NEW v \in Nat, NEW d \in 0..Bits, v < 2^d
  PROVE  FitsIn(v, d)
<1>1. d \in Nat /\ Powers(d)
  BY PowersUpTo
<1> QED
  BY <1>1, FitsBelow

\* Memory from where codeword i begins: the codeword, and what lies behind.
MemoryAt(data, d, mode, i, tail) ==
  LET off == Places(data, d, mode)
      str == AthStr(data, d, mode)
  IN  SubSeq(str, off[i - 1] + 1, Len(str)) \o tail

LEMMA CodewordStarts ==
  ASSUME NEW data \in Seq(Nat), NEW d \in 1..64, NEW mode, NEW i \in 1..Len(data),
         NEW tail \in Seq(Byte), Len(tail) >= 3
  PROVE  Starts(MemoryAt(data, d, mode, i, tail), data[i], d, mode)
<1> DEFINE off  == Places(data, d, mode)
           str  == AthStr(data, d, mode)
           rest == SubSeq(str, off[i - 1] + 1, Len(str))
           memory == rest \o tail
           code == AthEncoding(data[i], d, mode)
           ss   == Codewords(data, d, mode)
<1>1. /\ ss \in Seq(Seq(Byte)) /\ Len(ss) = Len(data) /\ ss[i] = code /\ str \in Seq(Byte)
      /\ off \in Offsets(ss) /\ Laid(str, ss, off)
  BY CodewordsLaid
<1>2. data[i] \in Nat /\ Len(data) \in Nat /\ i \in 1..Len(ss) /\ i - 1 \in 0..Len(ss) /\ i \in 0..Len(ss)
  BY <1>1
<1>3. code \in Seq(Byte) /\ Len(code) \in Nat
  BY <1>2, CodewordType
<1> HIDE DEF off, str, code, ss
<1>4. /\ off[i - 1] \in Nat /\ off[i] \in Nat /\ off[i] = off[i - 1] + Len(code) /\ off[i] <= Len(str)
      /\ \A q \in 1..Len(code) : str[off[i - 1] + q] = code[q]
  BY <1>1, <1>2 DEF Offsets, Laid
<1>0. \A a \in Nat : \A b \in Nat : \A c \in Nat : \A l \in Nat :
        b = a + c /\ b <= l => a <= l /\ c <= l - a
  OBVIOUS
<1>13. \A t \in Seq(Byte) : Len(t) \in Nat
  OBVIOUS
<1>14. Len(str) \in Nat
  BY <1>1, <1>13
<1>15. off[i - 1] <= Len(str) /\ Len(code) <= Len(str) - off[i - 1]
  <2> DEFINE a == off[i - 1]
             b == off[i]
             c == Len(code)
             l == Len(str)
  <2>1. a \in Nat /\ b \in Nat /\ c \in Nat /\ l \in Nat /\ b = a + c /\ b <= l
    BY <1>3, <1>4, <1>14
  <2> HIDE DEF a, b, c, l
  <2>2. a <= l /\ c <= l - a
    BY <1>0, <2>1
  <2> QED
    BY <2>2 DEF a, b, c, l
<1>5. Len(str) \in Nat /\ rest \in Seq(Byte) /\ Len(rest) = Len(str) - off[i - 1]
      /\ \A q \in 1..(Len(str) - off[i - 1]) : rest[q] = str[off[i - 1] + q]
  <2> DEFINE n == off[i - 1]
  <2>1. n \in Nat /\ Len(str) \in Nat /\ n <= Len(str) /\ str \in Seq(Byte)
    BY <1>1, <1>4, <1>14, <1>15
  <2> HIDE DEF n
  <2>2. SubSeq(str, n + 1, Len(str)) = [q \in 1..(Len(str) - n) |-> str[n + q]]
    <3>1. SubSeq(str, n + 1, Len(str)) = [q \in 1..((Len(str) - (n + 1)) + 1) |-> str[((n + 1) + q) - 1]]
      BY <2>1
    <3>2. (Len(str) - (n + 1)) + 1 = Len(str) - n
      BY <2>1
    <3>3. \A q \in 1..(Len(str) - n) : ((n + 1) + q) - 1 = n + q
      BY <2>1
    <3> QED
      BY <3>1, <3>2, <3>3
  <2>3. SubSeq(str, n + 1, Len(str)) \in Seq(Byte) /\ Len(SubSeq(str, n + 1, Len(str))) = Len(str) - n
    BY <2>1
  <2> QED
    BY <2>1, <2>2, <2>3 DEF n
<1> HIDE DEF rest
<1>6. memory \in Seq(Byte) /\ Concatenates(memory, rest, tail)
  BY <1>5, Concatenation
<1> HIDE DEF memory
<1>7. Len(rest) \in Nat /\ Len(tail) \in Nat /\ Len(memory) = Len(rest) + Len(tail) /\ Len(code) <= Len(rest)
      /\ \A q \in 1..Len(rest) : memory[q] = rest[q]
  BY <1>5, <1>6, <1>15 DEF Concatenates
<1>8. Begins(memory, code)
  <2>1. \A q \in 1..Len(code) : q \in 1..Len(rest) /\ q \in 1..(Len(str) - off[i - 1])
    BY <1>3, <1>5, <1>7
  <2>2. \A q \in 1..Len(code) : memory[q] = code[q]
    BY <1>4, <1>5, <1>7, <2>1
  <2> QED
    BY <2>2 DEF Begins
<1>9. Len(memory) >= Len(code) + 3
  BY <1>3, <1>7
<1> QED
  BY <1>6, <1>8, <1>9 DEF Starts, MemoryAt, off, str, rest, memory, code

\* What AthDecoding finds where codeword i begins, if the codeword can be ended: its length,
\* and the datum, if the width leaves nothing of it out.
Retrieved(data, d, mode, i, tail) ==
  LET off    == Places(data, d, mode)
      str    == AthStr(data, d, mode)
      memory == SubSeq(str, off[i - 1] + 1, Len(str)) \o tail
  IN  /\ AthDecoding(memory, d, mode).usedLength = off[i] - off[i - 1]
      /\ FitsIn(data[i], d) => AthDecoding(memory, d, mode).value = data[i]

LEMMA CodewordReturns ==
  ASSUME NEW data \in Seq(Nat), NEW d \in 1..64, NEW mode, NEW i \in 1..Len(data),
         Ends(data[i], d, mode), NEW tail \in Seq(Byte), Len(tail) >= 3
  PROVE  Retrieved(data, d, mode, i, tail)
<1> DEFINE off  == Places(data, d, mode)
           memory == MemoryAt(data, d, mode, i, tail)
           code == AthEncoding(data[i], d, mode)
           ss   == Codewords(data, d, mode)
<1>1. ss \in Seq(Seq(Byte)) /\ Len(ss) = Len(data) /\ ss[i] = code /\ off \in Offsets(ss)
  BY CodewordsLaid
<1>2. data[i] \in Nat /\ d \in Nat /\ i \in 1..Len(ss) /\ i - 1 \in 0..Len(ss) /\ i \in 0..Len(ss)
  BY <1>1
<1>3. Starts(memory, data[i], d, mode)
  BY CodewordStarts
<1>4. code \in Seq(Byte) /\ Len(code) \in Nat
  BY <1>2, CodewordType
<1>5. AthDecoding(memory, d, mode) = [value |-> ValueOf(BitsOf(data[i], d)), usedLength |-> Len(code)]
  BY <1>2, <1>3, CallsRetrieve DEF Starts
<1>6. Retrieved(data, d, mode, i, tail)
        = (/\ AthDecoding(memory, d, mode).usedLength = off[i] - off[i - 1]
           /\ FitsIn(data[i], d) => AthDecoding(memory, d, mode).value = data[i])
  BY DEF Retrieved, MemoryAt
<1> HIDE DEF off, memory, code, ss
<1>7. off[i] - off[i - 1] = Len(code)
  <2>1. off[i - 1] \in Nat /\ off[i] = off[i - 1] + Len(code)
    BY <1>1, <1>2 DEF Offsets
  <2> DEFINE a == off[i - 1]
             c == Len(code)
  <2>2. a \in Nat /\ c \in Nat /\ off[i] = a + c
    BY <1>4, <2>1
  <2> HIDE DEF a, c
  <2>3. off[i] - a = c
    BY <2>2
  <2> QED
    BY <2>3 DEF a, c
<1>8. FitsIn(data[i], d) => ValueOf(BitsOf(data[i], d)) = data[i]
  BY <1>2, ValueIsBack
<1> QED
  BY <1>5, <1>6, <1>7, <1>8


----------------------------------------------------------------------------
(* One batch.                                                              *)

\* A record that compress left of rows of a column.
IsBatch(b) ==
  /\ b.dataList \in Seq(Integers64) /\ Len(b.dataList) \in 1..BatchSize
  /\ CompressedAs(b, b.dataList)

\* How far main is in a coded batch after k of its values: p and r are ptr and recovered.
Walked(b, k, p, r) ==
  b.valid /\ Ended(b) =>
    /\ p = Places(b.output, b.datumBit, b.mode)[k]
    /\ Fits(b) => r \in Seq(Int) /\ Len(r) = k /\ \A q \in 1..k : r[q] = b.dataList[q]

LEMMA IntegersAreInt == Integers64 \subseteq Int
BY Halves DEF Integers64

LEMMA BatchFacts ==
  ASSUME NEW b, IsBatch(b)
  PROVE  /\ b.dataList \in Seq(Int) /\ b.dataList # << >> /\ Len(b.dataList) \in Nat
         /\ DOMAIN b.dataList = 1..Len(b.dataList)
         /\ b.output \in Seq(Nat) /\ Len(b.output) = Len(b.dataList)
         /\ b.datumBit \in 1..(IntBits - 1) /\ b.datumBit \in 1..64
         /\ b.datumBit = DatumBit(b.dataList) /\ b.deltaMin = DeltaMin(b.dataList)
         /\ b.output = Output(b.dataList) /\ b.deltaMin \in Int /\ b.mode \in 0..7
<1>1. b.dataList \in Seq(Integers64) /\ Len(b.dataList) \in Nat \ {0}
  BY MainAssumption DEF IsBatch
<1>2. b.dataList \in Seq(Int) /\ b.dataList # << >> /\ DOMAIN b.dataList = 1..Len(b.dataList)
  <2> DEFINE s == b.dataList
  <2>1. s \in Seq(Integers64) /\ Len(s) # 0
    BY <1>1
  <2> HIDE DEF s
  <2>2. s \in Seq(Int)
    <3>1. Len(s) \in Nat /\ s = [i \in 1..Len(s) |-> s[i]] /\ \A i \in 1..Len(s) : s[i] \in Integers64
      BY <2>1
    <3>2. \A i \in 1..Len(s) : s[i] \in Int
      BY <3>1, IntegersAreInt
    <3> QED
      BY <3>1, <3>2, FunctionIsSeq
  <2> QED
    BY <2>1, <2>2 DEF s
<1>3. /\ b.output = Output(b.dataList) /\ b.deltaMin = DeltaMin(b.dataList)
      /\ b.datumBit = DatumBit(b.dataList) /\ b.mode \in 0..7
  BY DEF IsBatch, CompressedAs
<1>4. b.output \in Seq(Nat) /\ Len(b.output) = Len(b.dataList) /\ b.deltaMin \in Int
  BY <1>2, <1>3, Differences
<1>5. b.datumBit \in 1..(IntBits - 1)
  BY <1>2, <1>3, WidthOfData
<1>6. b.datumBit \in 1..64
  <2>1. \A d \in 1..(IntBits - 1) : d \in 1..64
    BY Widths
  <2> QED
    BY <1>5, <2>1
<1> QED
  BY <1>1, <1>2, <1>3, <1>4, <1>5, <1>6

\* The places of the codewords of a coded batch go from its first byte to its last.
LEMMA PlacesOfBatch ==
  ASSUME NEW b, IsBatch(b), b.valid
  PROVE  LET off == Places(b.output, b.datumBit, b.mode)
         IN  /\ off[0] = 0 /\ off[Len(b.dataList)] = Len(b.result)
             /\ \A k \in 0..Len(b.dataList) : off[k] \in 0..Len(b.result)
<1> DEFINE off == Places(b.output, b.datumBit, b.mode)
           ss  == Codewords(b.output, b.datumBit, b.mode)
           n   == Len(b.dataList)
<1>1. b.output \in Seq(Nat) /\ Len(b.output) = n /\ n \in Nat /\ b.datumBit \in 1..64
      /\ b.output = Output(b.dataList)
  BY BatchFacts
<1>2. b.result = AthStr(b.output, b.datumBit, b.mode) /\ b.result \in Seq(Byte)
  BY <1>1 DEF IsBatch, CompressedAs
<1>3. Len(ss) = n /\ off \in Offsets(ss) /\ Laid(b.result, ss, off)
  <2> DEFINE data == b.output
             d    == b.datumBit
             mode == b.mode
  <2>1. data \in Seq(Nat) /\ d \in 1..64
    BY <1>1
  <2> HIDE DEF data, d, mode
  <2>2. /\ Len(Codewords(data, d, mode)) = Len(data)
        /\ Places(data, d, mode) \in Offsets(Codewords(data, d, mode))
        /\ Laid(AthStr(data, d, mode), Codewords(data, d, mode), Places(data, d, mode))
    BY <2>1, CodewordsLaid
  <2>3. /\ Len(ss) = Len(b.output) /\ off \in Offsets(ss)
        /\ Laid(AthStr(b.output, b.datumBit, b.mode), ss, off)
    BY <2>2 DEF data, d, mode
  <2> QED
    BY <1>1, <1>2, <2>3
<1>4. Len(b.result) \in Nat
  BY <1>2
<1> HIDE DEF off, ss, n
<1>5. /\ off \in [0..n -> Nat] /\ off[0] = 0 /\ Len(b.result) = off[n]
      /\ \A k \in 1..n : off[k] <= Len(b.result)
  BY <1>3 DEF Offsets, Laid
<1>6. \A k \in 0..n : off[k] \in 0..Len(b.result)
  <2> TAKE k \in 0..n
  <2>1. k = 0 \/ k \in 1..n
    BY <1>1 DEF n
  <2> DEFINE p == off[k]
             l == Len(b.result)
  <2>2. p \in Nat /\ l \in Nat /\ p <= l
    BY <1>4, <1>5, <2>1
  <2> HIDE DEF p, l
  <2>3. p \in 0..l
    BY <2>2
  <2> QED
    BY <2>3 DEF p, l
<1> QED
  BY <1>5, <1>6 DEF off, n

\* The differences of a batch that fits give its rows back.
LEMMA DifferenceBack ==
  ASSUME NEW b, IsBatch(b), Fits(b), NEW i \in 1..Len(b.dataList)
  PROVE  /\ b.output[i] \in Nat /\ b.output[i] < 2^b.datumBit
         /\ b.deltaMin + b.output[i] = b.dataList[i]
         /\ Signed(b.deltaMin + b.output[i]) = b.dataList[i]
<1>1. /\ b.dataList \in Seq(Int) /\ b.dataList # << >> /\ b.datumBit = DatumBit(b.dataList)
      /\ b.output = Output(b.dataList) /\ b.deltaMin = DeltaMin(b.dataList) /\ b.deltaMin \in Int
  BY BatchFacts
<1>2. Max(ToSet(b.dataList)) - DeltaMin(b.dataList) < Half
  BY <1>1 DEF Fits, Half
<1>3. b.output[i] = b.dataList[i] - b.deltaMin /\ b.output[i] \in 0..(2^b.datumBit - 1)
  BY <1>1, <1>2, WidthOfData
<1>4. b.dataList[i] \in Integers64 /\ b.dataList[i] \in Int
  BY <1>1 DEF IsBatch
<1>5. 2^b.datumBit \in Nat
  <2>1. b.datumBit \in 0..Bits
    BY BatchFacts, Widths
  <2> QED
    BY <2>1, PowersOfTwo
<1>6. b.output[i] \in Nat /\ b.output[i] < 2^b.datumBit
  <2> DEFINE p == 2^b.datumBit
             y == b.output[i]
  <2>1. p \in Nat /\ y \in 0..(p - 1)
    BY <1>3, <1>5
  <2> HIDE DEF p, y
  <2>2. y \in Nat /\ y < p
    BY <2>1
  <2> QED
    BY <2>2 DEF p, y
<1>7. b.deltaMin + b.output[i] = b.dataList[i]
  BY <1>1, <1>3, <1>4
<1>8. Signed(b.dataList[i]) = b.dataList[i]
  BY <1>4, Wraps
<1> QED
  BY <1>6, <1>7, <1>8

\* One value more: main reads the codeword that begins at ptr and finds its row.
LEMMA WalkOn ==
  ASSUME NEW b, IsBatch(b), b.valid, NEW tail \in Tails, NEW p, NEW r,
         NEW k \in 0..(Len(b.dataList) - 1), Walked(b, k, p, r)
  PROVE  LET memory  == SubSeq(b.result, p + 1, Len(b.result)) \o tail
             decoded == AthDecoding(memory, b.datumBit, b.mode)
         IN  Walked(b, k + 1, p + decoded.usedLength, Append(r, Signed(b.deltaMin + decoded.value)))
<1> SUFFICES ASSUME Ended(b)
             PROVE  LET memory  == SubSeq(b.result, p + 1, Len(b.result)) \o tail
                        decoded == AthDecoding(memory, b.datumBit, b.mode)
                        rows    == Append(r, Signed(b.deltaMin + decoded.value))
                    IN  /\ p + decoded.usedLength = Places(b.output, b.datumBit, b.mode)[k + 1]
                        /\ Fits(b) => /\ rows \in Seq(Int) /\ Len(rows) = k + 1
                                      /\ \A q \in 1..(k + 1) : rows[q] = b.dataList[q]
  BY DEF Walked
<1> DEFINE off == Places(b.output, b.datumBit, b.mode)
           i   == k + 1
           memory  == SubSeq(b.result, p + 1, Len(b.result)) \o tail
           decoded == AthDecoding(memory, b.datumBit, b.mode)
           rows    == Append(r, Signed(b.deltaMin + decoded.value))
<1>1. /\ b.output \in Seq(Nat) /\ Len(b.output) = Len(b.dataList) /\ Len(b.dataList) \in Nat
      /\ DOMAIN b.dataList = 1..Len(b.dataList) /\ b.datumBit \in 1..64 /\ b.output = Output(b.dataList)
  BY BatchFacts
<1>2. i \in 1..Len(b.output) /\ i \in 1..Len(b.dataList) /\ i - 1 = k /\ k \in 0..Len(b.dataList) /\ k \in Nat
  BY <1>1
<1>3. Ends(b.output[i], b.datumBit, b.mode)
  BY <1>1, <1>2 DEF Ended
<1>4. tail \in Seq(Byte) /\ Len(tail) >= 3
  BY MainAssumption
<1>5. Retrieved(b.output, b.datumBit, b.mode, i, tail)
  BY <1>1, <1>2, <1>3, <1>4, CodewordReturns
<1>6. b.result = AthStr(b.output, b.datumBit, b.mode) /\ p = off[k]
  BY <1>1 DEF IsBatch, CompressedAs, Walked
<1>7. decoded.usedLength = off[i] - off[k] /\ (FitsIn(b.output[i], b.datumBit) => decoded.value = b.output[i])
  BY <1>2, <1>5, <1>6 DEF Retrieved
<1>8. p + decoded.usedLength = off[i]
  <2>1. off[k] \in Nat /\ off[i] \in Nat
    BY <1>1, <1>2, PlacesOfBatch
  <2> HIDE DEF off, decoded
  <2> QED
    BY <1>6, <1>7, <2>1
<1> HIDE DEF decoded
<1>9. ASSUME Fits(b)
      PROVE  rows \in Seq(Int) /\ Len(rows) = k + 1 /\ \A q \in 1..(k + 1) : rows[q] = b.dataList[q]
  <2>1. /\ b.output[i] \in Nat /\ b.output[i] < 2^b.datumBit
        /\ Signed(b.deltaMin + b.output[i]) = b.dataList[i]
    BY <1>2, <1>9, DifferenceBack
  <2>2. b.datumBit \in 0..Bits
    BY BatchFacts, Widths
  <2>3. FitsIn(b.output[i], b.datumBit)
    BY <2>1, <2>2, BelowPower
  <2>4. rows = Append(r, b.dataList[i])
    BY <1>7, <2>1, <2>3
  <2>5. r \in Seq(Int) /\ Len(r) = k /\ \A q \in 1..k : r[q] = b.dataList[q]
    BY <1>9 DEF Walked
  <2>6. b.dataList[i] \in Int
    BY <1>2, BatchFacts
  <2> HIDE DEF rows
  <2>7. rows \in Seq(Int) /\ Len(rows) = k + 1 /\ rows[k + 1] = b.dataList[i] /\ \A q \in 1..k : rows[q] = r[q]
    BY <1>2, <2>4, <2>5, <2>6
  <2>8. \A q \in 1..(k + 1) : q \in 1..k \/ q = k + 1
    BY <1>2
  <2> QED
    BY <2>5, <2>7, <2>8
<1> QED
  BY <1>8, <1>9 DEF decoded

\* The bytes of a batch that is stored as it is are its differences.
LEMMA RawBack ==
  ASSUME NEW b, IsBatch(b), Fits(b), ~b.valid, NEW n \in 1..Len(b.dataList)
  PROVE  LET first == (n - 1) * b.datumLength
             value[q \in 0..b.datumLength] ==
               IF q = 0 THEN 0 ELSE value[q - 1] + b.result[first + q] * Base^(q - 1)
         IN  b.deltaMin + value[b.datumLength] = b.dataList[n]
<1> DEFINE w == b.datumLength
           first == (n - 1) * w
           x == b.output[n]
<1>1. /\ b.output \in Seq(Nat) /\ Len(b.output) = Len(b.dataList) /\ b.datumBit \in 1..(IntBits - 1)
      /\ b.output = Output(b.dataList) /\ b.datumBit = DatumBit(b.dataList) /\ Len(b.dataList) \in Nat
  BY BatchFacts
<1>2. w = DatumLength(b.datumBit) /\ b.result = Raw(b.output, w)
  BY <1>1 DEF IsBatch, CompressedAs
<1>3. w \in 0..DatumLength(IntBits) /\ w \in Nat /\ b.datumBit \in Nat /\ b.datumBit <= ByteBits * w
  <2>1. b.datumBit \in 1..IntBits
    BY <1>1, Widths
  <2> QED
    BY <1>2, <2>1, Widths
<1>4. x \in Nat /\ x < 2^b.datumBit /\ b.deltaMin + x = b.dataList[n]
  BY DifferenceBack
<1>5. x < Base^w
  <2>1. ByteBits * w \in 0..Bits /\ Base^w = 2^(ByteBits * w) /\ Base^w \in Nat
    BY <1>3, PowersOfBase
  <2>2. ByteBits * w \in Nat /\ ByteBits * w <= Bits /\ b.datumBit \in 0..Bits
    BY <1>3, <2>1, Widths
  <2>3. 2^b.datumBit <= 2^(ByteBits * w)
    BY <1>3, <2>2, PowersGrow
  <2>4. 2^b.datumBit \in Nat
    BY <2>2, PowersOfTwo
  <2> DEFINE g == 2^b.datumBit
             h == Base^w
  <2>5. g \in Nat /\ h \in Nat /\ x < g /\ g <= h
    BY <1>4, <2>1, <2>3, <2>4
  <2> HIDE DEF x, g, h
  <2>6. x < h
    BY <1>4, <2>5
  <2> QED
    BY <2>6 DEF h
<1>6. first \in Nat /\ first = w * (n - 1)
  BY <1>1, <1>3
<1>7. RawLaid(b.output, w)
  BY <1>1, <1>3, RawBytes
<1>8. \A q \in 1..w : b.result[first + q] = (x \div Base^(q - 1)) % Base
  BY <1>1, <1>2, <1>6, <1>7 DEF RawLaid
<1> HIDE DEF w, first, x
<1>9. BytesValue(b.result, first, w) = x
  BY <1>3, <1>4, <1>5, <1>6, <1>8, BytesBack
<1> QED
  BY <1>4, <1>9 DEF w, first, x, BytesValue

----------------------------------------------------------------------------
(* main.                                                                   *)

Open    == IF phase \in {"decode", "aborted"} THEN 1 ELSE 0
Batched == batchNo * Len(columns) + (columnNo - 1) + Open   \* batches compressed so far

Total == /\ comDataTotal.naive \in Nat /\ comDataTotal.ath \in Nat
         /\ comDataTotal.ath + 12 * Batched <= comDataTotal.naive

InPlace ==
  /\ columns \in DataSets /\ behind \in Tails
  /\ phase \in {"compress", "decode", "done", "aborted", "killed"}
  /\ batchNo \in 0..BatchNum /\ columnNo \in 1..Len(columns)
  /\ phase \in {"decode", "aborted"} =>
       batchNo < BatchNum /\ batch.valid /\ valueNo < Len(batch.dataList)

\* The inductive invariant: the batch at hand is one that compress left, main stands behind
\* its first valueNo codewords, and every batch paid for its header.
MainInv ==
  /\ InPlace
  /\ IsBatch(batch) /\ valueNo \in 0..Len(batch.dataList)
  /\ Walked(batch, valueNo, ptr, recovered)
  /\ Total
  /\ {compressionCost, decompressionCost, decompressionCost2} \subseteq {0, 1}

LEMMA DataRead ==
  ASSUME columns \in DataSets
  PROVE  /\ columns \in Seq(Seq(Integers64)) /\ Len(columns) \in Nat \ {0}
         /\ DOMAIN columns = 1..Len(columns)
         /\ \A c \in 1..Len(columns) : columns[c] \in Seq(Integers64) /\ Len(columns[c]) = Count
         /\ Count \in Nat /\ BatchSize \in Nat \ {0} /\ BatchNum \in Nat /\ BatchNum * BatchSize <= Count
<1>1. columns \in Seq(Seq(Integers64)) /\ columns # << >> /\ \A c \in DOMAIN columns : Len(columns[c]) = Count
  BY MainAssumption DEF Count, Integers64, Half
<1>2. Len(columns) \in Nat \ {0} /\ DOMAIN columns = 1..Len(columns)
  BY <1>1
<1>3. \A c \in 1..Len(columns) : columns[c] \in Seq(Integers64) /\ Len(columns[c]) = Count
  BY <1>1, <1>2
<1>4. Count \in Nat /\ BatchSize \in Nat \ {0}
  BY <1>2, <1>3, MainAssumption
<1>5. BatchNum \in Nat /\ BatchNum * BatchSize <= Count
  <2>1. /\ Count \div BatchSize \in Nat /\ Count % BatchSize \in Nat
        /\ Count = BatchSize * (Count \div BatchSize) + (Count % BatchSize)
    BY <1>4, DivModNat
  <2> QED
    BY <1>4, <2>1 DEF BatchNum
<1> QED
  BY <1>1, <1>2, <1>3, <1>4, <1>5

\* Every batch has all its rows.
LEMMA RowsOfBatch ==
  ASSUME columns \in DataSets, columnNo \in 1..Len(columns), batchNo \in 0..(BatchNum - 1)
  PROVE  LET s == Rows(columns[columnNo], batchNo)
         IN  s \in Seq(Integers64) /\ s \in Seq(Int) /\ s # << >> /\ Len(s) = BatchSize
<1> DEFINE column == columns[columnNo]
           s == Rows(column, batchNo)
           first == batchNo * BatchSize
           end == (batchNo + 1) * BatchSize
<1>1. column \in Seq(Integers64) /\ Len(column) = Count /\ Count \in Nat /\ BatchSize \in Nat \ {0}
      /\ BatchNum \in Nat /\ BatchNum * BatchSize <= Count /\ batchNo \in Nat /\ batchNo + 1 <= BatchNum
  BY DataRead
<1> HIDE DEF column
<1>2. first \in Nat /\ end = first + BatchSize /\ end <= Count
  <2>1. (batchNo + 1) * BatchSize <= BatchNum * BatchSize
    BY <1>1, MulMono
  <2>2. (batchNo + 1) * BatchSize = batchNo * BatchSize + BatchSize
    BY <1>1
  <2>3. batchNo * BatchSize \in Nat
    BY <1>1
  <2> QED
    BY <1>1, <2>1, <2>2, <2>3
<1>3. s = SubSeq(column, first + 1, Min({Count, end}))
  BY DEF Rows
<1> HIDE DEF first, end, s
<1>4. Min({Count, end}) = end
  <2>1. end \in Nat
    BY <1>1, <1>2
  <2>2. \A m \in {Count, end} : (\A y \in {Count, end} : m <= y) => m = end
    BY <1>1, <1>2, <2>1
  <2>3. end \in {Count, end} /\ \A y \in {Count, end} : end <= y
    BY <1>1, <1>2, <2>1
  <2> QED
    BY <2>2, <2>3 DEF Min
<1>5. s = SubSeq(column, first + 1, first + BatchSize)
  BY <1>2, <1>3, <1>4
<1>6. s \in Seq(Integers64) /\ Len(s) = BatchSize
  BY <1>1, <1>2, <1>5
<1>7. s # << >>
  BY <1>1, <1>6
<1>8. s \in Seq(Int)
  <2>1. s = [i \in 1..Len(s) |-> s[i]] /\ \A i \in 1..Len(s) : s[i] \in Integers64
    BY <1>6
  <2>2. \A i \in 1..Len(s) : s[i] \in Int
    BY <2>1, IntegersAreInt
  <2> QED
    BY <1>1, <1>6, <2>1, <2>2, FunctionIsSeq
<1> QED
  BY <1>6, <1>7, <1>8 DEF s, column

\* Where a batch begins nothing of it has been decoded.
LEMMA BatchBegins ==
  ASSUME NEW s \in Seq(Integers64), s \in Seq(Int), Len(s) \in 1..BatchSize
  PROVE  IsBatch(compress(s)) /\ compress(s).dataList = s /\ Walked(compress(s), 0, 0, << >>)
<1> DEFINE b == compress(s)
<1>1. s # << >>
  BY MainAssumption
<1>2. CompressedAs(b, s)
  BY <1>1, Compression
<1> HIDE DEF b
<1>3. IsBatch(b) /\ b.dataList = s
  BY <1>2 DEF IsBatch, CompressedAs
<1>4. b.valid => Places(b.output, b.datumBit, b.mode)[0] = 0
  BY <1>3, PlacesOfBatch
<1>5. << >> \in Seq(Int) /\ Len(<< >>) = 0
  OBVIOUS
<1>6. \A q \in 1..0 : FALSE
  OBVIOUS
<1>7. Walked(b, 0, 0, << >>)
  BY <1>4, <1>5, <1>6 DEF Walked
<1> QED
  BY <1>3, <1>7 DEF b

LEMMA LongestCost ==
  ASSUME NEW a \in {0, 1}, NEW t \in Durations
  PROVE  Max({a, t}) \in {0, 1}
<1>1. t \in {0, 1}
  BY MainAssumption
<1>2. \E x \in {a, t} : \A y \in {a, t} : x >= y
  BY <1>1
<1> QED
  BY <1>1, <1>2 DEF Max

LEMMA MainInvInit == MainInit => MainInv
<1> SUFFICES ASSUME MainInit PROVE MainInv
  OBVIOUS
<1>1. columns \in DataSets /\ behind \in Tails /\ phase = "compress" /\ batchNo = 0 /\ columnNo = 1
      /\ valueNo = 0 /\ batch = compress(<<0>>) /\ ptr = 0 /\ recovered = << >>
      /\ comDataTotal = [naive |-> 0, ath |-> 0]
      /\ compressionCost = 0 /\ decompressionCost = 0 /\ decompressionCost2 = 0
  BY DEF MainInit
<1>2. Len(columns) \in Nat \ {0} /\ BatchNum \in Nat
  BY <1>1, DataRead
<1>3. InPlace
  BY <1>1, <1>2 DEF InPlace
<1>4. <<0>> \in Seq(Integers64) /\ <<0>> \in Seq(Int) /\ Len(<<0>>) \in 1..BatchSize
  <2>1. 0 \in Integers64
    BY Halves DEF Integers64
  <2> QED
    BY <2>1, MainAssumption
<1>5. IsBatch(batch) /\ batch.dataList = <<0>> /\ Walked(batch, valueNo, ptr, recovered)
  BY <1>1, <1>4, BatchBegins
<1>6. valueNo \in 0..Len(batch.dataList)
  BY <1>1, <1>5
<1>7. Total
  <2>1. Open = 0
    BY <1>1 DEF Open
  <2>2. Batched = 0
    BY <1>1, <1>2, <2>1 DEF Batched
  <2> QED
    BY <1>1, <2>2 DEF Total
<1> QED
  BY <1>1, <1>3, <1>5, <1>6, <1>7 DEF MainInv

LEMMA BatchesGo ==
  ASSUME InPlace, batchNo < BatchNum, columns' = columns, NextBatch
  PROVE  /\ phase' = "compress" /\ batchNo' \in 0..BatchNum /\ columnNo' \in 1..Len(columns)
         /\ batchNo' * Len(columns) + (columnNo' - 1) = batchNo * Len(columns) + (columnNo - 1) + 1
<1> DEFINE n == Len(columns)
<1>1. n \in Nat \ {0} /\ BatchNum \in Nat /\ batchNo \in 0..BatchNum /\ columnNo \in 1..n
  BY DataRead DEF InPlace
<1>2. /\ phase' = "compress"
      /\ columnNo' = IF columnNo = n THEN 1 ELSE columnNo + 1
      /\ batchNo' = IF columnNo = n THEN batchNo + 1 ELSE batchNo
  BY DEF NextBatch
<1> HIDE DEF n
<1>3. CASE columnNo = n
  <2>1. batchNo' = batchNo + 1 /\ columnNo' = 1 /\ (batchNo + 1) * n = batchNo * n + n /\ batchNo * n \in Nat
    BY <1>1, <1>2, <1>3
  <2>2. batchNo' * n + (columnNo' - 1) = batchNo * n + (columnNo - 1) + 1
    BY <1>1, <1>3, <2>1
  <2>3. batchNo' \in 0..BatchNum /\ columnNo' \in 1..n
    BY <1>1, <2>1
  <2> QED
    BY <1>2, <2>2, <2>3 DEF n
<1>4. CASE columnNo # n
  <2>1. batchNo' = batchNo /\ columnNo' = columnNo + 1 /\ batchNo * n \in Nat
    BY <1>1, <1>2, <1>4
  <2>2. batchNo' * n + (columnNo' - 1) = batchNo * n + (columnNo - 1) + 1
    BY <1>1, <2>1
  <2>3. batchNo' \in 0..BatchNum /\ columnNo' \in 1..n
    BY <1>1, <1>4, <2>1
  <2> QED
    BY <1>2, <2>2, <2>3 DEF n
<1> QED
  BY <1>3, <1>4

LEMMA MainInvCompress == MainInv /\ CompressBatch => MainInv'
<1> SUFFICES ASSUME MainInv, CompressBatch PROVE MainInv'
  OBVIOUS
<1> DEFINE s == Rows(columns[columnNo], batchNo)
<1>1. /\ phase = "compress" /\ batchNo < BatchNum /\ batch' = compress(s)
      /\ comDataTotal' = [naive |-> comDataTotal.naive + batch'.naive,
                          ath   |-> comDataTotal.ath + Len(batch'.result)]
      /\ valueNo' = 0 /\ ptr' = 0 /\ recovered' = << >>
      /\ (IF batch'.valid THEN phase' = "decode" /\ UNCHANGED <<batchNo, columnNo>> ELSE NextBatch)
      /\ columns' = columns /\ behind' = behind
      /\ decompressionCost' = decompressionCost /\ decompressionCost2' = decompressionCost2
      /\ \E t \in Durations : compressionCost' = Max({compressionCost, t})
  BY DEF CompressBatch
<1>2. InPlace /\ columns \in DataSets /\ Len(columns) \in Nat \ {0} /\ BatchNum \in Nat
      /\ batchNo \in 0..(BatchNum - 1) /\ columnNo \in 1..Len(columns) /\ BatchNum' = BatchNum
  BY <1>1, DataRead DEF MainInv, InPlace, BatchNum, Count
<1>3. s \in Seq(Integers64) /\ s \in Seq(Int) /\ s # << >> /\ Len(s) = BatchSize
  BY <1>2, RowsOfBatch
<1> HIDE DEF s
<1>4. BatchSize \in 1..BatchSize
  BY MainAssumption
<1>5. IsBatch(batch') /\ batch'.dataList = s /\ Walked(batch', 0, 0, << >>)
  BY <1>1, <1>3, <1>4, BatchBegins
<1>6. batch'.valid \in BOOLEAN
  BY <1>5 DEF IsBatch, CompressedAs
<1> DEFINE n == batchNo * Len(columns) + (columnNo - 1)
<1>7. n \in Nat /\ Batched = n
  <2>1. Open = 0
    BY <1>1 DEF Open
  <2>2. n \in Nat
    BY <1>2
  <2> QED
    BY <2>1, <2>2 DEF Batched
<1>8. InPlace' /\ Batched' = n + 1
  <2>1. CASE batch'.valid
    <3>1. phase' = "decode" /\ batchNo' = batchNo /\ columnNo' = columnNo /\ Open' = 1
      BY <1>1, <2>1 DEF Open
    <3>2. valueNo' < Len(batch'.dataList)
      BY <1>1, <1>3, <1>4, <1>5, MainAssumption
    <3>3. batchNo' \in 0..BatchNum' /\ batchNo' < BatchNum'
      BY <1>2, <3>1
    <3>4. InPlace'
      BY <1>1, <1>2, <2>1, <3>1, <3>2, <3>3 DEF InPlace
    <3>5. Batched' = n + 1
      BY <1>1, <3>1 DEF Batched
    <3> QED
      BY <3>4, <3>5
  <2>2. CASE ~batch'.valid
    <3>1. /\ phase' = "compress" /\ batchNo' \in 0..BatchNum /\ columnNo' \in 1..Len(columns)
          /\ batchNo' * Len(columns) + (columnNo' - 1) = n + 1
      BY <1>1, <1>2, <2>2, BatchesGo
    <3>2. Open' = 0
      BY <3>1 DEF Open
    <3>3. InPlace'
      BY <1>1, <1>2, <3>1 DEF InPlace
    <3>4. Batched' = n + 1
      BY <1>1, <1>7, <3>1, <3>2 DEF Batched
    <3> QED
      BY <3>3, <3>4
  <2> QED
    BY <1>6, <2>1, <2>2
<1>9. Total'
  <2> DEFINE w == DatumLength(DatumBit(s)) * Len(s)
             l == Len(batch'.result)
             naive == comDataTotal.naive
             ath == comDataTotal.ath
  <2>1. batch'.naive = 12 + w /\ l <= w /\ batch'.result \in Seq(Byte)
    BY <1>5 DEF IsBatch, CompressedAs
  <2>2. l \in Nat
    BY <2>1
  <2>3. w \in Nat
    <3>1. DatumBit(s) \in 1..(IntBits - 1)
      BY <1>3, WidthOfData
    <3>2. DatumLength(DatumBit(s)) \in Nat
      BY <3>1, Widths
    <3> QED
      BY <1>3, <3>2
  <2>4. naive \in Nat /\ ath \in Nat /\ ath + 12 * n <= naive
    BY <1>7 DEF MainInv, Total
  <2>5. comDataTotal'.naive = naive + (12 + w) /\ comDataTotal'.ath = ath + l
    BY <1>1, <2>1
  <2> HIDE DEF w, l, naive, ath, n
  <2>6. ath + l \in Nat /\ naive + (12 + w) \in Nat /\ (ath + l) + 12 * (n + 1) <= naive + (12 + w)
    BY <1>7, <2>1, <2>2, <2>3, <2>4
  <2> QED
    BY <1>8, <2>5, <2>6 DEF Total
<1>10. {compressionCost', decompressionCost', decompressionCost2'} \subseteq {0, 1}
  <2>1. compressionCost \in {0, 1}
    BY DEF MainInv
  <2>2. compressionCost' \in {0, 1}
    BY <1>1, <2>1, LongestCost
  <2> QED
    BY <1>1, <2>2 DEF MainInv
<1>11. valueNo' \in 0..Len(batch'.dataList) /\ Walked(batch', valueNo', ptr', recovered')
  BY <1>1, <1>3, <1>5, MainAssumption
<1> QED
  BY <1>5, <1>8, <1>9, <1>10, <1>11 DEF MainInv

LEMMA MainInvDecode == MainInv /\ DecodeValue => MainInv'
<1> SUFFICES ASSUME MainInv, DecodeValue PROVE MainInv'
  OBVIOUS
<1> DEFINE decoded == AthDecoding(Memory, batch.datumBit, batch.mode)
<1>1. /\ phase = "decode" /\ valueNo < Len(batch.dataList)
      /\ columns' = columns /\ behind' = behind /\ batch' = batch /\ comDataTotal' = comDataTotal
      /\ compressionCost' = compressionCost
      /\ \E t, u \in Durations : /\ decompressionCost' = Max({decompressionCost, t})
                                 /\ decompressionCost2' = Max({decompressionCost2, u})
  BY DEF DecodeValue
<1>2. \/ /\ ptr' = ptr + decoded.usedLength
         /\ recovered' = Append(recovered, Signed(batch.deltaMin + decoded.value))
         /\ valueNo' = valueNo + 1
         /\ IF valueNo' = Len(batch.dataList) THEN NextBatch ELSE UNCHANGED <<phase, batchNo, columnNo>>
      \/ phase' = "aborted" /\ UNCHANGED <<ptr, recovered, valueNo, batchNo, columnNo>>
  BY Zenon DEF DecodeValue
<1> HIDE DEF decoded
<1>3. /\ InPlace /\ columns \in DataSets /\ Len(columns) \in Nat \ {0} /\ BatchNum \in Nat
      /\ batchNo \in 0..BatchNum /\ batchNo < BatchNum /\ columnNo \in 1..Len(columns) /\ BatchNum' = BatchNum
      /\ batch.valid /\ behind \in Tails
  BY <1>1, DataRead DEF MainInv, InPlace, BatchNum, Count
<1>4. IsBatch(batch) /\ Len(batch.dataList) \in Nat /\ valueNo \in 0..(Len(batch.dataList) - 1)
  <2>1. IsBatch(batch) /\ valueNo \in 0..Len(batch.dataList)
    BY DEF MainInv
  <2>2. Len(batch.dataList) \in Nat
    BY <2>1, BatchFacts
  <2> QED
    BY <1>1, <2>1, <2>2
<1> DEFINE n == batchNo * Len(columns) + (columnNo - 1)
<1>5. n \in Nat /\ Batched = n + 1
  BY <1>1, <1>3 DEF Batched, Open
<1>6. {compressionCost', decompressionCost', decompressionCost2'} \subseteq {0, 1}
  <2>1. /\ compressionCost \in {0, 1} /\ decompressionCost \in {0, 1} /\ decompressionCost2 \in {0, 1}
    BY DEF MainInv
  <2>2. decompressionCost' \in {0, 1} /\ decompressionCost2' \in {0, 1}
    BY <1>1, <2>1, LongestCost
  <2> QED
    BY <1>1, <2>1, <2>2
<1>7. SUFFICES /\ InPlace' /\ Batched' = Batched
               /\ valueNo' \in 0..Len(batch.dataList) /\ Walked(batch, valueNo', ptr', recovered')
  <2>1. Total'
    BY <1>1, <1>7 DEF MainInv, Total
  <2> QED
    BY <1>1, <1>4, <1>6, <1>7, <2>1 DEF MainInv
<1>8. CASE phase' = "aborted" /\ UNCHANGED <<ptr, recovered, valueNo, batchNo, columnNo>>
  <2>1. InPlace'
    BY <1>1, <1>3, <1>8 DEF InPlace
  <2>2. Open' = 1 /\ Open = 1
    BY <1>1, <1>8 DEF Open
  <2>3. Batched' = Batched
    BY <1>1, <1>8, <2>2 DEF Batched
  <2>4. valueNo' \in 0..Len(batch.dataList) /\ Walked(batch, valueNo', ptr', recovered')
    BY <1>8 DEF MainInv
  <2> QED
    BY <2>1, <2>3, <2>4
<1>9. CASE /\ ptr' = ptr + decoded.usedLength
           /\ recovered' = Append(recovered, Signed(batch.deltaMin + decoded.value))
           /\ valueNo' = valueNo + 1
           /\ IF valueNo' = Len(batch.dataList) THEN NextBatch ELSE UNCHANGED <<phase, batchNo, columnNo>>
  <2>1. Walked(batch, valueNo + 1, ptr + decoded.usedLength,
               Append(recovered, Signed(batch.deltaMin + decoded.value)))
    <3>1. Walked(batch, valueNo, ptr, recovered)
      BY DEF MainInv
    <3> QED
      BY <1>3, <1>4, <3>1, WalkOn DEF decoded, Memory
  <2>2. valueNo' \in 0..Len(batch.dataList) /\ Walked(batch, valueNo', ptr', recovered')
    BY <1>4, <1>9, <2>1
  <2>3. CASE valueNo' = Len(batch.dataList)
    <3>1. /\ phase' = "compress" /\ batchNo' \in 0..BatchNum /\ columnNo' \in 1..Len(columns)
          /\ batchNo' * Len(columns) + (columnNo' - 1) = n + 1
      BY <1>1, <1>3, <1>9, <2>3, BatchesGo
    <3>2. Open' = 0
      BY <3>1 DEF Open
    <3>3. InPlace'
      BY <1>1, <1>3, <3>1 DEF InPlace
    <3>4. Batched' = Batched
      BY <1>1, <1>5, <3>1, <3>2 DEF Batched
    <3> QED
      BY <2>2, <3>3, <3>4
  <2>4. CASE valueNo' # Len(batch.dataList)
    <3>1. phase' = phase /\ batchNo' = batchNo /\ columnNo' = columnNo
      BY <1>9, <2>4
    <3>2. valueNo' < Len(batch.dataList)
      BY <1>4, <2>2, <2>4
    <3>3. InPlace'
      BY <1>1, <1>3, <3>1, <3>2 DEF InPlace
    <3>4. Batched' = Batched
      BY <1>1, <3>1 DEF Batched, Open
    <3> QED
      BY <2>2, <3>3, <3>4
  <2> QED
    BY <2>3, <2>4
<1> QED
  BY <1>2, <1>8, <1>9

LEMMA MainInvNext == MainInv /\ [MainNext]_mainVars => MainInv'
<1> SUFFICES ASSUME MainInv, [MainNext]_mainVars PROVE MainInv'
  OBVIOUS
<1>1. CASE CompressBatch
  BY <1>1, MainInvCompress
<1>2. CASE DecodeValue
  BY <1>2, MainInvDecode
<1>3. CASE Report
  <2>1. /\ phase = "compress" /\ phase' \in {"killed", "done"}
        /\ UNCHANGED <<columns, behind, batchNo, columnNo, valueNo, batch, ptr, recovered, comDataTotal>>
        /\ UNCHANGED <<compressionCost, decompressionCost, decompressionCost2>>
    BY <1>3 DEF Report, costs
  <2>2. InPlace'
    BY <2>1 DEF MainInv, InPlace, BatchNum, Count
  <2>3. Open = 0 /\ Open' = 0
    BY <2>1 DEF Open
  <2>4. Total'
    BY <2>1, <2>3 DEF MainInv, Total, Batched
  <2> QED
    BY <2>1, <2>2, <2>4 DEF MainInv
<1>4. CASE UNCHANGED mainVars
  BY <1>4 DEF mainVars, MainInv, InPlace, BatchNum, Count, Total, Batched, Open
<1> QED
  BY <1>1, <1>2, <1>3, <1>4 DEF MainNext

LEMMA MainInvariance == MainSpec => []MainInv
BY MainInvInit, MainInvNext, PTL DEF MainSpec

\* The counters of main stay within the data, and where codewords can be ended the pointer
\* stays within the string: no read of main begins behind its end.
THEOREM MainTypeCorrect == MainSpec => []MainTypeOK
<1>1. MainInv => MainTypeOK
  <2> SUFFICES ASSUME MainInv PROVE MainTypeOK
    OBVIOUS
  <2>1. InPlace /\ IsBatch(batch) /\ valueNo \in 0..Len(batch.dataList)
        /\ {compressionCost, decompressionCost, decompressionCost2} \subseteq {0, 1}
    BY DEF MainInv
  <2>2. columns \in DataSets /\ columnNo \in 1..Len(columns) /\ batchNo \in 0..BatchNum /\ behind \in Tails
        /\ phase \in {"compress", "decode", "done", "aborted", "killed"}
    BY <2>1 DEF InPlace
  <2>3. DOMAIN columns = 1..Len(columns) /\ \A c \in 1..Len(columns) : Len(columns[c]) = Count
    BY <2>2, DataRead
  <2>4. valueNo \in 0..BatchSize
    BY <2>1, MainAssumption DEF IsBatch
  <2>5. batch.datumBit \in 1..(IntBits - 1) /\ batch.mode \in 0..7
    BY <2>1, BatchFacts
  <2>6. batch.result \in Seq(Byte)
    BY <2>1 DEF IsBatch, CompressedAs
  <2>7. ASSUME batch.valid /\ Ended(batch) PROVE ptr \in 0..Len(batch.result)
    <3>1. ptr = Places(batch.output, batch.datumBit, batch.mode)[valueNo]
      BY <2>7 DEF MainInv, Walked
    <3> QED
      BY <2>1, <2>7, <3>1, PlacesOfBatch
  <2> QED
    BY <2>1, <2>2, <2>3, <2>4, <2>5, <2>6, <2>7 DEF MainTypeOK
<1> QED
  BY <1>1, MainInvariance, PTL

\* Coding never costs: the strings of all batches together are no longer than their naive
\* forms without the headers, at every moment and however the values are spread.
THEOREM CodingNeverLengthens == MainSpec => []NeverLarger
<1>1. MainInv => NeverLarger
  BY DEF MainInv, Total, Batched, Open, NeverLarger
<1> QED
  BY <1>1, MainInvariance, PTL

\* What main compresses it gets back, row by row and byte by byte: from the codewords, if
\* each of them can be ended, and from the bytes of a batch that was stored as it is.
THEOREM RowsComeBack == MainSpec => []RecoversTheRows
<1>1. MainInv => RecoversTheRows
  <2> SUFFICES ASSUME MainInv PROVE RecoversTheRows
    OBVIOUS
  <2>1. IsBatch(batch) /\ valueNo \in 0..Len(batch.dataList) /\ Walked(batch, valueNo, ptr, recovered)
    BY DEF MainInv
  <2>2. batch.dataList \in Seq(Int) /\ Len(batch.dataList) \in Nat /\ DOMAIN batch.dataList = 1..Len(batch.dataList)
    BY <2>1, BatchFacts
  <2>3. ASSUME Ended(batch) PROVE StringUsedUp
    <3>1. ASSUME batch.valid, valueNo = Len(batch.dataList) PROVE ptr = Len(batch.result)
      BY <2>1, <2>3, <3>1, PlacesOfBatch DEF Walked
    <3> QED
      BY <3>1 DEF StringUsedUp
  <2>4. ASSUME Ended(batch), Fits(batch) PROVE RowsDecoded
    <3>1. ASSUME batch.valid PROVE IsPrefix(recovered, batch.dataList)
      <4>1. /\ recovered \in Seq(Int) /\ Len(recovered) = valueNo
            /\ \A q \in 1..valueNo : recovered[q] = batch.dataList[q]
        BY <2>1, <2>4, <3>1 DEF Walked
      <4> DEFINE r == recovered
                 s == batch.dataList
      <4>2. r \in Seq(Int) /\ s \in Seq(Int) /\ Len(r) \in 0..Len(s) /\ \A q \in 1..Len(r) : r[q] = s[q]
        BY <2>1, <2>2, <4>1
      <4> HIDE DEF r, s
      <4>3. SubSeq(s, 1, Len(r)) = r
        BY <4>2
      <4> QED
        BY <4>2, <4>3 DEF IsPrefix, r, s
    <3> QED
      BY <3>1 DEF RowsDecoded
  <2>5. ASSUME Fits(batch) PROVE RawIsWhole
    BY <2>1, <2>2, <2>5, RawBack DEF RawIsWhole
  <2> QED
    BY <2>3, <2>4, <2>5 DEF RecoversTheRows
<1> QED
  BY <1>1, MainInvariance, PTL

----------------------------------------------------------------------------
(* The table that main looks codewords up in.                              *)

\* The table of the width and mode of a batch has been made, and is usable.
Served(b) == b.datumBit \in TableWidths /\ Usable(b.datumBit, b.mode)

LEMMA LookupHits ==
  ASSUME NEW b, IsBatch(b), b.valid, Served(b), NEW tail \in Tails, NEW p, NEW r,
         NEW k \in 0..(Len(b.dataList) - 1), Walked(b, k, p, r)
  PROVE  LET memory == SubSeq(b.result, p + 1, Len(b.result)) \o tail
         IN  Lookup(Get(CheckTables[b.mode], b.datumBit, Empty), memory, b.datumBit, b.mode)
               = {AthDecoding(memory, b.datumBit, b.mode)}
<1> DEFINE d    == b.datumBit
           mode == b.mode
           i    == k + 1
           memory == SubSeq(b.result, p + 1, Len(b.result)) \o tail
           data == b.output
<1>1. /\ data \in Seq(Nat) /\ Len(data) = Len(b.dataList) /\ Len(b.dataList) \in Nat
      /\ DOMAIN b.dataList = 1..Len(b.dataList) /\ d \in 1..64 /\ d \in 1..(IntBits - 1) /\ mode \in 0..7
      /\ b.output = Output(b.dataList)
  BY BatchFacts
<1>2. i \in 1..Len(data) /\ i - 1 = k
  BY <1>1
<1>3. Powers(d) /\ Usable(d, mode) /\ d \in TableWidths
  <2>1. \A n \in 1..(IntBits - 1) : n \in 0..Bits
    BY Widths
  <2>2. d \in 0..Bits
    BY <1>1, <2>1
  <2>3. Powers(d)
    BY <2>2, PowersUpTo
  <2> QED
    BY <2>3 DEF Served
<1>4. \A n \in 1..Len(data) : data[n] \in Nat
  BY <1>1
<1>5. b.result = AthStr(data, d, mode)
  BY <1>1 DEF IsBatch, CompressedAs
<1>6. tail \in Seq(Byte) /\ Len(tail) >= 3
  BY MainAssumption
<1>7. Get(CheckTables[mode], d, Empty) = TableOf(d, mode)
  BY <1>1, <1>3 DEF CheckTables, Get
<1>8. Ended(b)
  <2> HIDE DEF d, mode, data
  <2>1. \A n \in 1..Len(data) : Ends(data[n], d, mode)
    BY <1>1, <1>3, <1>4, AllEnd
  <2> QED
    BY <1>1, <2>1 DEF Ended, d, mode, data
<1>9. p = Places(data, d, mode)[k]
  BY <1>8 DEF Walked
<1>10. memory = MemoryAt(data, d, mode, i, tail)
  BY <1>2, <1>5, <1>9 DEF MemoryAt
<1> HIDE DEF memory, d, mode, data, i
<1>11. data[i] \in Nat /\ Starts(memory, data[i], d, mode)
  BY <1>1, <1>2, <1>4, <1>6, <1>10, CodewordStarts
<1>12. Lookup(TableOf(d, mode), memory, d, mode) = {AthDecoding(memory, d, mode)}
  BY <1>1, <1>3, <1>11, TableDecodes
<1> QED
  BY <1>7, <1>12 DEF memory, d, mode

\* The assertions of main hold: where the table of the width and mode has been loaded and is
\* usable, the lookup of every codeword finds the value and the length that AthDecoding does.
THEOREM LookupsAgree == MainSpec => [](Served(batch) => LookupAgrees)
<1> DEFINE Agrees == Served(batch) => phase # "aborted"
<1>1. MainInit => Agrees
  BY DEF MainInit
<1>2. MainInv /\ Agrees /\ [MainNext]_mainVars => Agrees'
  <2> SUFFICES ASSUME MainInv, Agrees, [MainNext]_mainVars, phase' = "aborted"
               PROVE  ~Served(batch)'
    OBVIOUS
  <2>1. CASE CompressBatch
    <3>1. phase' = "decode" \/ phase' = "compress"
      BY <2>1 DEF CompressBatch, NextBatch
    <3> QED
      BY <3>1
  <2>2. CASE DecodeValue
    <3>1. /\ phase = "decode" /\ valueNo < Len(batch.dataList) /\ batch' = batch
          /\ Lookup(TableInUse, Memory, batch.datumBit, batch.mode)
               # {AthDecoding(Memory, batch.datumBit, batch.mode)}
      BY <2>2 DEF DecodeValue, NextBatch
    <3>2. IsBatch(batch) /\ valueNo \in 0..Len(batch.dataList) /\ Walked(batch, valueNo, ptr, recovered)
      BY DEF MainInv
    <3>3. batch.valid /\ behind \in Tails
      BY <3>1 DEF MainInv, InPlace
    <3>4. valueNo \in 0..(Len(batch.dataList) - 1)
      <4>1. Len(batch.dataList) \in Nat
        BY <3>2, BatchFacts
      <4> QED
        BY <3>1, <3>2, <4>1
    <3>5. ~Served(batch)
      BY <3>1, <3>2, <3>3, <3>4, LookupHits DEF TableInUse, Memory
    <3> QED
      BY <3>1, <3>5 DEF Served
  <2>3. CASE Report
    BY <2>3 DEF Report
  <2>4. CASE UNCHANGED mainVars
    BY <2>4 DEF mainVars, Served
  <2> QED
    BY <2>1, <2>2, <2>3, <2>4 DEF MainNext
<1>3. Agrees => (Served(batch) => LookupAgrees)
  BY DEF Served, LookupAgrees
<1> HIDE DEF Agrees
<1> QED
  BY <1>1, <1>2, <1>3, MainInvariance, PTL DEF MainSpec

----------------------------------------------------------------------------
(* An object that is asked again: the bits that getMode counts.            *)

\* The ones among the bits first to end - 1 of the data.
Ones(data, first, end) ==
  {p \in (DOMAIN data) \X (first..(end - 1)) : (data[p[1]] \div 2^p[2]) % 2 = 1}

LEMMA OnesFinite ==
  ASSUME NEW data \in Seq(Nat), NEW first \in Int, NEW end \in Int
  PROVE  /\ IsFiniteSet(Ones(data, first, end)) /\ Cardinality(Ones(data, first, end)) \in Nat
         /\ Ones(data, first, end) \subseteq (1..Len(data)) \X (first..(end - 1))
<1>1. DOMAIN data = 1..Len(data) /\ Len(data) \in Nat
  OBVIOUS
<1>2. IsFiniteSet(1..Len(data)) /\ IsFiniteSet(first..(end - 1))
  <2>1. end - 1 \in Int /\ 1 \in Int /\ Len(data) \in Int
    BY <1>1
  <2> QED
    BY <2>1, FS_Interval
<1>3. IsFiniteSet((1..Len(data)) \X (first..(end - 1)))
  BY <1>2, FS_Product
<1>4. Ones(data, first, end) \in SUBSET ((1..Len(data)) \X (first..(end - 1)))
  BY <1>1 DEF Ones
<1>5. IsFiniteSet(Ones(data, first, end))
  BY <1>3, <1>4, FS_Subset
<1> QED
  BY <1>4, <1>5, FS_CardinalityType

\* The ones of two sequences of data add up in their concatenation.
LEMMA OnesAdd ==
  ASSUME NEW a \in Seq(Nat), NEW b \in Seq(Nat), NEW first \in Int, NEW end \in Int
  PROVE  Cardinality(Ones(a \o b, first, end)) =
           Cardinality(Ones(a, first, end)) + Cardinality(Ones(b, first, end))
<1> DEFINE n == Len(a)
           J == first..(end - 1)
           A == Ones(a, first, end)
           B == Ones(b, first, end)
           C == Ones(a \o b, first, end)
           M == {p \in C : p[1] > n}
           f == [p \in B |-> <<p[1] + n, p[2]>>]
           ab == a \o b
<1>1. ab \in Seq(Nat) /\ Concatenates(ab, a, b)
  BY Concatenation
<1>2. /\ n \in Nat /\ Len(b) \in Nat
      /\ DOMAIN a = 1..n /\ DOMAIN b = 1..Len(b) /\ DOMAIN ab = 1..(n + Len(b))
      /\ \A q \in 1..n : ab[q] = a[q]
      /\ \A q \in 1..Len(b) : ab[n + q] = b[q]
  BY <1>1 DEF Concatenates
<1>3. /\ \A p : p \in A <=> p \in (1..n) \X J /\ (a[p[1]] \div 2^p[2]) % 2 = 1
      /\ \A p : p \in B <=> p \in (1..Len(b)) \X J /\ (b[p[1]] \div 2^p[2]) % 2 = 1
      /\ \A p : p \in C <=> p \in (1..(n + Len(b))) \X J /\ (ab[p[1]] \div 2^p[2]) % 2 = 1
  BY <1>2 DEF Ones
<1>4. /\ IsFiniteSet(A) /\ IsFiniteSet(B) /\ IsFiniteSet(C)
      /\ Cardinality(A) \in Nat /\ Cardinality(B) \in Nat
  BY <1>1, OnesFinite
<1> HIDE DEF A, B, C, ab, n, J
<1>5. C = A \cup M /\ A \cap M = {}
  <2>1. \A p \in A : p[1] \in 1..n /\ p \in (1..(n + Len(b))) \X J /\ ab[p[1]] = a[p[1]]
    BY <1>2, <1>3
  <2>2. A \subseteq C
    BY <1>3, <2>1
  <2>3. \A p \in A : ~(p[1] > n)
    BY <1>2, <2>1
  <2>4. ASSUME NEW p \in C, ~(p[1] > n) PROVE p \in A
    <3>1. p \in (1..(n + Len(b))) \X J /\ (ab[p[1]] \div 2^p[2]) % 2 = 1
      BY <1>3
    <3>2. p[1] \in 1..n /\ p \in (1..n) \X J
      BY <1>2, <2>4, <3>1
    <3> QED
      BY <1>2, <1>3, <3>1, <3>2
  <2> QED
    BY <2>2, <2>3, <2>4
<1>6. f \in Bijection(B, M)
  <2>1. ASSUME NEW p \in B PROVE f[p] = <<p[1] + n, p[2]>> /\ f[p] \in M /\ p = <<p[1], p[2]>> /\ p[1] \in Nat
    <3>1. p \in (1..Len(b)) \X J /\ (b[p[1]] \div 2^p[2]) % 2 = 1
      BY <1>3
    <3>2. p[1] \in 1..Len(b) /\ p[2] \in J /\ p = <<p[1], p[2]>>
      BY <3>1
    <3> DEFINE i == p[1]
               j == p[2]
               e == <<i + n, j>>
    <3>3. i \in 1..Len(b) /\ j \in J
      BY <3>2
    <3>4. ab[i + n] = b[i]
      <4>1. i + n = n + i
        BY <1>2, <3>3
      <4> QED
        BY <1>2, <3>3, <4>1
    <3>5. (b[i] \div 2^j) % 2 = 1
      BY <3>1
    <3> HIDE DEF i, j
    <3>6. e[1] = i + n /\ e[2] = j /\ e \in (1..(n + Len(b))) \X J /\ e[1] > n /\ i \in Nat
      BY <1>2, <3>3
    <3>7. (ab[e[1]] \div 2^e[2]) % 2 = 1
      BY <3>4, <3>5, <3>6
    <3> HIDE DEF e
    <3>8. e \in M
      BY <1>3, <3>6, <3>7
    <3> QED
      BY <3>2, <3>6, <3>8 DEF e, i, j
  <2>2. f \in [B -> M]
    BY <2>1
  <2>3. ASSUME NEW p \in B, NEW q \in B, f[p] = f[q] PROVE p = q
    <3>1. p[1] + n = q[1] + n /\ p[2] = q[2]
      BY <2>1, <2>3
    <3>2. p[1] \in Nat /\ q[1] \in Nat /\ p = <<p[1], p[2]>> /\ q = <<q[1], q[2]>>
      BY <2>1
    <3>3. \A x \in Nat : \A y \in Nat : x + n = y + n => x = y
      BY <1>2
    <3>4. p[1] = q[1]
      BY <3>1, <3>2, <3>3
    <3> QED
      BY <3>1, <3>2, <3>4, Zenon
  <2>4. ASSUME NEW e \in M PROVE \E p \in B : f[p] = e
    <3> DEFINE i == e[1] - n
               j == e[2]
    <3>1. e \in (1..(n + Len(b))) \X J /\ (ab[e[1]] \div 2^e[2]) % 2 = 1 /\ e[1] > n
      BY <1>3
    <3>2. e = <<i + n, j>> /\ i \in 1..Len(b) /\ j \in J /\ e[1] = n + i
      BY <1>2, <3>1
    <3>3. (ab[n + i] \div 2^j) % 2 = 1
      BY <3>1, <3>2
    <3> HIDE DEF i, j
    <3>4. (b[i] \div 2^j) % 2 = 1
      BY <1>2, <3>2, <3>3
    <3> DEFINE p == <<i, j>>
    <3>5. p[1] = i /\ p[2] = j /\ p \in (1..Len(b)) \X J
      BY <3>2
    <3>6. p \in B
      BY <1>3, <3>4, <3>5
    <3>7. f[p] = e
      BY <3>2, <3>5, <3>6
    <3> QED
      BY <3>6, <3>7
  <2> HIDE DEF f
  <2> QED
    BY <2>2, <2>3, <2>4, Fun_IsBij
<1>7. IsFiniteSet(M) /\ Cardinality(M) = Cardinality(B)
  BY <1>4, <1>6, FS_Bijection DEF ExistsBijection
<1> HIDE DEF M, f
<1>8. Cardinality(C) = Cardinality(A) + Cardinality(M) - Cardinality(A \cap M)
  BY <1>4, <1>5, <1>7, FS_Union
<1>9. Cardinality(A \cap M) = 0
  BY <1>5, FS_EmptySet
<1> QED
  BY <1>4, <1>7, <1>8, <1>9 DEF A, B, C, ab

\* out is k copies of o, as far as getMode and the encoders can tell.
RepeatsOf(out, o, k) ==
  /\ out \in Seq(Nat) /\ Len(out) = k * Len(o)
  /\ k > 0 => \A q \in 1..Len(o) : out[q] = o[q]
  /\ \A first, end \in Int : Cardinality(Ones(out, first, end)) = k * Cardinality(Ones(o, first, end))

LEMMA RepeatsNone ==
  ASSUME NEW o \in Seq(Nat) PROVE RepeatsOf(<< >>, o, 0)
<1>1. << >> \in Seq(Nat) /\ Len(<< >>) = 0 /\ 0 * Len(o) = 0
  OBVIOUS
<1>2. ASSUME NEW first \in Int, NEW end \in Int
      PROVE  Cardinality(Ones(<< >>, first, end)) = 0 * Cardinality(Ones(o, first, end))
  <2>1. Ones(<< >>, first, end) = {}
    BY DEF Ones
  <2> DEFINE c == Cardinality(Ones(o, first, end))
  <2>2. c \in Nat
    BY OnesFinite
  <2> HIDE DEF c
  <2>3. 0 * c = 0
    BY <2>2
  <2>4. Cardinality(Ones(<< >>, first, end)) = 0
    BY <2>1, FS_EmptySet
  <2> QED
    BY <2>3, <2>4 DEF c
<1> QED
  BY <1>1, <1>2 DEF RepeatsOf

LEMMA RepeatsAgain ==
  ASSUME NEW o \in Seq(Nat), NEW k \in Nat, NEW out, RepeatsOf(out, o, k)
  PROVE  RepeatsOf(out \o o, o, k + 1)
<1> DEFINE n == Len(o)
           more == out \o o
<1>1. out \in Seq(Nat) /\ Len(out) = k * n /\ n \in Nat
  BY DEF RepeatsOf
<1>2. more \in Seq(Nat) /\ Concatenates(more, out, o)
  BY <1>1, Concatenation
<1>3. Len(more) = (k + 1) * n
  <2>1. (k + 1) * n = k * n + n
    BY <1>1
  <2> QED
    BY <1>1, <1>2, <2>1 DEF Concatenates
<1>4. \A q \in 1..n : more[q] = o[q]
  <2>1. CASE k = 0
    <3>1. Len(out) = 0
      BY <1>1, <2>1
    <3>2. \A q \in 1..n : 0 + q = q
      BY <1>1
    <3> QED
      BY <1>2, <3>1, <3>2 DEF Concatenates
  <2>2. CASE k > 0
    <3>1. n <= k * n
      <4>1. 1 \in Int /\ k \in Int /\ 1 <= k
        BY <2>2
      <4> HIDE DEF n
      <4>2. 1 * n <= k * n
        BY <1>1, <4>1, MulMono
      <4> QED
        BY <1>1, <4>2
    <3>2. \A q \in 1..n : q \in 1..Len(out)
      BY <1>1, <3>1
    <3> QED
      BY <1>2, <2>2, <3>2 DEF Concatenates, RepeatsOf
  <2> QED
    BY <2>1, <2>2
<1>5. ASSUME NEW first \in Int, NEW end \in Int
      PROVE  Cardinality(Ones(more, first, end)) = (k + 1) * Cardinality(Ones(o, first, end))
  <2> DEFINE c == Cardinality(Ones(o, first, end))
             x == Cardinality(Ones(out, first, end))
  <2>1. Cardinality(Ones(more, first, end)) = x + c
    BY <1>1, OnesAdd
  <2>2. x = k * c
    BY DEF RepeatsOf
  <2>3. c \in Nat
    BY OnesFinite
  <2> HIDE DEF c, x, more
  <2>4. Cardinality(Ones(more, first, end)) = (k + 1) * c
    BY <2>1, <2>2, <2>3
  <2> QED
    BY <2>4 DEF c
<1> QED
  BY <1>2, <1>3, <1>4, <1>5 DEF RepeatsOf

\* Copies have the majorities of the original.
LEMMA SameMode ==
  ASSUME NEW o \in Seq(Nat), o # << >>, NEW k \in Nat \ {0}, NEW out, RepeatsOf(out, o, k),
         NEW d \in 1..64
  PROVE  getMode(out, d) = getMode(o, d)
<1>1. ASSUME NEW first \in Int, NEW end \in Int
      PROVE  MostlyOnes(out, first, end) <=> MostlyOnes(o, first, end)
  <2> DEFINE c == Cardinality(Ones(o, first, end))
             x == Cardinality(Ones(out, first, end))
             n == Len(o)
             l == Len(out)
             w == end - first
  <2>1. (MostlyOnes(out, first, end) <=> x * 2 > w * l) /\ (MostlyOnes(o, first, end) <=> c * 2 > w * n)
    BY DEF MostlyOnes, Ones
  <2>2. x = k * c /\ l = k * n
    BY DEF RepeatsOf
  <2>3. c \in Nat /\ n \in Nat /\ w \in Int
    BY OnesFinite
  <2> HIDE DEF c, x, n, l, w
  <2> DEFINE u == c * 2
             v == w * n
  <2>4. u \in Int /\ v \in Int /\ x * 2 = k * u /\ w * l = k * v
    BY <2>2, <2>3
  <2> HIDE DEF u, v
  <2>5. k * u > k * v <=> u > v
    <3>1. u <= v => u * k <= v * k
      BY <2>4, MulMono
    <3>2. v + 1 <= u => (v + 1) * k <= u * k
      BY <2>4, MulMono
    <3>3. u * k = k * u /\ v * k = k * v /\ (v + 1) * k = k * v + k /\ k * u \in Int /\ k * v \in Int
      BY <2>4
    <3> QED
      BY <2>4, <3>1, <3>2, <3>3
  <2> QED
    BY <2>1, <2>4, <2>5 DEF u, v
<1>2. SegSize(d) \in Int /\ 2 * SegSize(d) \in Int /\ 0 \in Int /\ d \in Int
  BY DEF SegSize
<1>3. /\ MostlyOnes(out, 0, SegSize(d)) <=> MostlyOnes(o, 0, SegSize(d))
      /\ MostlyOnes(out, SegSize(d), 2 * SegSize(d)) <=> MostlyOnes(o, SegSize(d), 2 * SegSize(d))
      /\ MostlyOnes(out, 2 * SegSize(d), d) <=> MostlyOnes(o, 2 * SegSize(d), d)
  BY <1>1, <1>2
<1> QED
  BY <1>3 DEF getMode

\* What a call leaves and returns, but for the differences of all calls.
Answer(b) == [b EXCEPT !.output = << >>]

LEMMA AnswerIs ==
  ASSUME NEW m, NEW coded
  PROVE  Answer(Returned(m, coded)) =
           [dataList |-> m.dataList, output |-> << >>, deltaMin |-> m.deltaMin,
            deltaMax |-> m.deltaMax, datumBit |-> m.datumBit, datumLength |-> m.datumLength,
            mode |-> m.mode, naive |-> m.naive, result |-> coded.result, valid |-> coded.valid]
BY DEF Answer, Returned

\* A call after calls for the same data answers as the first.
LEMMA AnswersTheSame ==
  ASSUME NEW s \in Seq(Int), s # << >>, NEW k \in Nat, NEW earlier, RepeatsOf(earlier, Output(s), k)
  PROVE  Answer(compressAfter(earlier, s)) = Answer(compress(s))
<1> DEFINE o == Output(s)
           m == Measured(earlier, s)
           m1 == Measured(<< >>, s)
           d == DatumBit(s)
<1>1. o \in Seq(Nat) /\ Len(o) = Len(s) /\ o # << >> /\ Len(s) \in Nat
  <2>1. o \in Seq(Nat) /\ Len(o) = Len(s) /\ Len(s) # 0 /\ Len(s) \in Nat
    BY Differences
  <2> QED
    BY <2>1
<1>2. d \in 1..64
  <2>1. \A x \in 1..(IntBits - 1) : x \in 1..64
    BY Widths
  <2> QED
    BY <2>1, WidthOfData
<1>3. RepeatsOf(earlier \o o, o, k + 1) /\ RepeatsOf(<< >> \o o, o, 1)
  <2>1. RepeatsOf(earlier \o o, o, k + 1)
    BY <1>1, RepeatsAgain
  <2>2. RepeatsOf(<< >> \o o, o, 0 + 1)
    BY <1>1, RepeatsNone, RepeatsAgain
  <2> QED
    BY <2>1, <2>2
<1>4. getMode(earlier \o o, d) = getMode(o, d) /\ getMode(<< >> \o o, d) = getMode(o, d)
  <2>1. k + 1 \in Nat \ {0} /\ 1 \in Nat \ {0}
    OBVIOUS
  <2> HIDE DEF o, d
  <2> QED
    BY <1>1, <1>2, <1>3, <2>1, SameMode
<1>5. /\ m.dataList = s /\ m.output = earlier \o o /\ m.deltaMin = DeltaMin(s) /\ m.deltaMax = DeltaMax(s)
      /\ m.datumBit = d /\ m.datumLength = DatumLength(d) /\ m.mode = getMode(earlier \o o, d)
      /\ m.naive = NaiveSize(s, d)
  BY DEF Measured, Outputs
<1>6. /\ m1.dataList = s /\ m1.output = << >> \o o /\ m1.deltaMin = DeltaMin(s) /\ m1.deltaMax = DeltaMax(s)
      /\ m1.datumBit = d /\ m1.datumLength = DatumLength(d) /\ m1.mode = getMode(<< >> \o o, d)
      /\ m1.naive = NaiveSize(s, d)
  BY DEF Measured, Outputs
<1>7. ASSUME NEW out, NEW j \in Nat \ {0}, RepeatsOf(out, o, j)
      PROVE  SubSeq(out, 1, Len(s)) = o
  <2>1. out \in Seq(Nat) /\ Len(out) = j * Len(o) /\ \A q \in 1..Len(o) : out[q] = o[q]
    BY <1>7 DEF RepeatsOf
  <2> HIDE DEF o
  <2>2. Len(s) <= Len(out)
    <3>1. 1 * Len(o) <= j * Len(o)
      BY <1>1, MulMono
    <3> QED
      BY <1>1, <2>1, <3>1
  <2> QED
    BY <1>1, <2>1, <2>2
<1>8. Encoded(m) = o /\ Encoded(m1) = o
  <2>1. k + 1 \in Nat \ {0} /\ 1 \in Nat \ {0}
    OBVIOUS
  <2>2. SubSeq(earlier \o o, 1, Len(s)) = o /\ SubSeq(<< >> \o o, 1, Len(s)) = o
    BY <1>3, <1>7, <2>1
  <2> HIDE DEF m, m1, o
  <2> QED
    BY <1>5, <1>6, <2>2 DEF Encoded
<1> HIDE DEF m, m1, o, d
<1>9. /\ compressAfter(earlier, s) = Returned(m, Coded(o, d, m.mode))
      /\ compress(s) = Returned(m1, Coded(o, d, m1.mode))
  <2>1. compressAfter(earlier, s) = Returned(m, Coded(Encoded(m), m.datumBit, m.mode))
    BY DEF compressAfter, m
  <2>2. compress(s) = Returned(m1, Coded(Encoded(m1), m1.datumBit, m1.mode))
    BY DEF compress, compressAfter, m1
  <2> QED
    BY <1>5, <1>6, <1>8, <2>1, <2>2
<1>10. m.mode = m1.mode
  BY <1>4, <1>5, <1>6
<1> QED
  BY <1>5, <1>6, <1>9, <1>10, AnswerIs

----------------------------------------------------------------------------
(* An object and its calls.                                                *)

\* The inductive invariant: while no data are added between calls, output repeats their
\* differences, and compress has answered what a first call would.
ObjectInv ==
  /\ dataList \in Seq(Integers64) /\ calls \in Nat
  /\ dataList = << >> => calls = 0
  /\ calls = 0 => output = << >> /\ last \notin {"compress", "compress2"}
  /\ ~mixed /\ calls > 0 => RepeatsOf(output, Output(dataList), calls)
  /\ ~mixed /\ last = "compress" => Answer(comData) = Answer(compress(dataList))

LEMMA DataAreInt ==
  ASSUME NEW s \in Seq(Integers64) PROVE s \in Seq(Int)
<1>1. Len(s) \in Nat /\ s = [i \in 1..Len(s) |-> s[i]] /\ \A i \in 1..Len(s) : s[i] \in Integers64
  OBVIOUS
<1>2. \A i \in 1..Len(s) : s[i] \in Int
  BY <1>1, IntegersAreInt
<1> QED
  BY <1>1, <1>2, FunctionIsSeq

LEMMA ObjectCall ==
  ASSUME ObjectInv, NEW name, NEW object, Called(name, object), name \in {"compress", "compress2"},
         object.output = output \o Output(dataList),
         name = "compress" => object = compressAfter(output, dataList)
  PROVE  ObjectInv'
<1>1. /\ dataList # << >> /\ output' = object.output /\ comData' = object /\ last' = name
      /\ calls' = calls + 1 /\ dataList' = dataList /\ mixed' = mixed
  BY DEF Called
<1>2. dataList \in Seq(Int) /\ Output(dataList) \in Seq(Nat)
  BY <1>1, DataAreInt, Differences DEF ObjectInv
<1>3. calls \in Nat
  BY DEF ObjectInv
<1>4. ASSUME ~mixed PROVE RepeatsOf(output, Output(dataList), calls)
  <2>1. CASE calls = 0
    BY <1>2, <2>1, RepeatsNone DEF ObjectInv
  <2>2. CASE calls > 0
    BY <1>4, <2>2 DEF ObjectInv
  <2> QED
    BY <1>3, <2>1, <2>2
<1>5. ASSUME ~mixed PROVE RepeatsOf(output', Output(dataList'), calls')
  BY <1>1, <1>2, <1>3, <1>4, <1>5, RepeatsAgain
<1>6. ASSUME ~mixed, name = "compress" PROVE Answer(comData') = Answer(compress(dataList'))
  BY <1>1, <1>2, <1>3, <1>4, <1>6, AnswersTheSame
<1>7. calls' \in Nat /\ calls' # 0
  BY <1>1, <1>3
<1> QED
  BY <1>1, <1>5, <1>6, <1>7 DEF ObjectInv

LEMMA ObjectInvInit == Init => ObjectInv
BY DEF Init, ObjectInv

LEMMA ObjectInvNext == ObjectInv /\ [Next]_vars => ObjectInv'
<1> SUFFICES ASSUME ObjectInv, [Next]_vars PROVE ObjectInv'
  OBVIOUS
<1>1. CASE addData
  <2>1. PICK datum \in Data : dataList' = Append(dataList, datum)
    BY <1>1 DEF addData
  <2>2. last' = "addData" /\ mixed' = (calls > 0) /\ output' = output /\ comData' = comData /\ calls' = calls
    BY <1>1 DEF addData
  <2>3. datum \in Integers64
    BY ObjectAssumption DEF Integers64, Half
  <2>4. dataList \in Seq(Integers64) /\ calls \in Nat
    BY DEF ObjectInv
  <2>5. dataList' \in Seq(Integers64) /\ dataList' # << >>
    <3> DEFINE S == Integers64
    <3>1. dataList \in Seq(S) /\ datum \in S
      BY <2>3, <2>4
    <3> HIDE DEF S
    <3>2. \A s \in Seq(S) : \A x \in S : Append(s, x) \in Seq(S) /\ Len(Append(s, x)) = Len(s) + 1 /\ Len(s) \in Nat
      OBVIOUS
    <3>3. \A n \in Nat : n + 1 # 0
      OBVIOUS
    <3>4. Append(dataList, datum) \in Seq(S) /\ Len(Append(dataList, datum)) # 0
      BY <3>1, <3>2, <3>3
    <3>5. Append(dataList, datum) # << >>
      <4>1. Len(<< >>) = 0
        OBVIOUS
      <4> QED
        BY <3>4, <4>1, Zenon
    <3> QED
      BY <2>1, <3>4, <3>5 DEF S
  <2> QED
    BY <2>2, <2>4, <2>5 DEF ObjectInv
<1>2. CASE Compress
  <2>1. Called("compress", compressAfter(output, dataList))
    BY <1>2 DEF Compress
  <2>2. compressAfter(output, dataList).output = output \o Output(dataList)
    BY DEF compressAfter, Measured, Returned, Outputs
  <2> QED
    BY <2>1, <2>2, ObjectCall
<1>3. CASE Compress2
  <2>1. Called("compress2", compress2After(output, dataList, CheckTables))
    BY <1>3 DEF Compress2
  <2>2. compress2After(output, dataList, CheckTables).output = output \o Output(dataList)
    BY DEF compress2After, Measured, Returned, Outputs
  <2> QED
    BY <2>1, <2>2, ObjectCall
<1>4. CASE UNCHANGED vars
  BY <1>4 DEF vars, ObjectInv
<1> QED
  BY <1>1, <1>2, <1>3, <1>4 DEF Next

\* Asked again without new data, compress answers the same string, width and mode, though
\* it appends the differences again and getMode counts all of them.
THEOREM AnswersRepeat == Spec => Repeatable
<1>1. ObjectInv /\ ObjectInv' /\ [Next]_vars =>
        [last = "compress" /\ last' = "compress" /\ ~mixed /\ calls' # calls =>
           [comData' EXCEPT !.output = << >>] = [comData EXCEPT !.output = << >>]]_vars
  <2> SUFFICES ASSUME ObjectInv, ObjectInv', [Next]_vars,
                      last = "compress", last' = "compress", ~mixed, calls' # calls
               PROVE  Answer(comData') = Answer(comData)
    BY DEF Answer
  <2>1. calls \in Nat /\ calls > 0
    BY DEF ObjectInv
  <2>2. dataList' = dataList /\ mixed' = mixed
    BY <2>1 DEF Next, addData, Compress, Compress2, Called, vars
  <2> QED
    BY <2>2 DEF ObjectInv
<1>2. Spec => []ObjectInv
  BY ObjectInvInit, ObjectInvNext, PTL DEF Spec
<1> QED
  BY <1>1, <1>2, PTL DEF Spec, Repeatable

----------------------------------------------------------------------------
(* The strings of compress2, whose codewords are cut.                      *)

\* What compress2 keeps of the codeword of v, and what a lookup finds where it begins: the
\* value, and how much of memory was kept of it.
ShortWord(v, d, mode) == Shortened(AthEncoding(v, d, mode), TableOf(d, mode))
ShortFound(memory, v, d, mode) ==
  LET one == [value |-> v, usedLength |-> Len(AthEncoding(v, d, mode))]
  IN  /\ Lookup(TableOf(d, mode), memory, d, mode) = {one}
      /\ ShortLength(one, TableOf(d, mode), memory) = Len(ShortWord(v, d, mode))

LEMMA TwoAtMost ==
  ASSUME NEW l \in Nat \ {0}
  PROVE  Min({2, l}) = IF l = 1 THEN 1 ELSE 2
<1>1. Min({2, l}) \in {2, l} /\ \A y \in {2, l} : Min({2, l}) <= y
  <2>1. \E x \in {2, l} : \A y \in {2, l} : x <= y
    OBVIOUS
  <2> QED
    BY <2>1 DEF Min
<1> QED
  BY <1>1

\* The lookup of a whole codeword finds the value and its length.
LEMMA WholeFound ==
  ASSUME NEW d \in 1..64, NEW mode, Powers(d), Usable(d, mode), NEW v \in Nat, FitsIn(v, d),
         NEW memory, Starts(memory, v, d, mode)
  PROVE  Lookup(TableOf(d, mode), memory, d, mode)
           = {[value |-> v, usedLength |-> Len(AthEncoding(v, d, mode))]}
<1>1. Ends(v, d, mode)
  BY AllEnd
<1>2. AthDecoding(memory, d, mode) = [value |-> v, usedLength |-> Len(AthEncoding(v, d, mode))]
  BY <1>1, CallsRoundTrip DEF Starts
<1> QED
  BY <1>2, TableDecodes

\* What is kept of a codeword tells as much as all of it, whatever lies behind.
LEMMA WordTells ==
  ASSUME NEW d \in 1..64, NEW mode, Powers(d), Usable(d, mode), NEW v \in Nat, FitsIn(v, d)
  PROVE  /\ ShortWord(v, d, mode) \in Seq(Byte)
         /\ \A memory \in Seq(Byte) :
              Begins(memory, ShortWord(v, d, mode)) /\ Len(memory) >= Len(ShortWord(v, d, mode)) + 3
                => ShortFound(memory, v, d, mode)
<1> DEFINE code  == AthEncoding(v, d, mode)
           table == TableOf(d, mode)
           full  == code \o <<0, 0, 0>>
           more  == code \o <<0>>
           node  == Get(table, code[1], NewNode)
           state == EntryFor(node, more)
           cut   == ~node.end /\ state.end /\ state.length > 2
           word  == ShortWord(v, d, mode)
           one   == [value |-> v, usedLength |-> Len(code)]
<1>1. code \in Seq(Byte) /\ Len(code) \in Nat \ {0}
  <2>1. Ends(v, d, mode)
    BY AllEnd
  <2>2. \A l \in Nat : l > 0 => l \in Nat \ {0}
    OBVIOUS
  <2> QED
    BY <2>1, <2>2, CodewordType
<1>0. /\ 1 \in 1..Len(code) /\ (Len(code) # 1 => 2 \in 1..Len(code))
      /\ (Len(code) > 2 => Len(code) # 1) /\ (Len(code) # 1 /\ ~(Len(code) > 2) => Len(code) = 2)
  <2>1. \A l \in Nat \ {0} : /\ 1 \in 1..l /\ (l # 1 => 2 \in 1..l)
                            /\ (l > 2 => l # 1) /\ (l # 1 /\ ~(l > 2) => l = 2)
    OBVIOUS
  <2> QED
    BY <1>1, <2>1
<1>2. word = IF cut THEN SubSeq(code, 1, 2) ELSE code
  BY DEF ShortWord, Shortened
<1>3. \A s : s \in Seq(Byte) /\ Begins(s, code) /\ Len(s) >= Len(code) + 3 =>
        Lookup(table, s, d, mode) = {one}
  BY WholeFound DEF Starts
<1>4. \A s : Lookup(table, s, d, mode) =
        IF Get(table, s[1], NewNode).end
          THEN {[value |-> Get(table, s[1], NewNode).value, usedLength |-> 1]}
          ELSE IF EntryFor(Get(table, s[1], NewNode), s).end
                 THEN {[value |-> EntryFor(Get(table, s[1], NewNode), s).value,
                        usedLength |-> EntryFor(Get(table, s[1], NewNode), s).length]}
                 ELSE AthDecoding_fast(
                        SubSeq(s, EntryFor(Get(table, s[1], NewNode), s).prebuildState.usedLength + 1, Len(s)),
                        d, EntryFor(Get(table, s[1], NewNode), s).prebuildState, mode)
  BY DEF Lookup
<1>5. \A s : ShortLength(one, table, s) =
        IF ~Get(table, s[1], NewNode).end /\ EntryFor(Get(table, s[1], NewNode), s).end
          THEN Min({2, Len(code)}) ELSE Len(code)
  BY DEF ShortLength
<1>6. \A s, t : s[2] = t[2] => EntryFor(node, s) = EntryFor(node, t)
  BY DEF EntryFor
<1>7. Min({2, Len(code)}) = IF Len(code) = 1 THEN 1 ELSE 2
  BY <1>1, TwoAtMost
<1>8. \A memory : ShortFound(memory, v, d, mode) <=>
        Lookup(table, memory, d, mode) = {one} /\ ShortLength(one, table, memory) = Len(word)
  BY DEF ShortFound
<1> HIDE DEF code, table, node, word
<1>9. /\ full \in Seq(Byte) /\ Begins(full, code) /\ Len(full) >= Len(code) + 3
      /\ full[1] = code[1] /\ full[2] = more[2] /\ (Len(code) # 1 => more[2] = code[2])
  <2>1. 0 \in Byte
    BY BaseAssumption DEF Byte
  <2>2. <<0, 0, 0>> \in Seq(Byte) /\ <<0>> \in Seq(Byte)
    BY <2>1
  <2>3. full \in Seq(Byte) /\ Concatenates(full, code, <<0, 0, 0>>) /\ Concatenates(more, code, <<0>>)
    BY <1>1, <2>2, Concatenation
  <2>4. full \in Seq(Byte) /\ Begins(full, code) /\ Len(full) >= Len(code) + 3
    BY <1>1, <2>3 DEF Concatenates, Begins
  <2>6. full[1] = code[1] /\ (Len(code) # 1 => full[2] = code[2] /\ more[2] = code[2])
    BY <1>0, <2>3 DEF Concatenates
  <2>7. Len(code) = 1 => full[2] = 0 /\ more[2] = 0
    <3>1. 1 \in 1..Len(<<0, 0, 0>>) /\ 1 \in 1..Len(<<0>>) /\ <<0, 0, 0>>[1] = 0 /\ <<0>>[1] = 0 /\ 1 + 1 = 2
      OBVIOUS
    <3>2. full[Len(code) + 1] = <<0, 0, 0>>[1] /\ more[Len(code) + 1] = <<0>>[1]
      BY <2>3, <3>1 DEF Concatenates
    <3> HIDE DEF full, more
    <3> QED
      BY <3>1, <3>2
  <2> QED
    BY <2>4, <2>6, <2>7
<1> HIDE DEF full, more
<1>10. Get(table, full[1], NewNode) = node /\ EntryFor(node, full) = state
  BY <1>6, <1>9 DEF node
<1>11. CASE cut
  <2>1. Lookup(table, full, d, mode) = {[value |-> state.value, usedLength |-> state.length]}
    BY <1>4, <1>10, <1>11
  <2>2. Lookup(table, full, d, mode) = {one}
    BY <1>3, <1>9
  <2>3. [value |-> state.value, usedLength |-> state.length] = one
    BY <2>1, <2>2
  <2>4. state.length = Len(code) /\ state.value = v
    BY <2>3
  <2>5. Len(code) > 2
    BY <1>11, <2>4
  <2>6. word \in Seq(Byte) /\ Len(word) = 2 /\ word[1] = code[1] /\ word[2] = code[2]
    BY <1>1, <1>2, <1>11, <2>5
  <2>7. ASSUME NEW memory \in Seq(Byte), Begins(memory, word) PROVE ShortFound(memory, v, d, mode)
    <3>1. memory[1] = code[1] /\ memory[2] = more[2]
      BY <1>1, <1>9, <2>5, <2>6, <2>7 DEF Begins
    <3>2. Get(table, memory[1], NewNode) = node /\ EntryFor(node, memory) = state
      BY <1>6, <3>1 DEF node
    <3>3. Lookup(table, memory, d, mode) = {[value |-> state.value, usedLength |-> state.length]}
      BY <1>4, <1>11, <3>2
    <3>4. ShortLength(one, table, memory) = 2
      <4>1. Len(code) # 1
        BY <1>0, <2>5
      <4> QED
        BY <1>5, <1>7, <1>11, <3>2, <4>1
    <3> QED
      BY <1>8, <2>3, <2>6, <3>3, <3>4
  <2> QED
    BY <2>6, <2>7 DEF word
<1>12. CASE ~cut
  <2>1. word = code
    BY <1>2, <1>12
  <2>2. ASSUME NEW memory \in Seq(Byte), Begins(memory, word), Len(memory) >= Len(word) + 3
        PROVE  ShortFound(memory, v, d, mode)
    <3>1. Lookup(table, memory, d, mode) = {one}
      BY <1>3, <2>1, <2>2
    <3>2. memory[1] = code[1] /\ (Len(code) # 1 => memory[2] = more[2])
      BY <1>0, <1>9, <2>1, <2>2 DEF Begins
    <3>3. Get(table, memory[1], NewNode) = node
      BY <3>2 DEF node
    <3> DEFINE entry == EntryFor(node, memory)
    <3>4. ASSUME ~node.end, entry.end PROVE Min({2, Len(code)}) = Len(code)
      <4>1. [value |-> entry.value, usedLength |-> entry.length] = one
        BY <1>4, <3>1, <3>3, <3>4
      <4>2. entry.length = Len(code)
        BY <4>1
      <4>3. Len(code) # 1 => entry = state
        BY <1>6, <3>2
      <4>4. Len(code) # 1 => ~(Len(code) > 2)
        BY <1>12, <3>4, <4>2, <4>3
      <4>5. Len(code) = 1 \/ Len(code) = 2
        BY <1>0, <4>4
      <4> QED
        BY <1>7, <4>5
    <3>5. ShortLength(one, table, memory) = Len(code)
      BY <1>5, <3>3, <3>4
    <3> QED
      BY <1>8, <2>1, <3>1, <3>5
  <2> QED
    BY <1>1, <2>1, <2>2 DEF word
<1> QED
  BY <1>11, <1>12

\* Memory from position p on begins with a word, and goes on for three bytes at least.
WordAt(memory, p, w) ==
  LET rest == SubSeq(memory, p + 1, Len(memory))
  IN  rest \in Seq(Byte) /\ Begins(rest, w) /\ Len(rest) >= Len(w) + 3

LEMMA PieceBegins ==
  ASSUME NEW ss \in Seq(Seq(Byte)), NEW str \in Seq(Byte), NEW off \in Offsets(ss), Laid(str, ss, off),
         NEW i \in 1..Len(ss), NEW tail \in Seq(Byte), Len(tail) >= 3
  PROVE  WordAt(str \o tail, off[i - 1], ss[i])
<1> DEFINE memory == str \o tail
           w == ss[i]
           n == off[i - 1]
           l == Len(memory)
           rest == SubSeq(memory, n + 1, l)
<1>1. memory \in Seq(Byte) /\ Concatenates(memory, str, tail)
  BY Concatenation
<1>2. w \in Seq(Byte) /\ Len(w) \in Nat
  OBVIOUS
<1>3. n \in Nat /\ off[i] = n + Len(w) /\ off[i] <= Len(str) /\ \A q \in 1..Len(w) : str[n + q] = w[q]
  <2>1. i - 1 \in 0..Len(ss)
    OBVIOUS
  <2> QED
    BY <2>1 DEF Offsets, Laid
<1>4. l \in Nat /\ Len(str) \in Nat /\ Len(tail) \in Nat /\ l = Len(str) + Len(tail)
      /\ \A q \in 1..Len(str) : memory[q] = str[q]
  BY <1>1 DEF Concatenates
<1> DEFINE a == Len(str)
           c == Len(w)
           t == Len(tail)
<1>5. a \in Nat /\ c \in Nat /\ t \in Nat /\ n + c <= a /\ l = a + t /\ t >= 3
  BY <1>2, <1>3, <1>4
<1> HIDE DEF memory, w, n, l, a, c, t
<1>6. /\ n <= l /\ l - n >= c + 3 /\ l - n \in Nat
      /\ \A q \in 1..c : q \in 1..(l - n) /\ n + q \in 1..a
  BY <1>3, <1>4, <1>5
<1>7. rest \in Seq(Byte) /\ Len(rest) = l - n /\ \A q \in 1..(l - n) : rest[q] = memory[n + q]
  <2>1. rest \in Seq(Byte) /\ IsPiece(rest, memory, n + 1, l)
    <3>1. n + 1 \in Nat \ {0} /\ l \in Nat /\ l <= Len(memory) /\ n + 1 <= l + 1 /\ memory \in Seq(Byte)
      BY <1>1, <1>3, <1>4, <1>6 DEF l
    <3> DEFINE from == n + 1
    <3> HIDE DEF from
    <3>2. SubSeq(memory, from, l) \in Seq(Byte) /\ IsPiece(SubSeq(memory, from, l), memory, from, l)
      BY <3>1, Piece DEF from
    <3> QED
      BY <3>2 DEF from, l
  <2>2. (l - (n + 1)) + 1 = l - n /\ \A q \in 1..(l - n) : ((n + 1) + q) - 1 = n + q
    BY <1>3, <1>4
  <2> QED
    BY <2>1, <2>2 DEF IsPiece
<1>8. Begins(rest, w)
  <2>1. ASSUME NEW q \in 1..c PROVE rest[q] = w[q]
    <3>1. q \in 1..(l - n) /\ n + q \in 1..a
      BY <1>6
    <3>2. rest[q] = memory[n + q] /\ memory[n + q] = str[n + q] /\ str[n + q] = w[q]
      BY <1>3, <1>4, <1>7, <3>1 DEF a, c
    <3> QED
      BY <3>2
  <2> QED
    BY <2>1 DEF Begins, c
<1>9. Len(rest) >= Len(w) + 3
  BY <1>6, <1>7 DEF c
<1> QED
  BY <1>7, <1>8, <1>9 DEF WordAt, memory, w, n, l

\* The first elements of a sequence, and one more.
LEMMA FrontGrows ==
  ASSUME NEW S, NEW s \in Seq(S), NEW i \in 1..Len(s)
  PROVE  Append([q \in 1..(i - 1) |-> s[q]], s[i]) = [q \in 1..i |-> s[q]]
<1> DEFINE front == [q \in 1..(i - 1) |-> s[q]]
           more  == Append(front, s[i])
           whole == [q \in 1..i |-> s[q]]
<1>1. i - 1 \in Nat /\ i \in Nat /\ (i - 1) + 1 = i /\ \A q \in 1..(i - 1) : s[q] \in S
  OBVIOUS
<1>2. front \in Seq(S) /\ Len(front) = i - 1
  <2>1. front = [q \in 1..(i - 1) |-> front[q]] /\ \A q \in 1..(i - 1) : front[q] \in S
    BY <1>1
  <2> HIDE DEF front
  <2> QED
    BY <1>1, <2>1, FunctionIsSeq
<1>3. s[i] \in S
  OBVIOUS
<1>4. \A q \in 1..(i - 1) : front[q] = s[q]
  OBVIOUS
<1> HIDE DEF front
<1>5. /\ more = [q \in 1..i |-> more[q]] /\ more[i] = s[i]
      /\ \A q \in 1..(i - 1) : more[q] = front[q]
  BY <1>1, <1>2, <1>3
<1>6. \A q \in 1..i : q \in 1..(i - 1) \/ q = i
  BY <1>1
<1> HIDE DEF more
<1>7. \A q \in 1..i : more[q] = s[q]
  BY <1>4, <1>5, <1>6
<1>8. more = whole
  BY <1>5, <1>7
<1> QED
  BY <1>8 DEF more, front

\* One turn of LookedUp.
OneFurther(at, d, mode, table, memory) ==
  LET rest  == SubSeq(memory, at.ptr + 1, Len(memory))
      found == Lookup(table, rest, d, mode)
  IN  IF Cardinality(found) # 1 THEN at
      ELSE LET one == CHOOSE f \in found : TRUE
           IN  [values |-> Append(at.values, one.value),
                ptr    |-> at.ptr + ShortLength(one, table, rest)]

\* Where the lookup finds one value at each of the places off, LookedUp goes through all.
FoundAt(data, off, i, d, mode, table, memory) ==
  LET rest == SubSeq(memory, off[i - 1] + 1, Len(memory))
  IN  \E one : /\ Lookup(table, rest, d, mode) = {one} /\ one.value = data[i]
               /\ off[i] = off[i - 1] + ShortLength(one, table, rest)

LEMMA FindsAll ==
  ASSUME NEW data \in Seq(Nat), NEW off, off[0] = 0, NEW d, NEW mode, NEW table, NEW memory,
         \A i \in 1..Len(data) : FoundAt(data, off, i, d, mode, table, memory)
  PROVE  LookedUp(Len(data), d, mode, table, memory) = [values |-> data, ptr |-> off[Len(data)]]
<1> DEFINE n == Len(data)
           turn(f) == [i \in 0..n |-> IF i = 0 THEN [values |-> << >>, ptr |-> 0]
                                      ELSE OneFurther(f[i - 1], d, mode, table, memory)]
           at == CHOOSE f : f = turn(f)
           g == [i \in 0..n |-> [values |-> [q \in 1..i |-> data[q]], ptr |-> off[i]]]
<1>1. n \in Nat /\ data = [q \in 1..n |-> data[q]]
  OBVIOUS
<1>2. LookedUp(n, d, mode, table, memory) = at[n]
  BY DEF LookedUp, OneFurther
<1>3. g[0] = [values |-> << >>, ptr |-> 0]
  <2>1. [q \in 1..0 |-> data[q]] = << >> /\ 0 \in 0..n
    BY <1>1
  <2> QED
    BY <2>1
<1>4. ASSUME NEW i \in 1..n
      PROVE  g[i] = OneFurther(g[i - 1], d, mode, table, memory)
  <2> DEFINE p == off[i - 1]
             rest == SubSeq(memory, p + 1, Len(memory))
  <2>1. PICK one : /\ Lookup(table, rest, d, mode) = {one} /\ one.value = data[i]
                   /\ off[i] = p + ShortLength(one, table, rest)
    BY DEF FoundAt
  <2>2. i \in 0..n /\ i - 1 \in 0..n
    BY <1>1
  <2>3. g[i - 1].ptr = p /\ g[i - 1].values = [q \in 1..(i - 1) |-> data[q]]
    BY <2>2
  <2>4. g[i] = [values |-> [q \in 1..i |-> data[q]], ptr |-> off[i]]
    BY <2>2
  <2>5. Append([q \in 1..(i - 1) |-> data[q]], data[i]) = [q \in 1..i |-> data[q]]
    BY FrontGrows
  <2> HIDE DEF g, p, rest
  <2>6. Cardinality({one}) = 1 /\ (CHOOSE f \in {one} : TRUE) = one
    BY FS_Singleton
  <2>7. OneFurther(g[i - 1], d, mode, table, memory)
          = [values |-> Append(g[i - 1].values, one.value), ptr |-> p + ShortLength(one, table, rest)]
    BY <2>1, <2>3, <2>6 DEF OneFurther, rest
  <2> QED
    BY <2>1, <2>3, <2>4, <2>5, <2>7
<1>5. g = turn(g)
  <2>1. \A i \in 0..n : i # 0 => i \in 1..n
    BY <1>1
  <2>2. g = [i \in 0..n |-> g[i]]
    OBVIOUS
  <2> HIDE DEF g
  <2>3. \A i \in 0..n : g[i] = IF i = 0 THEN [values |-> << >>, ptr |-> 0]
                               ELSE OneFurther(g[i - 1], d, mode, table, memory)
    BY <1>3, <1>4, <2>1
  <2> QED
    BY <2>2, <2>3
<1>6. at = turn(at)
  BY <1>5
<1> HIDE DEF at, g
<1>7. /\ at[0] = [values |-> << >>, ptr |-> 0]
      /\ \A i \in 1..n : at[i] = OneFurther(at[i - 1], d, mode, table, memory)
  <2>1. 0 \in 0..n /\ \A i \in 1..n : i \in 0..n /\ i # 0
    BY <1>1
  <2> QED
    BY <1>6, <2>1
<1> DEFINE T == {i \in 0..n : at[i] = g[i]}
<1>8. 0..n \subseteq T
  <2>1. 0 \in T
    BY <1>1, <1>3, <1>7
  <2>2. ASSUME NEW i \in 0..(n - 1), i \in T PROVE i + 1 \in T
    <3>1. i + 1 \in 1..n /\ i + 1 \in 0..n /\ (i + 1) - 1 = i
      BY <1>1
    <3>2. at[i + 1] = OneFurther(at[i], d, mode, table, memory)
          /\ g[i + 1] = OneFurther(g[i], d, mode, table, memory)
      BY <1>4, <1>7, <3>1
    <3> QED
      BY <2>2, <3>1, <3>2
  <2> HIDE DEF T
  <2> QED
    BY <1>1, <2>1, <2>2, InductionUpTo
<1>9. at[n] = g[n]
  BY <1>1, <1>8
<1>10. g[n] = [values |-> data, ptr |-> off[n]]
  <2>1. n \in 0..n
    BY <1>1
  <2> HIDE DEF n
  <2> QED
    BY <1>1, <2>1 DEF g
<1> QED
  BY <1>2, <1>9, <1>10

\* Strings of words, one behind the other.
ShortWords(data, d, mode) == [i \in DOMAIN data |-> ShortWord(data[i], d, mode)]

\* A string of compress2 is decoded, and used up to its last byte.
LEMMA WordsDecode ==
  ASSUME NEW d \in 1..64, NEW mode, Powers(d), Usable(d, mode), NEW data \in Seq(Nat),
         \A i \in 1..Len(data) : FitsIn(data[i], d), NEW tail \in Seq(Byte), Len(tail) >= 3
  PROVE  LET str == FlattenSeq(ShortWords(data, d, mode))
         IN  LookedUp(Len(data), d, mode, TableOf(d, mode), str \o tail)
               = [values |-> data, ptr |-> Len(str)]
<1> DEFINE ss  == ShortWords(data, d, mode)
           str == FlattenSeq(ss)
           memory == str \o tail
           table == TableOf(d, mode)
<1>1. Len(data) \in Nat /\ DOMAIN data = 1..Len(data) /\ \A i \in 1..Len(data) : data[i] \in Nat
  OBVIOUS
<1>2. ss = [i \in 1..Len(data) |-> ss[i]] /\ \A i \in 1..Len(data) : ss[i] = ShortWord(data[i], d, mode)
  BY <1>1 DEF ShortWords
<1> HIDE DEF ss
<1>3. \A i \in 1..Len(data) : ss[i] \in Seq(Byte)
  <2> TAKE i \in 1..Len(data)
  <2> DEFINE v == data[i]
  <2>1. v \in Nat /\ FitsIn(v, d) /\ ss[i] = ShortWord(v, d, mode)
    BY <1>1, <1>2
  <2> HIDE DEF v
  <2> QED
    BY <2>1, WordTells
<1>4. ss \in Seq(Seq(Byte)) /\ Len(ss) = Len(data)
  BY <1>1, <1>2, <1>3, FunctionIsSeq
<1>5. str \in Seq(Byte) /\ \E off \in Offsets(ss) : Laid(str, ss, off)
  BY <1>4, FlattenLayout
<1>6. PICK off \in Offsets(ss) : Laid(str, ss, off)
  BY <1>5
<1> HIDE DEF str, table, memory
<1>7. off[0] = 0 /\ off[Len(data)] = Len(str)
  BY <1>4, <1>6 DEF Offsets, Laid
<1>8. ASSUME NEW i \in 1..Len(data)
      PROVE  FoundAt(data, off, i, d, mode, table, memory)
  <2> DEFINE v == data[i]
             p == off[i - 1]
             rest == SubSeq(memory, p + 1, Len(memory))
             one == [value |-> v, usedLength |-> Len(AthEncoding(v, d, mode))]
  <2>1. v \in Nat /\ FitsIn(v, d) /\ ss[i] = ShortWord(v, d, mode)
    BY <1>1, <1>2
  <2>2. WordAt(memory, p, ss[i])
    BY <1>4, <1>5, <1>6, PieceBegins DEF memory
  <2>3. rest \in Seq(Byte) /\ Begins(rest, ShortWord(v, d, mode)) /\ Len(rest) >= Len(ShortWord(v, d, mode)) + 3
    BY <2>1, <2>2 DEF WordAt
  <2>4. off[i] = p + Len(ss[i])
    BY <1>4, <1>6 DEF Offsets
  <2> HIDE DEF rest, v
  <2>5. ShortFound(rest, v, d, mode)
    BY <2>1, <2>3, WordTells
  <2>6. Lookup(table, rest, d, mode) = {one} /\ ShortLength(one, table, rest) = Len(ss[i])
    BY <2>1, <2>5 DEF ShortFound, table
  <2>7. one.value = v
    OBVIOUS
  <2> HIDE DEF one, p
  <2> QED
    BY <2>4, <2>6, <2>7 DEF FoundAt, rest, v, p
<1>9. LookedUp(Len(data), d, mode, table, memory) = [values |-> data, ptr |-> off[Len(data)]]
  BY <1>7, <1>8, FindsAll
<1> QED
  BY <1>7, <1>9 DEF memory, table, str, ss

\* What compress2 left is the string of the words of its data.
CutAs(b, s) ==
  /\ b.dataList = s /\ b.deltaMin = DeltaMin(s) /\ b.datumBit = DatumBit(s) /\ b.mode \in 0..7
  /\ b.result = FlattenSeq([i \in DOMAIN Output(s) |->
                              Shortened(AthEncoding(Output(s)[i], b.datumBit, b.mode),
                                        Get(CheckTables[b.mode], b.datumBit, Empty))])

LEMMA CutsWords ==
  ASSUME NEW s \in Seq(Int), s # << >>, NEW k \in Nat, NEW earlier, RepeatsOf(earlier, Output(s), k)
  PROVE  CutAs(compress2After(earlier, s, CheckTables), s)
<1> DEFINE o == Output(s)
           m == Measured(earlier, s)
           d == DatumBit(s)
           out == earlier \o o
           b == compress2After(earlier, s, CheckTables)
<1>1. o \in Seq(Nat) /\ Len(o) = Len(s) /\ Len(s) \in Nat
  BY Differences
<1>2. RepeatsOf(out, o, k + 1) /\ k + 1 \in Nat \ {0}
  BY <1>1, RepeatsAgain
<1>3. m.dataList = s /\ m.output = out /\ m.deltaMin = DeltaMin(s) /\ m.datumBit = d
      /\ m.mode = getMode(out, d)
  BY DEF Measured, Outputs
<1>4. getMode(out, d) \in 0..7
  BY DEF getMode
<1>5. Encoded(m) = o
  <2>0. \A x, y, j : RepeatsOf(x, y, j) /\ j \in Nat \ {0} =>
          x \in Seq(Nat) /\ Len(x) = j * Len(y) /\ \A q \in 1..Len(y) : x[q] = y[q]
    BY DEF RepeatsOf
  <2> HIDE DEF o, out
  <2>1. out \in Seq(Nat) /\ Len(out) = (k + 1) * Len(o) /\ \A q \in 1..Len(o) : out[q] = o[q]
    BY <1>2, <2>0
  <2>2. Encoded(m) = SubSeq(out, 1, Len(s))
    BY <1>3 DEF Encoded
  <2>3. Len(s) <= Len(out)
    <3>1. 1 * Len(o) <= (k + 1) * Len(o)
      BY <1>1, <1>2, MulMono
    <3> QED
      BY <1>1, <2>1, <3>1
  <2>4. SubSeq(out, 1, Len(s)) = o
    BY <1>1, <2>1, <2>3
  <2> QED
    BY <2>2, <2>4
<1>6. b = Returned(m, Coded2(Encoded(m), m.datumBit, m.mode, Get(CheckTables[m.mode], m.datumBit, Empty)))
  BY DEF compress2After
<1> HIDE DEF b, m, o, d, out
<1>7. b.dataList = s /\ b.deltaMin = DeltaMin(s) /\ b.datumBit = d /\ b.mode = m.mode
      /\ b.result = Coded2(o, d, m.mode, Get(CheckTables[m.mode], d, Empty)).result
  BY <1>3, <1>5, <1>6 DEF Returned
<1>8. CutAs(b, s)
  BY <1>3, <1>4, <1>7 DEF CutAs, Coded2, d, o
<1> QED
  BY <1>8 DEF b

\* While no data are added after a call, compress2 has cut the codewords of the data.
CutInv == last = "compress2" /\ ~mixed => dataList # << >> /\ CutAs(comData, dataList)

LEMMA CutInvNext == ObjectInv /\ CutInv /\ [Next]_vars => CutInv'
<1> SUFFICES ASSUME ObjectInv, CutInv, [Next]_vars, last' = "compress2", ~mixed'
             PROVE  dataList' # << >> /\ CutAs(comData', dataList')
  BY DEF CutInv
<1>1. CASE addData
  BY <1>1 DEF addData
<1>2. CASE Compress
  BY <1>2 DEF Compress, Called
<1>3. CASE Compress2
  <2>1. dataList # << >> /\ dataList' = dataList /\ mixed' = mixed
        /\ comData' = compress2After(output, dataList, CheckTables)
    BY <1>3 DEF Compress2, Called
  <2>2. dataList \in Seq(Int) /\ calls \in Nat
    BY DataAreInt DEF ObjectInv
  <2>3. RepeatsOf(output, Output(dataList), calls)
    <3>1. CASE calls = 0
      <4>1. output = << >> /\ Output(dataList) \in Seq(Nat)
        BY <2>1, <2>2, <3>1, Differences DEF ObjectInv
      <4> QED
        BY <3>1, <4>1, RepeatsNone
    <3>2. CASE calls > 0
      BY <2>1, <3>2 DEF ObjectInv
    <3> QED
      BY <2>2, <3>1, <3>2
  <2> QED
    BY <2>1, <2>2, <2>3, CutsWords
<1>4. CASE UNCHANGED vars
  BY <1>4 DEF vars, CutInv
<1> QED
  BY <1>1, <1>2, <1>3, <1>4 DEF Next

\* The codewords that compress2 cuts to two bytes are told by them from all others: with a
\* usable table its strings give back every difference of data that fit the integers, the
\* pointer moving by what was kept, and are used up to their last byte.
THEOREM ShortStringsDecode == Spec => [](Served(comData) /\ Fits(comData) => ShortIsDecodable)
<1>1. Init => CutInv
  BY DEF Init, CutInv
<1>2. ObjectInv /\ CutInv => (Served(comData) /\ Fits(comData) => ShortIsDecodable)
  <2> SUFFICES ASSUME ObjectInv, CutInv, Served(comData), Fits(comData),
                      last = "compress2", ~mixed, NEW tail \in Tails
               PROVE  LookedUp(Len(dataList), comData.datumBit, comData.mode,
                               CheckTables[comData.mode][comData.datumBit], comData.result \o tail)
                        = [values |-> Output(dataList), ptr |-> Len(comData.result)]
    BY DEF ShortIsDecodable
  <2> DEFINE d == comData.datumBit
             mode == comData.mode
             data == Output(dataList)
  <2>1. CutAs(comData, dataList) /\ dataList # << >>
    BY DEF CutInv
  <2>2. dataList \in Seq(Int)
    BY DataAreInt DEF ObjectInv
  <2>3. data \in Seq(Nat) /\ Len(data) = Len(dataList) /\ d \in 1..(IntBits - 1) /\ d = DatumBit(dataList)
    BY <2>1, <2>2, Differences, WidthOfData DEF CutAs
  <2>4. d \in 1..64 /\ d \in 0..Bits /\ Powers(d)
    <3>1. \A n \in 1..(IntBits - 1) : n \in 1..64 /\ n \in 0..Bits
      BY Widths
    <3>2. d \in 1..64 /\ d \in 0..Bits
      BY <2>3, <3>1
    <3> QED
      BY <3>2, PowersUpTo
  <2>5. Usable(d, mode) /\ d \in TableWidths /\ mode \in 0..7
    BY <2>1 DEF Served, CutAs
  <2>6. CheckTables[mode][d] = TableOf(d, mode) /\ Get(CheckTables[mode], d, Empty) = TableOf(d, mode)
    BY <2>5 DEF CheckTables, Get
  <2>7. Max(ToSet(dataList)) - DeltaMin(dataList) < Half
    BY <2>1 DEF Fits, CutAs, Half
  <2>8. \A i \in 1..Len(data) : FitsIn(data[i], d)
    <3> TAKE i \in 1..Len(data)
    <3>1. data[i] \in 0..(2^d - 1)
      BY <2>1, <2>2, <2>3, <2>7, WidthOfData
    <3>2. 2^d \in Nat
      BY <2>4, PowersOfTwo
    <3> DEFINE p == 2^d
               y == data[i]
    <3>3. p \in Nat /\ y \in 0..(p - 1)
      BY <3>1, <3>2
    <3> HIDE DEF p, y
    <3>4. y \in Nat /\ y < p
      BY <3>3
    <3> QED
      BY <2>4, <3>4, BelowPower DEF p, y
  <2>9. comData.result = FlattenSeq(ShortWords(data, d, mode))
    <3>1. comData.result = FlattenSeq([i \in DOMAIN data |->
                              Shortened(AthEncoding(data[i], d, mode), Get(CheckTables[mode], d, Empty))])
      BY <2>1 DEF CutAs
    <3> HIDE DEF data, d, mode
    <3> QED
      BY <2>6, <3>1 DEF ShortWords, ShortWord
  <2>10. tail \in Seq(Byte) /\ Len(tail) >= 3
    BY MainAssumption
  <2> HIDE DEF data, d, mode
  <2>11. LET str == FlattenSeq(ShortWords(data, d, mode))
         IN  LookedUp(Len(data), d, mode, TableOf(d, mode), str \o tail) = [values |-> data, ptr |-> Len(str)]
    BY <2>3, <2>4, <2>5, <2>8, <2>10, WordsDecode
  <2>12. LookedUp(Len(data), d, mode, CheckTables[mode][d], comData.result \o tail)
           = [values |-> data, ptr |-> Len(comData.result)]
    BY <2>6, <2>9, <2>11
  <2> QED
    BY <2>3, <2>12 DEF data, d, mode
<1> QED
  BY <1>1, <1>2, CutInvNext, ObjectInvInit, ObjectInvNext, PTL DEF Spec
=============================================================================
