--------------------------- MODULE AthCallsProofs ---------------------------
(***************************************************************************)
(* The pure modules of the coder, AthArith, AthCalls and CheckTable.       *)
(* AthEncoding and AthDecoding as whole calls, for every value, width,     *)
(* mode and table of probabilities: what AthDecoding finds in a memory     *)
(* that begins with a codeword is the value encoded, and the codeword's    *)
(* length, provided that the codeword could be ended; and what             *)
(* AthDecoding_prebuild saves of it, AthDecoding_fast goes on with.  Then  *)
(* the tables: a lookup finds what AthDecoding returns.                    *)
(***************************************************************************)
EXTENDS CheckTable, FoldFacts

----------------------------------------------------------------------------
(* The arithmetic: what the operators of AthArith compute.                 *)

(* Quotient and remainder of integer division. *)
LEMMA DivMod ==
  ASSUME NEW a \in Int, NEW b \in Nat \ {0}
  PROVE  /\ a = b * (a \div b) + (a % b)
         /\ a % b \in 0..(b - 1)
         /\ a \div b \in Int
  BY SMT

(* The same for a natural number: the quotient is one too. *)
LEMMA DivModNat ==
  ASSUME NEW a \in Nat, NEW b \in Nat \ {0}
  PROVE  /\ a \div b \in Nat
         /\ a % b \in 0..(b - 1)
         /\ a = b * (a \div b) + (a % b)
<1>1. a \div b \in Nat
  BY SMT
<1> QED
  BY <1>1, DivMod

(* The quotient is the only number that leaves a remainder below the divisor. *)
LEMMA QuotientUnique ==
  ASSUME NEW v \in Nat, NEW w \in Nat, NEW m \in Nat \ {0}, NEW r \in 0..(m - 1),
         v = m * w + r
  PROVE  v \div m = w
  BY SMT

(* Products with a natural number are monotonic. *)
LEMMA MulMono ==
  ASSUME NEW a \in Int, NEW b \in Int, NEW c \in Nat, a <= b
  PROVE  a * c <= b * c
  BY SMT

(* A quotient is below every bound that the dividend is below in units of the divisor. *)
LEMMA DivBelow ==
  ASSUME NEW a \in Nat, NEW b \in Nat \ {0}, NEW c \in Nat, a < c * b
  PROVE  a \div b \in 0..(c - 1)
  BY SMT

(* Quotients by the same divisor keep the order. *)
LEMMA DivMono ==
  ASSUME NEW a \in Nat, NEW b \in Nat, NEW c \in Nat \ {0}, a <= b
  PROVE  a \div c <= b \div c
  BY SMT

(* A number below the modulus is its own remainder. *)
LEMMA ModSmall ==
  ASSUME NEW a \in Nat, NEW b \in Nat \ {0}, a < b
  PROVE  a % b = a
  BY SMT

(* The sizes of bytes, registers and probabilities are positive. *)
LEMMA Sizes ==
  /\ Base \in Nat /\ Base > 1
  /\ Base2 \in Nat /\ Base2 > 1
  /\ Base3 \in Nat /\ Base3 > 1 /\ Base3 = Base2 * Base
  /\ Reg \in Nat /\ Reg > 1 /\ Reg = Base3 * Base
  /\ Prec \in Nat /\ Prec > 0
  /\ Extra \in Nat /\ Extra > 0
  /\ MaxRatio \in Nat /\ MaxRatio > 0 /\ MaxRatio = Prec * Extra
<1>1. Base \in Nat /\ Base > 1
  BY BaseAssumption
<1>2. Base2 \in Nat /\ Base2 > 1
  BY <1>1 DEF Base2
<1>3. Base3 \in Nat /\ Base3 > 1
  BY <1>1, <1>2 DEF Base3
<1>4. Reg \in Nat /\ Reg > 1
  BY <1>1, <1>3 DEF Reg
<1>5. MaxRatio \in Nat /\ MaxRatio > 0
  BY PrecAssumption DEF MaxRatio
<1> QED
  BY <1>1, <1>2, <1>3, <1>4, <1>5, PrecAssumption DEF Base3, Reg, MaxRatio

----------------------------------------------------------------------------
(* Ratio::update moves the estimate towards the bit and stays within 22     *)
(* bits: the assertion on "update + ratio" means what it was written for,   *)
(* and the mask that follows changes nothing.                               *)
LEMMA UpdateInRange ==
  ASSUME NEW pr \in Ratio, NEW bit \in {0, 1}
  PROVE  UpdatedRatio(pr, bit) \in 0..(MaxRatio - 1)
<1> DEFINE step == pr.count + pr.count + 20
           down == (pr.ratio * 2) \div step
           up   == ((MaxRatio - pr.ratio) * 2) \div step
<1>1. /\ pr.ratio \in 0..(MaxRatio - 1)
      /\ step \in Nat /\ step >= 20
      /\ MaxRatio \in Nat
  BY Sizes DEF Ratio
<1> HIDE DEF step
<1>2. down \in 0..pr.ratio
  <2> DEFINE twice == pr.ratio * 2
             bound == pr.ratio + 1
  <2>1. twice \in Nat /\ twice < bound * step
    BY <1>1
  <2>2. bound \in Nat /\ step \in Nat \ {0}
    BY <1>1
  <2> HIDE DEF twice, bound
  <2>3. twice \div step \in 0..(bound - 1)
    BY <2>1, <2>2, DivBelow
  <2> QED
    BY <2>3, <1>1 DEF twice, bound
<1>3. up \in 0..(MaxRatio - pr.ratio - 1)
  <2>1. (MaxRatio - pr.ratio) * 2 \in Nat
    BY <1>1
  <2>2. (MaxRatio - pr.ratio) * 2 < (MaxRatio - pr.ratio) * step
    BY <1>1
  <2>3. MaxRatio - pr.ratio \in Nat /\ step \in Nat \ {0}
    BY <1>1
  <2> QED
    BY <2>1, <2>2, <2>3, DivBelow
<1>4. CASE bit = 1
  <2>1. (bit * MaxRatio - pr.ratio) * 2 = (MaxRatio - pr.ratio) * 2
    BY <1>1, <1>4
  <2>2. UpdatedRatio(pr, bit) = up + pr.ratio
    BY <2>1, <1>1 DEF UpdatedRatio, Truncate, step
  <2> QED
    BY <2>2, <1>1, <1>3
<1>5. CASE bit = 0
  <2>1. (bit * MaxRatio - pr.ratio) * 2 = -(pr.ratio * 2)
    BY <1>1, <1>5
  <2>2. UpdatedRatio(pr, bit) = pr.ratio - down
    <3>1. CASE pr.ratio = 0
      <4>1. down = 0
        BY <3>1, <1>2
      <4>2. (bit * MaxRatio - pr.ratio) * 2 = 0
        BY <2>1, <3>1
      <4>3. 0 \div step = 0
        BY <1>1
      <4> QED
        BY <4>1, <4>2, <4>3, <3>1 DEF UpdatedRatio, Truncate, step
    <3>2. CASE pr.ratio > 0
      BY <2>1, <3>2, <1>1 DEF UpdatedRatio, Truncate, step
    <3> QED
      BY <3>1, <3>2, <1>1
  <2> QED
    BY <2>2, <1>1, <1>2
<1> QED
  BY <1>4, <1>5

(* Ratio::update returns a Ratio. *)
LEMMA UpdateType ==
  ASSUME NEW pr \in Ratio, NEW bit \in {0, 1}
  PROVE  Update(pr, bit) \in Ratio
<1>1. UpdatedRatio(pr, bit) % MaxRatio = UpdatedRatio(pr, bit)
  BY UpdateInRange, Sizes, ModSmall
<1> QED
  BY <1>1, UpdateInRange, Sizes DEF Update, Ratio

(* The probability that an estimate stands for is one of the Prec units, never all of them. *)
LEMMA GetRatioType ==
  ASSUME NEW pr \in Ratio
  PROVE  GetRatio(pr) \in 0..(Prec - 1)
<1>1. pr.ratio \in Nat /\ pr.ratio < Prec * Extra
  BY Sizes DEF Ratio
<1> QED
  BY <1>1, Sizes, DivBelow DEF GetRatio

(* Every segment of every width starts from a Ratio. *)
LEMMA NewRatioType ==
  ASSUME NEW r \in 0..(Prec - 1)
  PROVE  NewRatio(r) \in Ratio
<1>1. r * Extra \in Nat /\ r * Extra < Prec * Extra
  <2>1. (r + 1) * Extra <= Prec * Extra
    BY Sizes, MulMono
  <2>2. (r + 1) * Extra = r * Extra + Extra
    BY Sizes
  <2>3. r * Extra \in Nat
    BY Sizes
  <2> QED
    BY <2>1, <2>2, <2>3, Sizes
<1> QED
  BY <1>1, Sizes DEF NewRatio, Ratio

LEMMA PredictorType ==
  ASSUME NEW c \in Coder, NEW d \in 1..64, NEW mode
  PROVE  Predictor(c, d, mode) \in Ratio
<1>1. \A s : SegRatio(d, mode, s) \in 0..(Prec - 1)
  BY RatioAssumption, Sizes DEF SegRatio
<1> QED
  BY <1>1, NewRatioType DEF Predictor, Coder

----------------------------------------------------------------------------
(* The point xMid splits a non-empty interval of at least two points into   *)
(* two non-empty ones, and computing it never wraps around: every bit of a  *)
(* datum keeps a share of the interval, whatever its probability.           *)
LEMMA SplitInside ==
  ASSUME NEW x1 \in Word, NEW x2 \in Word, x1 < x2, NEW r \in 0..(Prec - 1)
  PROVE  SplitPoint(x1, x2, r) \in x1..(x2 - 1)
<1> DEFINE range == x2 - x1
           a == range \div Prec
           b == range % Prec
<1>1. /\ x1 \in Nat /\ x2 \in Nat /\ x1 < x2 /\ x2 < Reg
      /\ range \in Nat /\ range > 0 /\ range < Reg
      /\ r \in Nat /\ r <= Prec - 1
  BY Sizes DEF Word
<1>2. /\ range = Prec * a + b
      /\ a \in Nat /\ b \in 0..(Prec - 1)
  <2>1. Prec \in Nat \ {0}
    BY Sizes
  <2> HIDE DEF range
  <2>2. /\ range = Prec * (range \div Prec) + (range % Prec)
        /\ range % Prec \in 0..(Prec - 1)
    BY <1>1, <2>1, DivMod
  <2>3. range \div Prec \in Nat
    BY <1>1, <2>1
  <2> QED
    BY <2>2, <2>3
<1>3. range % Reg = range
  BY <1>1, Sizes, ModSmall
<1> HIDE DEF range, a, b
<1>4. a * r \in 0..(Prec * a - a)
  <2>1. r * a <= (Prec - 1) * a
    BY <1>1, <1>2, Sizes, MulMono
  <2>2. (Prec - 1) * a = Prec * a - a /\ r * a = a * r /\ r * a \in Nat
    BY <1>1, <1>2, Sizes
  <2> QED
    BY <2>1, <2>2, <1>2, Sizes
<1>5. /\ (b * r) \div Prec \in 0..b
      /\ b > 0 => (b * r) \div Prec < b
  <2>1. b * r \in Nat
    BY <1>1, <1>2
  <2>2. CASE b = 0
    <3>1. b * r < 1 * Prec
      BY <2>2, <1>1, Sizes
    <3> QED
      BY <3>1, <2>1, <2>2, Sizes, DivBelow
  <2>3. CASE b > 0
    <3>1. r * b <= (Prec - 1) * b
      BY <1>1, <1>2, Sizes, MulMono
    <3>2. (Prec - 1) * b = b * Prec - b /\ r * b = b * r
      BY <1>1, <1>2, Sizes
    <3>3. b * r < b * Prec
      BY <3>1, <3>2, <2>3, <1>2, Sizes
    <3> QED
      BY <3>3, <2>1, <2>3, <1>2, Sizes, DivBelow
  <2> QED
    BY <2>2, <2>3, <1>2
<1> DEFINE share == a * r + (b * r) \div Prec
<1>6. share \in 0..(range - 1)
  <2>1. CASE b > 0
    BY <2>1, <1>1, <1>2, <1>4, <1>5, Sizes
  <2>2. CASE b = 0
    <3>1. a > 0
      BY <2>2, <1>1, <1>2, Sizes
    <3> QED
      BY <3>1, <2>2, <1>1, <1>2, <1>4, <1>5, Sizes
  <2> QED
    BY <2>1, <2>2, <1>2
<1>7. x1 + share \in x1..(x2 - 1)
  BY <1>1, <1>6 DEF range
<1>8. (x1 + share) % Reg = x1 + share
  <2> HIDE DEF share
  <2>1. x1 + share \in Nat /\ x1 + share < Reg
    BY <1>1, <1>7, Sizes
  <2> QED
    BY <2>1, Sizes, ModSmall
<1>9. SplitPoint(x1, x2, r) = (x1 + share) % Reg
  <2>1. (x2 - x1) % Reg = range
    BY <1>3 DEF range
  <2>2. x1 + a * r + (b * r) \div Prec = x1 + share
    BY <1>1, <1>2, <1>4, <1>5
  <2> QED
    BY <2>1, <2>2 DEF SplitPoint, a, b
<1> QED
  BY <1>7, <1>8, <1>9

(* Registers whose top bytes differ hold different numbers, in the order of the bytes. *)
LEMMA DifferentTops ==
  ASSUME NEW c \in Coder, c.x1 <= c.x2, ~SameTopByte(c)
  PROVE  c.x1 < c.x2
  BY DEF SameTopByte, Coder, Word

(* Dividing twice is dividing by the product. *)
LEMMA DivDiv ==
  ASSUME NEW v \in Nat, NEW a \in Nat \ {0}, NEW b \in Nat \ {0}
  PROVE  (v \div a) \div b = v \div (a * b)
<1> DEFINE q == v \div a
           p == q \div b
<1>1. q \in Nat /\ v % a \in 0..(a - 1) /\ v = a * q + (v % a)
  BY DivModNat
<1> HIDE DEF q
<1>2. p \in Nat /\ q % b \in 0..(b - 1) /\ q = b * p + (q % b)
  BY <1>1, DivModNat
<1> HIDE DEF p
<1> DEFINE m == a * b
           r == a * (q % b) + (v % a)
<1>3. m \in Nat \ {0}
  BY SMT
<1>4. v = m * p + r
  <2>1. a * q = a * (b * p) + a * (q % b)
    BY <1>1, <1>2
  <2>2. a * (b * p) = (a * b) * p
    BY <1>2
  <2> QED
    BY <1>1, <1>2, <2>1, <2>2
<1>5. r \in 0..(m - 1)
  <2>1. (q % b) * a <= (b - 1) * a
    BY <1>2, MulMono
  <2> QED
    BY <2>1, <1>1, <1>2
<1> HIDE DEF m, r
<1>6. v \div m = p
  BY <1>2, <1>3, <1>4, <1>5, QuotientUnique
<1> QED
  BY <1>6 DEF p, q, m

----------------------------------------------------------------------------
(* One data bit keeps the interval non-empty and inside the one before, and *)
(* every intermediate value fits its register.                              *)
LEMMA NarrowInside ==
  ASSUME NEW c \in Coder, c.x1 <= c.x2, ~SameTopByte(c),
         NEW d \in 1..64, NEW mode, NEW bit \in {0, 1}
  PROVE  LET n == Narrow(c, bit, d, mode)
             xMid == XMid(c, d, mode)
         IN  /\ n \in Coder
             /\ c.x1 <= n.x1 /\ n.x1 <= n.x2 /\ n.x2 <= c.x2
             /\ xMid \in c.x1..(c.x2 - 1)
             /\ bit = 1 => n.x1 = c.x1 /\ n.x2 = xMid
             /\ bit = 0 => n.x1 = xMid + 1 /\ n.x2 = c.x2
             /\ n.i = c.i + 1
<1> DEFINE p == Predictor(c, d, mode)
           xMid == XMid(c, d, mode)
<1>1. c.x1 \in Word /\ c.x2 \in Word /\ c.x1 < c.x2 /\ c.i \in Nat
  BY DifferentTops DEF Coder
<1>2. p \in Ratio
  BY PredictorType
<1>3. GetRatio(p) \in 0..(Prec - 1)
  BY <1>2, GetRatioType
<1>4. xMid \in c.x1..(c.x2 - 1)
  BY <1>1, <1>3, SplitInside DEF XMid
<1>5. Update(p, bit) \in Ratio
  BY <1>2, UpdateType
<1> HIDE DEF xMid, p
<1>6. /\ c.x1 \in Nat /\ c.x2 \in Nat /\ c.x2 < Reg
      /\ xMid \in Nat /\ xMid \in Word /\ xMid + 1 \in Word
  BY <1>1, <1>4, Sizes DEF Word
<1>7. (xMid + 1) % Reg = xMid + 1
  BY <1>6, Sizes, ModSmall DEF Word
<1>8. Narrow(c, bit, d, mode) =
        [x1 |-> IF bit = 1 THEN c.x1 ELSE xMid + 1,
         x2 |-> IF bit = 1 THEN xMid ELSE c.x2,
         pr |-> Update(p, bit),
         i  |-> c.i + 1]
  <2>1. xMid = SplitPoint(c.x1, c.x2, GetRatio(p))
    BY DEF xMid, p, XMid
  <2> QED
    BY <1>7, <2>1 DEF Narrow, NarrowBy, p
<1>9. Narrow(c, bit, d, mode) \in Coder
  BY <1>1, <1>5, <1>6, <1>8 DEF Coder
<1> QED
  BY <1>1, <1>4, <1>6, <1>8, <1>9 DEF xMid

(* A point of the interval that a bit leads to tells that bit. *)
LEMMA ChosenSide ==
  ASSUME NEW c \in Coder, c.x1 <= c.x2, ~SameTopByte(c),
         NEW d \in 1..64, NEW mode, NEW bit \in {0, 1}, NEW y \in Word,
         Narrow(c, bit, d, mode).x1 <= y, y <= Narrow(c, bit, d, mode).x2
  PROVE  (IF y <= XMid(c, d, mode) THEN 1 ELSE 0) = bit
<1> DEFINE n    == Narrow(c, bit, d, mode)
           xMid == XMid(c, d, mode)
<1>1. /\ xMid \in c.x1..(c.x2 - 1)
      /\ bit = 1 => n.x2 = xMid
      /\ bit = 0 => n.x1 = xMid + 1
  BY NarrowInside
<1>2. n.x1 <= y /\ y <= n.x2 /\ y \in Int /\ c.x1 \in Int /\ c.x2 \in Int
  BY Sizes DEF Word, Coder
<1> HIDE DEF n, xMid
<1>3. xMid \in Int
  BY <1>1, <1>2
<1>4. IF bit = 1 THEN y <= xMid ELSE ~(y <= xMid)
  BY <1>1, <1>2, <1>3
<1> QED
  BY <1>4 DEF xMid

(* The parts of a register: its top byte and the three others. *)
LEMMA TopAndRest ==
  ASSUME NEW v \in Word
  PROVE  /\ TopByte(v) \in Byte
         /\ v % Base3 \in 0..(Base3 - 1)
         /\ v = TopByte(v) * Base3 + (v % Base3)
<1>1. v \in Nat /\ v < Base * Base3 /\ Base3 \in Nat \ {0}
  BY Sizes DEF Word
<1>2. v \div Base3 \in 0..(Base - 1)
  BY <1>1, Sizes, DivBelow
<1>3. v = Base3 * (v \div Base3) + (v % Base3) /\ v % Base3 \in 0..(Base3 - 1)
  BY <1>1, DivModNat
<1>4. Base3 * (v \div Base3) = (v \div Base3) * Base3
  BY <1>1, <1>2
<1> QED
  BY <1>2, <1>3, <1>4 DEF TopByte, Byte

(* Shifting a byte into a register leaves a register. *)
LEMMA ShiftInType ==
  ASSUME NEW v \in Word, NEW b \in Byte
  PROVE  ShiftIn(v, b) \in Word
<1>1. v % Base3 \in 0..(Base3 - 1)
  BY TopAndRest
<1>2. (v % Base3) * Base <= (Base3 - 1) * Base
  BY <1>1, Sizes, MulMono
<1> QED
  BY <1>1, <1>2, Sizes DEF ShiftIn, Word, Byte

(* Shifting out the byte on which x1 and x2 agree keeps the interval non-empty. *)
LEMMA RenormInside ==
  ASSUME NEW c \in Coder, c.x1 <= c.x2, SameTopByte(c)
  PROVE  LET n == Renorm(c)
         IN  n \in Coder /\ n.x1 <= n.x2 /\ n.i = c.i
<1>1. c.x1 \in Word /\ c.x2 \in Word
  BY DEF Coder
<1>2. 0 \in Byte /\ Base - 1 \in Byte
  BY Sizes DEF Byte
<1>3. Renorm(c) = [c EXCEPT !.x1 = ShiftIn(c.x1, 0), !.x2 = ShiftIn(c.x2, Base - 1)]
  BY DEF Renorm
<1>4. ShiftIn(c.x1, 0) \in Word /\ ShiftIn(c.x2, Base - 1) \in Word
  BY <1>1, <1>2, ShiftInType
<1>5. c.x1 % Base3 <= c.x2 % Base3
  <2> DEFINE y1 == c.x1 % Base3
             y2 == c.x2 % Base3
             t  == TopByte(c.x1) * Base3
  <2>1. c.x1 = t + y1 /\ y1 \in Nat
    BY <1>1, TopAndRest, Sizes
  <2>2. c.x2 = t + y2 /\ y2 \in Nat
    BY <1>1, TopAndRest, Sizes DEF SameTopByte
  <2>3. t \in Int
    BY <1>1, TopAndRest, Sizes DEF Byte
  <2> HIDE DEF y1, y2, t
  <2>4. y1 <= y2
    BY <2>1, <2>2, <2>3
  <2> QED
    BY <2>4 DEF y1, y2
<1>6. (c.x1 % Base3) * Base <= (c.x2 % Base3) * Base
  BY <1>1, <1>5, TopAndRest, Sizes, MulMono
<1>7. ShiftIn(c.x1, 0) <= ShiftIn(c.x2, Base - 1)
  <2>1. (c.x1 % Base3) * Base \in Nat /\ (c.x2 % Base3) * Base \in Nat
    BY <1>1, TopAndRest, Sizes
  <2> QED
    BY <1>6, <2>1, Sizes DEF ShiftIn
<1> QED
  BY <1>3, <1>4, <1>7 DEF Coder

(* A point of an interval that agrees on its top byte agrees on it too: what is left *)
(* of the point after a shift is a point of what is left of the interval.            *)
LEMMA ShiftInside ==
  ASSUME NEW c \in Coder, SameTopByte(c), NEW y \in Word, NEW b \in Byte,
         c.x1 <= y, y <= c.x2
  PROVE  Renorm(c).x1 <= ShiftIn(y, b) /\ ShiftIn(y, b) <= Renorm(c).x2
<1> DEFINE y1 == c.x1 % Base3
           y2 == c.x2 % Base3
           z  == y % Base3
           t  == TopByte(c.x1) * Base3
<1>1. c.x1 \in Word /\ c.x2 \in Word
  BY DEF Coder
<1>2. c.x1 \in Nat /\ c.x2 \in Nat /\ y \in Nat
  BY <1>1, Sizes DEF Word
<1>3. TopByte(y) = TopByte(c.x1)
  <2>1. TopByte(c.x1) <= TopByte(y) /\ TopByte(y) <= TopByte(c.x2)
    BY <1>2, Sizes, DivMono DEF TopByte
  <2>2. TopByte(c.x1) = TopByte(c.x2)
    BY DEF SameTopByte
  <2>3. TopByte(c.x1) \in Int /\ TopByte(y) \in Int
    BY <1>1, TopAndRest DEF Byte
  <2> HIDE DEF t, y1, y2, z
  <2> QED
    BY <2>1, <2>2, <2>3
<1>4. /\ c.x1 = t + y1 /\ y1 \in Nat
      /\ c.x2 = t + y2 /\ y2 \in Nat
      /\ y = t + z /\ z \in Nat
      /\ t \in Int
  BY <1>1, <1>3, TopAndRest, Sizes DEF SameTopByte, Byte
<1> HIDE DEF y1, y2, z, t
<1>5. y1 <= z /\ z <= y2
  BY <1>2, <1>4
<1>6. y1 * Base <= z * Base /\ z * Base <= y2 * Base
  BY <1>4, <1>5, Sizes, MulMono
<1>7. y1 * Base \in Nat /\ z * Base \in Nat /\ y2 * Base \in Nat
  BY <1>4, Sizes
<1>8. b \in Nat /\ b <= Base - 1
  BY Sizes DEF Byte
<1>9. y1 * Base + 0 <= z * Base + b /\ z * Base + b <= y2 * Base + (Base - 1)
  BY <1>6, <1>7, <1>8, Sizes
<1>10. /\ Renorm(c).x1 = y1 * Base + 0
       /\ Renorm(c).x2 = y2 * Base + (Base - 1)
       /\ ShiftIn(y, b) = z * Base + b
  <2>1. Renorm(c).x1 = ShiftIn(c.x1, 0) /\ Renorm(c).x2 = ShiftIn(c.x2, Base - 1)
    BY DEF Renorm, Coder
  <2> QED
    BY <2>1 DEF ShiftIn, y1, y2, z
<1> QED
  BY <1>9, <1>10

----------------------------------------------------------------------------
(* Four bytes of memory make a register. *)
LEMMA WindowType ==
  ASSUME NEW a1 \in Byte, NEW a2 \in Byte, NEW a3 \in Byte, NEW a4 \in Byte
  PROVE  LET rest == a2 * Base2 + a3 * Base + a4
         IN  /\ rest \in 0..(Base3 - 1)
             /\ a1 * Base3 + a2 * Base2 + a3 * Base + a4 = a1 * Base3 + rest
             /\ a1 * Base3 + rest \in Word
<1>1. /\ a1 \in Nat /\ a2 \in Nat /\ a3 \in Nat /\ a4 \in Nat
      /\ a1 <= Base - 1 /\ a2 <= Base - 1 /\ a3 <= Base - 1 /\ a4 <= Base - 1
  BY Sizes DEF Byte
<1>2. a3 * Base + a4 \in 0..(Base2 - 1)
  <2>1. a3 * Base <= (Base - 1) * Base
    BY <1>1, Sizes, MulMono
  <2> QED
    BY <2>1, <1>1, Sizes DEF Base2
<1>3. a2 * Base2 + a3 * Base + a4 \in 0..(Base3 - 1)
  <2>1. a2 * Base2 <= (Base - 1) * Base2
    BY <1>1, Sizes, MulMono
  <2>2. (Base - 1) * Base2 = Base3 - Base2
    BY Sizes
  <2>3. a2 * Base2 \in Nat /\ a3 * Base \in Nat
    BY <1>1, Sizes
  <2> QED
    BY <2>1, <2>2, <2>3, <1>1, <1>2, Sizes
<1>4. a1 * Base3 <= (Base - 1) * Base3 /\ (Base - 1) * Base3 = Reg - Base3
  BY <1>1, Sizes, MulMono
<1>5. a1 * Base3 \in Nat /\ a2 * Base2 \in Nat /\ a3 * Base \in Nat
  BY <1>1, Sizes
<1> QED
  BY <1>1, <1>3, <1>4, <1>5, Sizes DEF Word

(* Reading the next byte moves the window of the decoder on by one byte, and the *)
(* top byte of the window is the first byte of memory in it.                     *)
LEMMA WindowShift ==
  ASSUME NEW s, NEW n \in Nat, \A k \in Nat : k > 0 => s[k] \in Byte
  PROVE  /\ WindowOf(s, n) \in Word
         /\ WindowOf(s, n) \div Base3 = s[n + 1]
         /\ WindowOf(s, n) % Base3 = s[n + 2] * Base2 + s[n + 3] * Base + s[n + 4]
         /\ ShiftIn(WindowOf(s, n), s[n + 5]) = WindowOf(s, n + 1)
<1> DEFINE a1 == s[n + 1]
           a2 == s[n + 2]
           a3 == s[n + 3]
           a4 == s[n + 4]
           a5 == s[n + 5]
           rest == a2 * Base2 + a3 * Base + a4
<1>1. a1 \in Byte /\ a2 \in Byte /\ a3 \in Byte /\ a4 \in Byte /\ a5 \in Byte
  OBVIOUS
<1>2. WindowOf(s, n) = a1 * Base3 + a2 * Base2 + a3 * Base + a4
  BY DEF WindowOf
<1>3. WindowOf(s, n + 1) = a2 * Base3 + a3 * Base2 + a4 * Base + a5
  <2>1. n + 1 + 1 = n + 2 /\ n + 1 + 2 = n + 3 /\ n + 1 + 3 = n + 4 /\ n + 1 + 4 = n + 5
    OBVIOUS
  <2> QED
    BY <2>1 DEF WindowOf
<1> HIDE DEF a1, a2, a3, a4, a5
<1>4. /\ a1 \in Nat /\ a2 \in Nat /\ a3 \in Nat /\ a4 \in Nat /\ a5 \in Nat
  BY <1>1, Sizes DEF Byte
<1>5. /\ rest \in 0..(Base3 - 1)
      /\ WindowOf(s, n) = a1 * Base3 + rest
      /\ WindowOf(s, n) \in Word
  BY <1>1, <1>2, WindowType
<1>6. rest * Base = a2 * Base3 + a3 * Base2 + a4 * Base
  BY <1>4, Sizes DEF Base2, Base3
<1> HIDE DEF rest
<1>7. WindowOf(s, n) = Base3 * a1 + rest /\ WindowOf(s, n) \in Nat
  BY <1>4, <1>5, Sizes DEF Word
<1>8. WindowOf(s, n) \div Base3 = a1
  BY <1>4, <1>5, <1>7, Sizes, QuotientUnique
<1>9. WindowOf(s, n) % Base3 = rest
  <2> DEFINE w == WindowOf(s, n)
  <2>0. w \in Nat /\ Base3 \in Nat \ {0}
    BY <1>7, Sizes
  <2> HIDE DEF w
  <2>1. w = Base3 * (w \div Base3) + (w % Base3) /\ w % Base3 \in 0..(Base3 - 1)
    BY <2>0, DivModNat
  <2>2. Base3 * a1 \in Nat
    BY <1>4, Sizes
  <2> QED
    BY <2>1, <2>2, <1>5, <1>7, <1>8, Sizes DEF w
<1>10. ShiftIn(WindowOf(s, n), a5) = WindowOf(s, n + 1)
  BY <1>3, <1>6, <1>9 DEF ShiftIn
<1> QED
  BY <1>5, <1>8, <1>9, <1>10 DEF a1, a2, a3, a4, a5, rest

(* Backwards over one written byte: memory that starts with the byte written and *)
(* goes on inside the interval after it lies inside the interval before it.      *)
LEMMA WindowBack ==
  ASSUME NEW s, NEW n \in Nat, \A k \in Nat : k > 0 => s[k] \in Byte,
         NEW c \in Coder, SameTopByte(c), s[n + 1] = TopByte(c.x1),
         Renorm(c).x1 <= WindowOf(s, n + 1), WindowOf(s, n + 1) <= Renorm(c).x2
  PROVE  c.x1 <= WindowOf(s, n) /\ WindowOf(s, n) <= c.x2
<1> DEFINE rest == WindowOf(s, n) % Base3
           y1 == c.x1 % Base3
           y2 == c.x2 % Base3
           t  == TopByte(c.x1) * Base3
           b  == s[n + 5]
<1>1. c.x1 \in Word /\ c.x2 \in Word /\ WindowOf(s, n) \in Word
  BY WindowShift DEF Coder
<1>2. /\ y1 \in Nat /\ c.x1 = t + y1
      /\ y2 \in Nat /\ c.x2 = t + y2
  BY <1>1, TopAndRest, Sizes DEF SameTopByte
<1>3. rest \in Nat /\ WindowOf(s, n) = t + rest
  <2>1. TopByte(WindowOf(s, n)) = TopByte(c.x1)
    BY WindowShift DEF TopByte
  <2> QED
    BY <2>1, <1>1, TopAndRest, Sizes
<1>4. b \in Nat /\ b < Base
  BY Sizes DEF Byte
<1>5. Renorm(c).x1 = y1 * Base /\ Renorm(c).x2 = y2 * Base + (Base - 1)
  <2>1. Renorm(c).x1 = ShiftIn(c.x1, 0) /\ Renorm(c).x2 = ShiftIn(c.x2, Base - 1)
    BY DEF Renorm, Coder
  <2> QED
    BY <2>1, <1>2, Sizes DEF ShiftIn
<1>6. WindowOf(s, n + 1) = rest * Base + b
  BY WindowShift DEF ShiftIn
<1>7. t \in Int
  BY <1>1, TopAndRest, Sizes DEF Byte
<1> HIDE DEF rest, y1, y2, t, b
<1>8. y1 * Base <= rest * Base + b /\ rest * Base + b <= y2 * Base + (Base - 1)
  BY <1>5, <1>6
<1>9. \A m1, m2 \in Nat : m1 > m2 => m2 * Base + Base <= m1 * Base
  <2> TAKE m1, m2 \in Nat
  <2> HAVE m1 > m2
  <2>1. (m2 + 1) * Base <= m1 * Base
    BY Sizes, MulMono
  <2> QED
    BY <2>1, Sizes
<1>10. y1 * Base \in Nat /\ y2 * Base \in Nat /\ rest * Base \in Nat
  BY <1>2, <1>3, Sizes
<1>11. y1 <= rest
  <2> SUFFICES ASSUME y1 > rest PROVE FALSE
    BY <1>2, <1>3
  <2>1. rest * Base + Base <= y1 * Base
    BY <1>2, <1>3, <1>9
  <2> QED
    BY <2>1, <1>4, <1>8, <1>10, Sizes
<1>12. rest <= y2
  <2> SUFFICES ASSUME rest > y2 PROVE FALSE
    BY <1>2, <1>3
  <2>1. y2 * Base + Base <= rest * Base
    BY <1>2, <1>3, <1>9
  <2> QED
    BY <2>1, <1>4, <1>8, <1>10, Sizes
<1> QED
  BY <1>2, <1>3, <1>7, <1>11, <1>12

----------------------------------------------------------------------------
(* The bytes of a register, put together, are its leading bytes as a number. *)
LEMMA BytesOf ==
  ASSUME NEW v \in Word
  PROVE  LET d1 == getByte(v, 1)
             d2 == getByte(v, 2)
             d3 == getByte(v, 3)
             d4 == getByte(v, 4)
         IN  /\ d1 \in Byte /\ d2 \in Byte /\ d3 \in Byte /\ d4 \in Byte
             /\ Lead(v, 1) = d1
             /\ Lead(v, 2) = d1 * Base + d2
             /\ Lead(v, 3) = (d1 * Base + d2) * Base + d3
             /\ Lead(v, 4) = ((d1 * Base + d2) * Base + d3) * Base + d4
<1> DEFINE q1 == v \div Base3
           q2 == v \div Base2
           q3 == v \div Base
           q4 == v \div 1
<1>1. /\ v \in Nat /\ v < Base * Base3
      /\ Base \in Nat \ {0} /\ Base2 \in Nat \ {0} /\ Base3 \in Nat \ {0}
  BY Sizes DEF Word
<1>2. /\ Weight[1] = Base3 /\ Weight[2] = Base2 /\ Weight[3] = Base /\ Weight[4] = 1
  BY DEF Weight
<1>3. /\ Lead(v, 1) = q1 /\ getByte(v, 1) = q1 % Base
      /\ Lead(v, 2) = q2 /\ getByte(v, 2) = q2 % Base
      /\ Lead(v, 3) = q3 /\ getByte(v, 3) = q3 % Base
      /\ Lead(v, 4) = q4 /\ getByte(v, 4) = q4 % Base
  BY <1>2 DEF Lead, getByte
<1>4. q4 = v
  BY <1>1
<1>5. q3 = q4 \div Base
  BY <1>4
<1>6. q2 = q3 \div Base
  BY <1>1, DivDiv DEF Base2
<1>7. q1 = q2 \div Base
  BY <1>1, DivDiv DEF Base3
<1>8. q1 \in Byte /\ q2 \in Nat /\ q3 \in Nat /\ q4 \in Nat
  <2>1. q1 \in Byte
    BY <1>1, DivBelow DEF Byte
  <2>2. q2 \in Nat /\ q3 \in Nat
    BY <1>1, DivModNat
  <2> QED
    BY <2>1, <2>2, <1>1, <1>4
<1> HIDE DEF q1, q2, q3, q4
<1>9. \A q \in Nat : q % Base \in Byte /\ q = (q \div Base) * Base + (q % Base)
  <2> TAKE q \in Nat
  <2>1. q \div Base \in Nat /\ q % Base \in 0..(Base - 1) /\ q = Base * (q \div Base) + (q % Base)
    BY <1>1, DivModNat
  <2>2. Base * (q \div Base) = (q \div Base) * Base
    BY <2>1, Sizes
  <2> QED
    BY <2>1, <2>2 DEF Byte
<1>10. q1 % Base = q1
  BY <1>1, <1>8, Sizes, ModSmall DEF Byte
<1> QED
  BY <1>3, <1>5, <1>6, <1>7, <1>8, <1>9, <1>10

(* A register lies in the cell of its leading bytes. *)
LEMMA LeadCell ==
  ASSUME NEW v \in Word, NEW k \in 1..4
  PROVE  /\ Weight[k] \in Nat \ {0}
         /\ Lead(v, k) \in Nat
         /\ Lead(v, k) * Weight[k] <= v
         /\ v < (Lead(v, k) + 1) * Weight[k]
<1> DEFINE w == Weight[k]
           q == v \div w
<1>1. w \in Nat \ {0}
  BY Sizes DEF Weight
<1>2. v \in Nat
  BY Sizes DEF Word
<1> HIDE DEF w
<1>3. q \in Nat /\ v % w \in 0..(w - 1) /\ v = w * q + (v % w)
  BY <1>1, <1>2, DivModNat
<1> HIDE DEF q
<1>4. q * w <= v /\ v < (q + 1) * w
  <2>1. q * w = w * q /\ (q + 1) * w = w * q + w
    BY <1>1, <1>3
  <2> QED
    BY <2>1, <1>1, <1>3
<1> QED
  BY <1>1, <1>3, <1>4 DEF Lead, w, q

(* The leading bytes of a window of memory. *)
LEMMA WindowLeads ==
  ASSUME NEW s, NEW n \in Nat, \A k \in Nat : k > 0 => s[k] \in Byte
  PROVE  LET w == WindowOf(s, n)
         IN  /\ Lead(w, 1) = s[n + 1]
             /\ Lead(w, 2) = s[n + 1] * Base + s[n + 2]
             /\ Lead(w, 3) = (s[n + 1] * Base + s[n + 2]) * Base + s[n + 3]
             /\ Lead(w, 4) = ((s[n + 1] * Base + s[n + 2]) * Base + s[n + 3]) * Base + s[n + 4]
<1> DEFINE w  == WindowOf(s, n)
           a1 == s[n + 1]
           a2 == s[n + 2]
           a3 == s[n + 3]
           a4 == s[n + 4]
           u2 == a1 * Base + a2
           u3 == u2 * Base + a3
           u4 == u3 * Base + a4
<1>1. /\ a1 \in Nat /\ a2 \in 0..(Base - 1) /\ a3 \in 0..(Base - 1) /\ a4 \in 0..(Base - 1)
      /\ Base \in Nat \ {0} /\ Base2 \in Nat \ {0} /\ Base3 \in Nat \ {0}
  BY Sizes DEF Byte
<1>2. w = a1 * Base3 + a2 * Base2 + a3 * Base + a4
  BY DEF WindowOf
<1> HIDE DEF w, a1, a2, a3, a4
<1>3. w = u4
  BY <1>1, <1>2 DEF Base2, Base3
<1>4. u2 \in Nat /\ u3 \in Nat /\ u4 \in Nat
  BY <1>1
<1>5. u2 = Base * a1 + a2
  BY <1>1
<1> HIDE DEF u2
<1>6. u3 = Base * u2 + a3
  BY <1>1, <1>4
<1> HIDE DEF u3
<1>7. u4 = Base * u3 + a4
  BY <1>1, <1>4
<1> HIDE DEF u4
<1>8. u4 \div Base = u3
  BY <1>1, <1>4, <1>7, QuotientUnique
<1>9. u4 \div Base2 = u2
  <2>1. u3 \div Base = u2
    BY <1>1, <1>4, <1>6, QuotientUnique
  <2> QED
    BY <2>1, <1>1, <1>4, <1>8, DivDiv DEF Base2
<1>10. u4 \div Base3 = a1
  <2>1. u2 \div Base = a1
    BY <1>1, <1>4, <1>5, QuotientUnique
  <2> QED
    BY <2>1, <1>1, <1>4, <1>9, DivDiv DEF Base3
<1>11. u4 \div 1 = u4
  BY <1>4
<1>12. /\ Lead(w, 1) = w \div Base3 /\ Lead(w, 2) = w \div Base2
       /\ Lead(w, 3) = w \div Base  /\ Lead(w, 4) = w \div 1
  BY DEF Lead, Weight
<1> QED
  BY <1>3, <1>8, <1>9, <1>10, <1>11, <1>12 DEF w, a1, a2, a3, a4, u2, u3, u4

(* The end of a codeword, when some leading bytes are settled. *)
LEMMA FinalType ==
  ASSUME NEW c \in Coder, Settled(c) # {}
  PROVE  /\ FirstSettled(c) \in Settled(c)
         /\ FirstSettled(c) \in 1..4
         /\ FinalLength(c) = FirstSettled(c)
         /\ FinalBytes(c) = [j \in 1..FirstSettled(c) |->
                               getByte((Lead(c.x1, FirstSettled(c)) + 1) * Weight[FirstSettled(c)], j)]
<1>1. Settled(c) \subseteq 1..4
  BY DEF Settled
<1>2. \E k \in Settled(c) : \A l \in Settled(c) : k <= l
  <2>1. PICK k \in Settled(c) : TRUE
    OBVIOUS
  <2>2. CASE 1 \in Settled(c)
    BY <2>2, <1>1
  <2>3. CASE 1 \notin Settled(c) /\ 2 \in Settled(c)
    BY <2>3, <1>1
  <2>4. CASE 1 \notin Settled(c) /\ 2 \notin Settled(c) /\ 3 \in Settled(c)
    BY <2>4, <1>1
  <2>5. CASE 1 \notin Settled(c) /\ 2 \notin Settled(c) /\ 3 \notin Settled(c)
    BY <2>1, <2>5, <1>1
  <2> QED
    BY <2>2, <2>3, <2>4, <2>5
<1>3. FirstSettled(c) \in Settled(c)
  BY <1>2 DEF FirstSettled
<1> QED
  BY <1>1, <1>3 DEF FinalLength, FinalBytes

(* An interval of which not even all four bytes are settled has at most two points. *)
LEMMA UnsettledIsSmall ==
  ASSUME NEW c \in Coder, c.x1 <= c.x2, Settled(c) = {}
  PROVE  c.x2 - c.x1 <= 1
<1>1. c.x1 \in Nat /\ c.x2 \in Nat /\ c.x2 < Reg /\ Reg \in Nat \ {0}
  BY Sizes DEF Coder, Word
<1>2. Lead(c.x1, 4) = c.x1 /\ Lead(c.x2, 4) = c.x2
  BY <1>1 DEF Lead, Weight
<1>3. (c.x2 - c.x1) % Reg = c.x2 - c.x1
  BY <1>1, ModSmall
<1>4. ~((Lead(c.x2, 4) - Lead(c.x1, 4)) % Reg > 1)
  BY DEF Settled
<1> QED
  BY <1>1, <1>2, <1>3, <1>4

(* The final bytes are bytes, as many as the decoder counts. *)
LEMMA FinalBytesType ==
  ASSUME NEW c \in Coder
  PROVE  /\ FinalBytes(c) \in Seq(Byte)
         /\ FinalLength(c) \in 1..4
         /\ Settled(c) # {} => Len(FinalBytes(c)) = FinalLength(c)
<1>1. CASE Settled(c) = {}
  BY <1>1 DEF FinalBytes, FinalLength
<1>2. CASE Settled(c) # {}
  <2> DEFINE k == FirstSettled(c)
             v == (Lead(c.x1, k) + 1) * Weight[k]
  <2>1. k \in 1..4 /\ FinalLength(c) = k /\ FinalBytes(c) = [j \in 1..k |-> getByte(v, j)]
    BY <1>2, FinalType
  <2>2. v \in Int
    <3>1. c.x1 \in Word
      BY DEF Coder
    <3>2. Lead(c.x1, k) \in Nat /\ Weight[k] \in Nat
      BY <2>1, <3>1, LeadCell
    <3> QED
      BY <3>2
  <2> HIDE DEF k, v
  <2>3. \A j \in 1..k : getByte(v, j) \in Byte
    <3> TAKE j \in 1..k
    <3> DEFINE m == Weight[j]
               q == v \div m
    <3>1. m \in Nat \ {0}
      BY <2>1, Sizes DEF Weight
    <3> HIDE DEF m
    <3>2. q \in Int
      BY <2>2, <3>1, DivMod
    <3> HIDE DEF q
    <3>3. q % Base \in 0..(Base - 1)
      BY <3>2, DivMod, Sizes
    <3> QED
      BY <3>3 DEF getByte, Byte, q, m
  <2> QED
    BY <2>1, <2>3
<1> QED
  BY <1>1, <1>2

(* Memory that starts with the final bytes lies inside the interval.             *)
LEMMA FinalInside ==
  ASSUME NEW c \in Coder, c.x1 <= c.x2, Settled(c) # {},
         NEW s, NEW n \in Nat, \A k \in Nat : k > 0 => s[k] \in Byte,
         \A j \in 1..FirstSettled(c) : s[n + j] = FinalBytes(c)[j]
  PROVE  c.x1 <= WindowOf(s, n) /\ WindowOf(s, n) <= c.x2
<1> DEFINE k  == FirstSettled(c)
           m  == Weight[k]
           h1 == Lead(c.x1, k)
           h2 == Lead(c.x2, k)
           v  == (h1 + 1) * m
           w  == WindowOf(s, n)
<1>1. c.x1 \in Word /\ c.x2 \in Word /\ w \in Word /\ k \in 1..4
  BY FinalType, WindowShift DEF Coder
<1>2. /\ m \in Nat \ {0} /\ h1 \in Nat /\ h2 \in Nat
      /\ c.x1 < (h1 + 1) * m
      /\ h2 * m <= c.x2
      /\ Lead(w, k) * m <= w /\ w < (Lead(w, k) + 1) * m /\ Lead(w, k) \in Nat
  BY <1>1, LeadCell
<1>3. h1 + 1 < h2
  <2>1. (h2 - h1) % Reg > 1
    BY FinalType DEF Settled
  <2>2. h1 <= h2
    <3>1. c.x1 \in Nat /\ c.x2 \in Nat
      BY <1>1, Sizes DEF Word
    <3> QED
      BY <3>1, <1>2, DivMono DEF Lead
  <2>3. h2 <= h2 * m
    BY <1>2
  <2>4. h2 - h1 \in Nat /\ h2 - h1 < Reg
    BY <1>1, <1>2, <2>2, <2>3, Sizes DEF Word
  <2>5. (h2 - h1) % Reg = h2 - h1
    BY <2>4, Sizes, ModSmall
  <2> QED
    BY <2>1, <2>5, <1>2
<1>4. (h1 + 2) * m <= h2 * m
  BY <1>2, <1>3, MulMono
<1>5. (h1 + 2) * m = v + m /\ v \in Nat
  BY <1>2
<1>6. v \in Word /\ v + m <= c.x2 /\ c.x1 < v
  BY <1>1, <1>2, <1>4, <1>5, Sizes DEF Word
<1>7. Lead(v, k) = h1 + 1
  <2> DEFINE h == h1 + 1
  <2>1. h \in Nat /\ 0 \in 0..(m - 1) /\ v = m * h + 0
    BY <1>2
  <2> HIDE DEF h, v
  <2>2. v \div m = h
    BY <2>1, <1>2, <1>5, QuotientUnique
  <2> QED
    BY <2>2 DEF Lead, h
<1>8. \A j \in 1..k : s[n + j] = getByte(v, j)
  BY FinalType
<1> HIDE DEF v, w, m, h1, h2
<1>9. Lead(w, k) = Lead(v, k)
  <2>1. CASE k = 1
    BY <2>1, <1>6, <1>8, BytesOf, WindowLeads DEF w
  <2>2. CASE k = 2
    BY <2>2, <1>6, <1>8, BytesOf, WindowLeads DEF w
  <2>3. CASE k = 3
    BY <2>3, <1>6, <1>8, BytesOf, WindowLeads DEF w
  <2>4. CASE k = 4
    BY <2>4, <1>6, <1>8, BytesOf, WindowLeads DEF w
  <2> QED
    BY <2>1, <2>2, <2>3, <2>4, <1>1
<1>10. v <= w /\ w < v + m
  <2>1. Lead(w, k) * m = v /\ (Lead(w, k) + 1) * m = v + m
    BY <1>2, <1>7, <1>9 DEF v
  <2> QED
    BY <2>1, <1>2
<1> QED
  BY <1>1, <1>2, <1>5, <1>6, <1>10, Sizes DEF w, Word


----------------------------------------------------------------------------
(* The encoder writes a settled byte, at most four in a row.               *)

Encoders == [coder : Coder, output : Seq(Byte)]
Sound(e) == e \in Encoders /\ e.coder.x1 <= e.coder.x2

WriteOnce(p) ==
  IF SameTopByte(p.coder)
    THEN [coder |-> Renorm(p.coder), output |-> Append(p.output, TopByte(p.coder.x1))]
    ELSE p

LEMMA WrittenUnfolds ==
  ASSUME NEW e
  PROVE  Written(e) = WriteOnce(WriteOnce(WriteOnce(WriteOnce(e))))
<1> DEFINE once == WriteOnce(e)
           twice == WriteOnce(once)
           thrice == WriteOnce(twice)
           fourth == WriteOnce(thrice)
           turn(f) == [n \in 0..4 |->
             IF n = 0 THEN e
             ELSE LET p == f[n - 1]
                  IN  IF SameTopByte(p.coder)
                        THEN [coder |-> Renorm(p.coder), output |-> Append(p.output, TopByte(p.coder.x1))]
                        ELSE p]
           shifted == CHOOSE f : f = turn(f)
           g == [n \in 0..4 |-> IF n = 0 THEN e ELSE IF n = 1 THEN once ELSE IF n = 2 THEN twice
                                ELSE IF n = 3 THEN thrice ELSE fourth]
<1>1. Written(e) = shifted[4]
  BY DEF Written
<1>2. \A f : turn(f) = [n \in 0..4 |-> IF n = 0 THEN e ELSE WriteOnce(f[n - 1])]
  BY DEF WriteOnce
<1> HIDE DEF turn, once, twice, thrice, fourth
<1>3. g = [n \in 0..4 |-> IF n = 0 THEN e ELSE WriteOnce(g[n - 1])]
  <2>1. g[0] = e /\ g[1] = once /\ g[2] = twice /\ g[3] = thrice /\ g[4] = fourth
    OBVIOUS
  <2>2. g = [n \in 0..4 |-> g[n]]
    OBVIOUS
  <2> HIDE DEF g
  <2>3. \A n \in 0..4 : g[n] = IF n = 0 THEN e ELSE WriteOnce(g[n - 1])
    <3>1. \A n \in 0..4 : n = 0 \/ n = 1 \/ n = 2 \/ n = 3 \/ n = 4
      OBVIOUS
    <3>2. g[1] = WriteOnce(g[1 - 1]) /\ g[2] = WriteOnce(g[2 - 1]) /\ g[3] = WriteOnce(g[3 - 1])
          /\ g[4] = WriteOnce(g[4 - 1])
      BY <2>1 DEF once, twice, thrice, fourth
    <3> QED
      BY <2>1, <3>1, <3>2
  <2> QED
    BY <2>2, <2>3
<1> HIDE DEF g
<1>4. g = turn(g)
  BY <1>2, <1>3
<1>5. shifted = turn(shifted)
  BY <1>4
<1> HIDE DEF shifted
<1>6. shifted = [n \in 0..4 |-> IF n = 0 THEN e ELSE WriteOnce(shifted[n - 1])]
  BY <1>2, <1>5
<1>7. \A n \in 1..4 : shifted[n] = WriteOnce(shifted[n - 1])
  BY <1>6
<1>8. shifted[0] = e
  BY <1>6
<1>9. shifted[1] = once /\ shifted[2] = WriteOnce(shifted[1]) /\ shifted[3] = WriteOnce(shifted[2])
      /\ shifted[4] = WriteOnce(shifted[3])
  BY <1>7, <1>8 DEF once
<1> QED
  BY <1>1, <1>9 DEF once, twice, thrice, fourth

LEMMA WriteOnceKeeps ==
  ASSUME NEW e, Sound(e)
  PROVE  /\ Sound(WriteOnce(e))
         /\ WriteOnce(e).coder.i = e.coder.i
         /\ Len(e.output) \in Nat /\ Len(WriteOnce(e).output) \in Nat
         /\ Len(e.output) <= Len(WriteOnce(e).output)
         /\ \A k \in 1..Len(e.output) : WriteOnce(e).output[k] = e.output[k]
         /\ SameTopByte(e.coder) =>
              /\ Len(WriteOnce(e).output) = Len(e.output) + 1
              /\ WriteOnce(e).output[Len(e.output) + 1] = TopByte(e.coder.x1)
              /\ WriteOnce(e).coder = Renorm(e.coder)
         /\ ~SameTopByte(e.coder) => WriteOnce(e) = e
<1>1. e.coder \in Coder /\ e.output \in Seq(Byte) /\ e.coder.x1 <= e.coder.x2
  BY DEF Sound, Encoders
<1>2. CASE SameTopByte(e.coder)
  <2>1. Renorm(e.coder) \in Coder /\ Renorm(e.coder).x1 <= Renorm(e.coder).x2 /\ Renorm(e.coder).i = e.coder.i
    BY <1>1, <1>2, RenormInside
  <2>2. TopByte(e.coder.x1) \in Byte
    BY <1>1, TopAndRest DEF Coder
  <2> DEFINE b == TopByte(e.coder.x1)
             c == Renorm(e.coder)
  <2>3. WriteOnce(e) = [coder |-> c, output |-> Append(e.output, b)]
    BY <1>2 DEF WriteOnce
  <2> HIDE DEF b, c
  <2>4. Append(e.output, b) \in Seq(Byte) /\ Len(Append(e.output, b)) = Len(e.output) + 1 /\ Len(e.output) \in Nat
        /\ Append(e.output, b)[Len(e.output) + 1] = b
        /\ \A k \in 1..Len(e.output) : Append(e.output, b)[k] = e.output[k]
    BY <1>1, <2>2 DEF b
  <2>5. Sound(WriteOnce(e))
    BY <2>1, <2>3, <2>4 DEF c, Sound, Encoders
  <2> QED
    BY <1>2, <2>1, <2>3, <2>4, <2>5 DEF b, c
<1>3. CASE ~SameTopByte(e.coder)
  <2>1. WriteOnce(e) = e
    BY <1>3 DEF WriteOnce
  <2> QED
    BY <1>1, <1>3, <2>1
<1> QED
  BY <1>2, <1>3

(* Four shifts renew a register: what was shifted in first is its top byte. *)
LEMMA FourShifts ==
  ASSUME NEW v \in Word, NEW b \in Byte
  PROVE  TopByte(ShiftIn(ShiftIn(ShiftIn(ShiftIn(v, b), b), b), b)) = b
<1> DEFINE s == [k \in Nat \ {0} |-> IF k = 1 THEN getByte(v, 1) ELSE IF k = 2 THEN getByte(v, 2)
                   ELSE IF k = 3 THEN getByte(v, 3) ELSE IF k = 4 THEN getByte(v, 4) ELSE b]
           d1 == getByte(v, 1)
           d2 == getByte(v, 2)
           d3 == getByte(v, 3)
           d4 == getByte(v, 4)
<1>1. d1 \in Byte /\ d2 \in Byte /\ d3 \in Byte /\ d4 \in Byte
      /\ Lead(v, 4) = ((d1 * Base + d2) * Base + d3) * Base + d4
  BY BytesOf
<1>2. Lead(v, 4) = v
  BY Sizes DEF Lead, Weight, Word
<1>3. /\ s[1] = d1 /\ s[2] = d2 /\ s[3] = d3 /\ s[4] = d4
      /\ s[5] = b /\ s[6] = b /\ s[7] = b /\ s[8] = b
  OBVIOUS
<1>4. \A k \in Nat : k > 0 => s[k] \in Byte
  BY <1>1
<1> HIDE DEF s, d1, d2, d3, d4
<1>5. WindowOf(s, 0) = v
  <2>1. s[0 + 1] = d1 /\ s[0 + 2] = d2 /\ s[0 + 3] = d3 /\ s[0 + 4] = d4
    BY <1>3
  <2>2. \A a \in Nat : \A e \in Nat : (a * Base + e) * Base = a * Base2 + e * Base
                                      /\ (a * Base2 + e) * Base = a * Base3 + e * Base
    BY Sizes DEF Base2, Base3
  <2>3. ((d1 * Base + d2) * Base + d3) * Base + d4 = d1 * Base3 + d2 * Base2 + d3 * Base + d4
    <3>1. d1 \in Nat /\ d2 \in Nat /\ d3 \in Nat /\ d4 \in Nat
      BY <1>1, Sizes DEF Byte
    <3>2. (d1 * Base + d2) * Base = d1 * Base2 + d2 * Base
      BY <2>2, <3>1
    <3>3. d2 * Base + d3 \in Nat
      BY <3>1, Sizes
    <3>4. (d1 * Base2 + (d2 * Base + d3)) * Base = d1 * Base3 + (d2 * Base + d3) * Base
      BY <2>2, <3>1, <3>3
    <3>5. (d2 * Base + d3) * Base = d2 * Base2 + d3 * Base
      BY <2>2, <3>1
    <3>6. d1 * Base2 \in Nat /\ d2 * Base \in Nat /\ d1 * Base3 \in Nat /\ d2 * Base2 \in Nat /\ d3 * Base \in Nat
      BY <3>1, Sizes
    <3>7. d1 * Base2 + d2 * Base + d3 = d1 * Base2 + (d2 * Base + d3)
      BY <3>1, <3>6
    <3> QED
      BY <3>1, <3>2, <3>4, <3>5, <3>6, <3>7
  <2> QED
    BY <1>1, <1>2, <2>1, <2>3 DEF WindowOf
<1>6. \A n \in Nat : ShiftIn(WindowOf(s, n), s[n + 5]) = WindowOf(s, n + 1) /\ WindowOf(s, n) \div Base3 = s[n + 1]
  BY <1>4, WindowShift
<1>7. ShiftIn(v, b) = WindowOf(s, 1)
  BY <1>3, <1>5, <1>6
<1>8. ShiftIn(WindowOf(s, 1), b) = WindowOf(s, 2)
  BY <1>3, <1>6
<1>9. ShiftIn(WindowOf(s, 2), b) = WindowOf(s, 3)
  BY <1>3, <1>6
<1>10. ShiftIn(WindowOf(s, 3), b) = WindowOf(s, 4)
  BY <1>3, <1>6
<1>11. WindowOf(s, 4) \div Base3 = b
  BY <1>3, <1>6
<1> QED
  BY <1>7, <1>8, <1>9, <1>10, <1>11 DEF TopByte

Renewed(c) == Renorm(Renorm(Renorm(Renorm(c))))

LEMMA RenewedDiffers ==
  ASSUME NEW c \in Coder
  PROVE  ~SameTopByte(Renewed(c))
<1>1. \A e \in Coder : Renorm(e).x1 = ShiftIn(e.x1, 0) /\ Renorm(e).x2 = ShiftIn(e.x2, Base - 1)
                       /\ Renorm(e) \in Coder
  <2> TAKE e \in Coder
  <2>1. e.x1 \in Word /\ e.x2 \in Word /\ 0 \in Byte /\ Base - 1 \in Byte
    BY Sizes DEF Coder, Byte
  <2>2. ShiftIn(e.x1, 0) \in Word /\ ShiftIn(e.x2, Base - 1) \in Word
    BY <2>1, ShiftInType
  <2>3. Renorm(e) = [e EXCEPT !.x1 = ShiftIn(e.x1, 0), !.x2 = ShiftIn(e.x2, Base - 1)]
    BY DEF Renorm
  <2> QED
    BY <2>2, <2>3 DEF Coder
<1> DEFINE c1 == Renorm(c)
           c2 == Renorm(c1)
           c3 == Renorm(c2)
           c4 == Renorm(c3)
<1>2. c1 \in Coder /\ c2 \in Coder /\ c3 \in Coder
  BY <1>1
<1>3. c4.x1 = ShiftIn(ShiftIn(ShiftIn(ShiftIn(c.x1, 0), 0), 0), 0)
  BY <1>1, <1>2
<1>4. c4.x2 = ShiftIn(ShiftIn(ShiftIn(ShiftIn(c.x2, Base - 1), Base - 1), Base - 1), Base - 1)
  BY <1>1, <1>2
<1> HIDE DEF c4
<1>5. c.x1 \in Word /\ c.x2 \in Word /\ 0 \in Byte /\ Base - 1 \in Byte /\ 0 # Base - 1
  BY Sizes DEF Coder, Byte
<1>6. TopByte(c4.x1) = 0 /\ TopByte(c4.x2) = Base - 1
  BY <1>3, <1>4, <1>5, FourShifts
<1> QED
  BY <1>5, <1>6 DEF Renewed, SameTopByte, c4

(* What was written stays, and the interval that is left does not lie in one top byte. *)
Extends(f, e) ==
  /\ f.coder.i = e.coder.i
  /\ Len(e.output) \in Nat /\ Len(f.output) \in Nat /\ Len(e.output) <= Len(f.output)
  /\ \A k \in 1..Len(e.output) : f.output[k] = e.output[k]

LEMMA ExtendsTransitive ==
  ASSUME NEW e, NEW f, NEW g, Extends(f, e), Extends(g, f)
  PROVE  Extends(g, e)
<1>1. \A m \in Nat : \A n \in Nat : m <= n => \A k \in 1..m : k \in 1..n
  OBVIOUS
<1>2. \A k \in 1..Len(e.output) : k \in 1..Len(f.output)
  BY <1>1 DEF Extends
<1>3. \A k \in 1..Len(e.output) : g.output[k] = e.output[k]
  BY <1>2 DEF Extends
<1> QED
  BY <1>3 DEF Extends

LEMMA WriteOnceExtends ==
  ASSUME NEW e, Sound(e)
  PROVE  Sound(WriteOnce(e)) /\ Extends(WriteOnce(e), e)
BY WriteOnceKeeps DEF Extends

LEMMA WrittenSettles ==
  ASSUME NEW e, Sound(e)
  PROVE  Sound(Written(e)) /\ Extends(Written(e), e) /\ ~SameTopByte(Written(e).coder)
<1> DEFINE e1 == WriteOnce(e)
           e2 == WriteOnce(e1)
           e3 == WriteOnce(e2)
           e4 == WriteOnce(e3)
<1>0. Written(e) = e4
  BY WrittenUnfolds
<1>1. Sound(e1) /\ Extends(e1, e)
  BY WriteOnceExtends
<1> HIDE DEF e1
<1>2. Sound(e2) /\ Extends(e2, e1)
  BY <1>1, WriteOnceExtends
<1> HIDE DEF e2
<1>3. Sound(e3) /\ Extends(e3, e2)
  BY <1>2, WriteOnceExtends
<1> HIDE DEF e3
<1>4. Sound(e4) /\ Extends(e4, e3)
  BY <1>3, WriteOnceExtends
<1> HIDE DEF e4
<1>5. Extends(e4, e)
  BY <1>1, <1>2, <1>3, <1>4, ExtendsTransitive
<1>6. \A p : ~SameTopByte(p.coder) => WriteOnce(p) = p
  BY DEF WriteOnce
<1>7. \A p : SameTopByte(p.coder) => WriteOnce(p).coder = Renorm(p.coder)
  BY DEF WriteOnce
<1>8. ~SameTopByte(e4.coder)
  <2>1. CASE ~SameTopByte(e3.coder)
    BY <2>1, <1>6 DEF e4
  <2>2. CASE SameTopByte(e3.coder)
    <3>1. SameTopByte(e2.coder)
      BY <2>2, <1>6 DEF e3
    <3>2. SameTopByte(e1.coder)
      BY <3>1, <1>6 DEF e2
    <3>3. SameTopByte(e.coder)
      BY <3>2, <1>6 DEF e1
    <3>4. e4.coder = Renewed(e.coder)
      BY <2>2, <3>1, <3>2, <3>3, <1>7 DEF e1, e2, e3, e4, Renewed
    <3>5. e.coder \in Coder
      BY DEF Sound, Encoders
    <3> QED
      BY <3>4, <3>5, RenewedDiffers
  <2> QED
    BY <2>1, <2>2
<1> QED
  BY <1>0, <1>4, <1>5, <1>8

(* A byte may be written before the others. *)
LEMMA WrittenOnward ==
  ASSUME NEW e, Sound(e)
  PROVE  /\ Written(WriteOnce(e)) = Written(e)
         /\ ~SameTopByte(e.coder) => Written(e) = e
<1>1. Written(e) = WriteOnce(WriteOnce(WriteOnce(WriteOnce(e))))
  BY WrittenUnfolds
<1>2. Written(WriteOnce(e)) = WriteOnce(WriteOnce(WriteOnce(WriteOnce(WriteOnce(e)))))
  BY WrittenUnfolds
<1>3. Written(WriteOnce(e)) = WriteOnce(Written(e))
  BY <1>1, <1>2
<1>4. ~SameTopByte(Written(e).coder)
  BY WrittenSettles
<1>5. \A p : ~SameTopByte(p.coder) => WriteOnce(p) = p
  BY DEF WriteOnce
<1> QED
  BY <1>1, <1>3, <1>4, <1>5

----------------------------------------------------------------------------
(* The four bytes of a stream s that the encoder's place in it stands at,  *)
(* which lie in the interval after a byte was written only if they did     *)
(* before.                                                                 *)

Stream(s) == \A k \in Nat : k > 0 => s[k] \in Byte

Place(e) == Len(e.output)

Within(s, e) ==
  /\ \A k \in 1..Place(e) : s[k] = e.output[k]
  /\ e.coder.x1 <= WindowOf(s, Place(e))
  /\ WindowOf(s, Place(e)) <= e.coder.x2

LEMMA WriteBack ==
  ASSUME NEW e, Sound(e), NEW s, Stream(s), Within(s, WriteOnce(e))
  PROVE  Within(s, e)
<1>1. CASE ~SameTopByte(e.coder)
  BY <1>1, WriteOnceKeeps
<1>2. CASE SameTopByte(e.coder)
  <2> DEFINE f == WriteOnce(e)
             n == Place(e)
             c == e.coder
  <2>1. /\ n \in Nat /\ Place(f) = n + 1 /\ f.output[n + 1] = TopByte(c.x1) /\ f.coder = Renorm(c)
        /\ \A k \in 1..n : f.output[k] = e.output[k]
    BY <1>2, WriteOnceKeeps DEF Place
  <2>2. /\ \A k \in 1..Place(f) : s[k] = f.output[k]
        /\ f.coder.x1 <= WindowOf(s, Place(f)) /\ WindowOf(s, Place(f)) <= f.coder.x2
    BY DEF Within
  <2> HIDE DEF f
  <2>3. \A m \in Nat : m + 1 \in 1..(m + 1) /\ \A k \in 1..m : k \in 1..(m + 1)
    OBVIOUS
  <2>4. n + 1 \in 1..Place(f) /\ \A k \in 1..n : k \in 1..Place(f)
    BY <2>1, <2>3
  <2>5. s[n + 1] = TopByte(c.x1)
    BY <2>1, <2>2, <2>4
  <2>6. \A k \in 1..n : s[k] = e.output[k]
    BY <2>1, <2>2, <2>4
  <2>7. Renorm(c).x1 <= WindowOf(s, n + 1) /\ WindowOf(s, n + 1) <= Renorm(c).x2
    BY <2>1, <2>2
  <2>8. c \in Coder /\ SameTopByte(c) /\ \A k \in Nat : k > 0 => s[k] \in Byte
    BY <1>2 DEF Sound, Encoders, Stream
  <2> HIDE DEF n, c
  <2>9. c.x1 <= WindowOf(s, n) /\ WindowOf(s, n) <= c.x2
    BY <2>1, <2>5, <2>7, <2>8, WindowBack
  <2> QED
    BY <2>6, <2>9 DEF Within, n, c
<1> QED
  BY <1>1, <1>2

----------------------------------------------------------------------------
(* The bits of a value, by halving it. *)

Halvings(v, d) ==
  {rest \in [0..d -> Nat] : rest[0] = v /\ \A k \in 1..d : rest[k] = rest[k - 1] \div 2}

LEMMA BitsUnfold ==
  ASSUME NEW v \in Nat, NEW d \in Nat
  PROVE  /\ \E rest \in Halvings(v, d) : BitsOf(v, d) = [k \in 1..d |-> rest[k - 1] % 2]
         /\ BitsOf(v, d) \in [1..d -> {0, 1}]
<1> DEFINE turn(f) == [k \in 0..d |-> IF k = 0 THEN v ELSE f[k - 1] \div 2]
           rest == CHOOSE f : f = turn(f)
           step == [k \in 1..d |-> [n \in Nat |-> n \div 2]]
<1>1. \A n \in Nat : n \div 2 \in Nat /\ n % 2 \in {0, 1}
  OBVIOUS
<1>2. step \in [1..d -> [Nat -> Nat]]
  BY <1>1
<1>3. \A k \in 1..d : \A n \in Nat : step[k][n] = n \div 2
  OBVIOUS
<1> HIDE DEF step
<1>4. Recursively(d, Nat, v, step) # {}
  BY <1>2, Recursion
<1>5. PICK g \in [0..d -> Nat] : g[0] = v /\ \A k \in 1..d : g[k] = step[k][g[k - 1]]
  BY <1>4 DEF Recursively
<1>6. \A k \in 1..d : k - 1 \in 0..d
  OBVIOUS
<1>7. \A k \in 1..d : g[k] = g[k - 1] \div 2
  BY <1>3, <1>5, <1>6
<1>8. g = turn(g)
  <2>1. \A k \in 0..d : k # 0 => k \in 1..d
    OBVIOUS
  <2>2. \A k \in 0..d : g[k] = IF k = 0 THEN v ELSE g[k - 1] \div 2
    BY <1>5, <1>7, <2>1
  <2> QED
    BY <1>5, <2>2
<1>9. BitsOf(v, d) = [k \in 1..d |-> rest[k - 1] % 2]
  BY DEF BitsOf
<1>10. rest = turn(rest)
  BY <1>8
<1> HIDE DEF rest
<1>11. rest[0] = v /\ \A k \in 1..d : rest[k] = rest[k - 1] \div 2
  <2>1. \A k \in 1..d : k \in 0..d /\ k # 0
    OBVIOUS
  <2> QED
    BY <1>10, <2>1
<1> DEFINE T == {k \in 0..d : rest[k] \in Nat}
<1>12. 0..d \subseteq T
  <2>1. 0 \in T
    BY <1>11
  <2>2. ASSUME NEW k \in 0..(d - 1), k \in T PROVE k + 1 \in T
    <3>1. k + 1 \in 1..d /\ k + 1 \in 0..d /\ (k + 1) - 1 = k
      OBVIOUS
    <3>2. rest[k + 1] = rest[k] \div 2
      BY <1>11, <3>1
    <3> QED
      BY <1>1, <2>2, <3>1, <3>2
  <2> HIDE DEF T
  <2> QED
    BY <2>1, <2>2, InductionUpTo
<1>13. rest \in [0..d -> Nat]
  <2>1. \A k \in 0..d : rest[k] \in Nat
    BY <1>12
  <2>2. rest = [k \in 0..d |-> rest[k]]
    BY <1>10
  <2> QED
    BY <2>1, <2>2
<1>14. rest \in Halvings(v, d)
  BY <1>11, <1>13 DEF Halvings
<1>15. BitsOf(v, d) \in [1..d -> {0, 1}]
  <2>1. \A k \in 1..d : rest[k - 1] % 2 \in {0, 1}
    BY <1>1, <1>6, <1>13
  <2> QED
    BY <1>9, <2>1
<1> QED
  BY <1>9, <1>14, <1>15

----------------------------------------------------------------------------
(* The states the encoder is in between two bits. *)

Ready == {e \in Encoders : Sound(e) /\ ~SameTopByte(e.coder)}

Start == [coder |-> NewCoder, output |-> << >>]

Coded1(e, bit, d, mode) == [e EXCEPT !.coder = Narrow(@, bit, d, mode)]

LEMMA StartReady == Start \in Ready /\ Start.coder.i = 0 /\ Len(Start.output) = 0
<1>1. NewCoder \in Coder /\ NewCoder.x1 <= NewCoder.x2 /\ NewCoder.i = 0
  <2>1. NewRatio(0) \in Ratio
    <3>1. 0 \in 0..(Prec - 1)
      BY Sizes
    <3> QED
      BY <3>1, NewRatioType
  <2>2. 0 \in Word /\ Reg - 1 \in Word /\ 0 <= Reg - 1
    BY Sizes DEF Word
  <2> QED
    BY <2>1, <2>2 DEF NewCoder, Coder
<1>2. ~SameTopByte(NewCoder)
  <2>1. TopByte(0) = 0
    BY Sizes DEF TopByte
  <2>2. TopByte(Reg - 1) = Base - 1
    <3>1. Reg - 1 = Base3 * (Base - 1) + (Base3 - 1)
      <4>1. Base3 * (Base - 1) = Base3 * Base - Base3
        BY Sizes
      <4> QED
        BY <4>1, Sizes
    <3>2. Reg - 1 \in Nat /\ Base - 1 \in Nat /\ Base3 - 1 \in 0..(Base3 - 1) /\ Base3 \in Nat \ {0}
      BY Sizes
    <3> QED
      BY <3>1, <3>2, QuotientUnique DEF TopByte
  <2> QED
    BY <2>1, <2>2, Sizes DEF SameTopByte, NewCoder
<1>3. << >> \in Seq(Byte) /\ Len(<< >>) = 0
  OBVIOUS
<1>4. Start.coder = NewCoder /\ Start.output = << >>
  BY DEF Start
<1>5. Start \in Encoders
  BY <1>1, <1>3 DEF Start, Encoders
<1> QED
  BY <1>1, <1>2, <1>3, <1>4, <1>5 DEF Ready, Sound

LEMMA CodedSound ==
  ASSUME NEW e \in Ready, NEW d \in 1..64, NEW mode, NEW bit \in {0, 1}
  PROVE  /\ Sound(Coded1(e, bit, d, mode))
         /\ Coded1(e, bit, d, mode).coder.i = e.coder.i + 1
         /\ Coded1(e, bit, d, mode).output = e.output
         /\ Coded1(e, bit, d, mode).coder = Narrow(e.coder, bit, d, mode)
<1>1. e.coder \in Coder /\ e.output \in Seq(Byte) /\ e.coder.x1 <= e.coder.x2 /\ ~SameTopByte(e.coder)
  BY DEF Ready, Sound, Encoders
<1> DEFINE n == Narrow(e.coder, bit, d, mode)
<1>2. n \in Coder /\ n.x1 <= n.x2 /\ n.i = e.coder.i + 1
  BY <1>1, NarrowInside
<1> HIDE DEF n
<1>3. Coded1(e, bit, d, mode) = [coder |-> n, output |-> e.output]
  BY DEF Coded1, Ready, Encoders, n
<1> QED
  BY <1>1, <1>2, <1>3 DEF Sound, Encoders, n

LEMMA BitReady ==
  ASSUME NEW e \in Ready, NEW d \in 1..64, NEW mode, NEW bit \in {0, 1}
  PROVE  LET f == Written(Coded1(e, bit, d, mode))
         IN  f \in Ready /\ f.coder.i = e.coder.i + 1
<1> DEFINE m == Coded1(e, bit, d, mode)
<1>1. Sound(m) /\ m.coder.i = e.coder.i + 1
  BY CodedSound
<1> HIDE DEF m
<1>2. Sound(Written(m)) /\ Extends(Written(m), m) /\ ~SameTopByte(Written(m).coder)
  BY <1>1, WrittenSettles
<1> QED
  BY <1>1, <1>2 DEF Ready, Sound, Extends, m

\* The states of the encoder after each of the first n bits of a sequence ...
Traces(bits, n, d, mode) ==
  {E \in [0..n -> Ready] :
     /\ E[0] = Start
     /\ \A k \in 1..n : E[k] = Written(Coded1(E[k - 1], bits[k], d, mode))}

\* ... and after those of a value.
Paths(v, d, mode) == Traces(BitsOf(v, d), d, d, mode)

\* There is but one such sequence of states.
LEMMA OneTrace ==
  ASSUME NEW bits, NEW n \in Nat, NEW d, NEW mode,
         NEW E \in Traces(bits, n, d, mode), NEW F \in Traces(bits, n, d, mode)
  PROVE  E = F
<1> DEFINE T == {k \in 0..n : E[k] = F[k]}
<1>1. E \in [0..n -> Ready] /\ E[0] = Start
      /\ \A k \in 1..n : E[k] = Written(Coded1(E[k - 1], bits[k], d, mode))
  BY DEF Traces
<1>2. F \in [0..n -> Ready] /\ F[0] = Start
      /\ \A k \in 1..n : F[k] = Written(Coded1(F[k - 1], bits[k], d, mode))
  BY DEF Traces
<1>3. 0 \in T
  BY <1>1, <1>2
<1>4. ASSUME NEW k \in 0..(n - 1), k \in T PROVE k + 1 \in T
  <2>1. k + 1 \in 1..n /\ k + 1 \in 0..n /\ (k + 1) - 1 = k
    OBVIOUS
  <2> QED
    BY <1>1, <1>2, <1>4, <2>1
<1> HIDE DEF T
<1>5. 0..n \subseteq T
  BY <1>3, <1>4, InductionUpTo
<1> QED
  BY <1>1, <1>2, <1>5 DEF T

\* A bit more.
Grows(E, more, n, d, mode) ==
  \E F \in Traces(more, n + 1, d, mode) :
    /\ \A k \in 0..n : F[k] = E[k]
    /\ F[n + 1] = Written(Coded1(E[n], more[n + 1], d, mode))

LEMMA TraceGrows ==
  ASSUME NEW bits, NEW n \in Nat, NEW d \in 1..64, NEW mode, NEW E \in Traces(bits, n, d, mode),
         NEW more, \A k \in 1..n : more[k] = bits[k], more[n + 1] \in {0, 1}
  PROVE  Grows(E, more, n, d, mode)
<1> DEFINE f == Written(Coded1(E[n], more[n + 1], d, mode))
           F == [k \in 0..(n + 1) |-> IF k = n + 1 THEN f ELSE E[k]]
<1>1. E \in [0..n -> Ready] /\ E[0] = Start
      /\ \A k \in 1..n : E[k] = Written(Coded1(E[k - 1], bits[k], d, mode))
  BY DEF Traces
<1>2. f \in Ready
  <2>1. E[n] \in Ready
    BY <1>1
  <2> QED
    BY <2>1, BitReady
<1> HIDE DEF f
<1>3. \A k \in 0..n : k \in 0..(n + 1) /\ k # n + 1
  OBVIOUS
<1>4. (\A k \in 0..n : F[k] = E[k]) /\ F[n + 1] = f
  BY <1>3
<1>5. \A k \in 0..(n + 1) : k = n + 1 \/ k \in 0..n
  OBVIOUS
<1>6. F \in [0..(n + 1) -> Ready]
  BY <1>1, <1>2, <1>5
<1> HIDE DEF F
<1>7. F[0] = Start
  BY <1>1, <1>4
<1>8. ASSUME NEW k \in 1..(n + 1) PROVE F[k] = Written(Coded1(F[k - 1], more[k], d, mode))
  <2>1. CASE k = n + 1
    <3>1. k - 1 = n /\ n \in 0..n
      BY <2>1
    <3> QED
      BY <1>4, <2>1, <3>1 DEF f
  <2>2. CASE k \in 1..n
    <3>1. k \in 0..n /\ k - 1 \in 0..n
      BY <2>2
    <3> QED
      BY <1>1, <1>4, <2>2, <3>1
  <2>3. k = n + 1 \/ k \in 1..n
    OBVIOUS
  <2> QED
    BY <2>1, <2>2, <2>3
<1>9. F \in Traces(more, n + 1, d, mode)
  BY <1>6, <1>7, <1>8 DEF Traces
<1> QED
  BY <1>4, <1>9 DEF f, Grows

LEMMA EncoderPath ==
  ASSUME NEW v \in Nat, NEW d \in 1..64, NEW mode
  PROVE  \E E \in Paths(v, d, mode) : EncodedBits(v, d, mode) = E[d]
<1> DEFINE value == BitsOf(v, d)
           turn(f) == [n \in 0..d |->
             IF n = 0 THEN [coder |-> NewCoder, output |-> << >>]
             ELSE Written([f[n - 1] EXCEPT !.coder = Narrow(@, value[n], d, mode)])]
           after == CHOOSE f : f = turn(f)
           step == [n \in 1..d |-> [e \in Ready |-> Written(Coded1(e, value[n], d, mode))]]
<1>0. d \in Nat
  OBVIOUS
<1>1. EncodedBits(v, d, mode) = after[d]
  BY DEF EncodedBits
<1>2. value \in [1..d -> {0, 1}]
  BY <1>0, BitsUnfold
<1>3. \A f : turn(f) = [n \in 0..d |-> IF n = 0 THEN Start ELSE Written(Coded1(f[n - 1], value[n], d, mode))]
  BY DEF Start, Coded1
<1> HIDE DEF value, turn
<1>4. \A n \in 1..d : \A e \in Ready : Written(Coded1(e, value[n], d, mode)) \in Ready
  BY <1>2, BitReady
<1>5. step \in [1..d -> [Ready -> Ready]]
  BY <1>4
<1>6. \A n \in 1..d : \A e \in Ready : step[n][e] = Written(Coded1(e, value[n], d, mode))
  OBVIOUS
<1> HIDE DEF step
<1>7. Start \in Ready
  BY StartReady
<1>8. Recursively(d, Ready, Start, step) # {}
  BY <1>0, <1>5, <1>7, Recursion
<1>9. PICK g \in [0..d -> Ready] : g[0] = Start /\ \A n \in 1..d : g[n] = step[n][g[n - 1]]
  BY <1>8 DEF Recursively
<1>10. \A n \in 1..d : n - 1 \in 0..d /\ n \in 0..d /\ n # 0
  OBVIOUS
<1>11. \A n \in 1..d : g[n] = Written(Coded1(g[n - 1], value[n], d, mode))
  BY <1>6, <1>9, <1>10
<1>12. g = turn(g)
  <2>1. \A n \in 0..d : n # 0 => n \in 1..d
    OBVIOUS
  <2>2. \A n \in 0..d : g[n] = IF n = 0 THEN Start ELSE Written(Coded1(g[n - 1], value[n], d, mode))
    BY <1>9, <1>11, <2>1
  <2>3. g = [n \in 0..d |-> g[n]]
    BY <1>9
  <2> QED
    BY <1>3, <2>2, <2>3
<1>13. after = turn(after)
  BY <1>12
<1> HIDE DEF after
<1>14. after = [n \in 0..d |-> IF n = 0 THEN Start ELSE Written(Coded1(after[n - 1], value[n], d, mode))]
  BY <1>3, <1>13
<1>15. after[0] = Start /\ \A n \in 1..d : after[n] = Written(Coded1(after[n - 1], value[n], d, mode))
  <2>1. 0 \in 0..d
    OBVIOUS
  <2>2. \A n \in 0..d : after[n] = IF n = 0 THEN Start ELSE Written(Coded1(after[n - 1], value[n], d, mode))
    BY <1>14
  <2> QED
    BY <1>10, <2>1, <2>2
<1> DEFINE T == {n \in 0..d : after[n] \in Ready}
<1>16. 0..d \subseteq T
  <2>1. 0 \in T
    BY <1>7, <1>15
  <2>2. ASSUME NEW n \in 0..(d - 1), n \in T PROVE n + 1 \in T
    <3>1. n + 1 \in 1..d /\ n + 1 \in 0..d /\ (n + 1) - 1 = n
      OBVIOUS
    <3>2. after[n + 1] = Written(Coded1(after[n], value[n + 1], d, mode))
      BY <1>15, <3>1
    <3> QED
      BY <1>4, <2>2, <3>1, <3>2
  <2> HIDE DEF T
  <2> QED
    BY <1>0, <2>1, <2>2, InductionUpTo
<1>17. after \in [0..d -> Ready]
  <2>1. \A n \in 0..d : after[n] \in Ready
    BY <1>16
  <2>2. after = [n \in 0..d |-> after[n]]
    BY <1>14
  <2> QED
    BY <2>1, <2>2
<1>18. after \in Paths(v, d, mode)
  BY <1>15, <1>17 DEF Paths, Traces, value
<1> QED
  BY <1>1, <1>18

----------------------------------------------------------------------------
(* A stream that begins with an ended codeword is within every interval    *)
(* that the encoder went through.                                          *)

LEMMA CodedBack ==
  ASSUME NEW e \in Ready, NEW d \in 1..64, NEW mode, NEW bit \in {0, 1}, NEW s, Stream(s),
         Within(s, Coded1(e, bit, d, mode))
  PROVE  Within(s, e)
<1> DEFINE m == Coded1(e, bit, d, mode)
           n == Narrow(e.coder, bit, d, mode)
<1>1. m.output = e.output /\ m.coder = n
  BY CodedSound
<1>2. e.coder \in Coder /\ e.coder.x1 <= e.coder.x2 /\ ~SameTopByte(e.coder)
  BY DEF Ready, Sound, Encoders
<1>3. n \in Coder /\ e.coder.x1 <= n.x1 /\ n.x2 <= e.coder.x2
  BY <1>2, NarrowInside
<1>4. Len(e.output) \in Nat
  BY DEF Ready, Encoders
<1>5. WindowOf(s, Len(e.output)) \in Word
  BY <1>4, WindowShift DEF Stream
<1> DEFINE w == WindowOf(s, Len(e.output))
<1>6. /\ \A k \in 1..Len(e.output) : s[k] = e.output[k]
      /\ n.x1 <= w /\ w <= n.x2
  BY <1>1 DEF Within, Place
<1>7. n.x1 \in Word /\ n.x2 \in Word /\ e.coder.x1 \in Word /\ e.coder.x2 \in Word
  BY <1>2, <1>3 DEF Coder
<1> HIDE DEF n, w, m
<1>8. \A a \in Word : \A b \in Word : \A z \in Word : (a <= b /\ b <= z => a <= z)
  BY Sizes DEF Word
<1>9. e.coder.x1 <= w /\ w <= e.coder.x2
  BY <1>3, <1>5, <1>6, <1>7, <1>8 DEF w
<1> QED
  BY <1>6, <1>9 DEF Within, Place, w

LEMMA WrittenBack ==
  ASSUME NEW e, Sound(e), NEW s, Stream(s), Within(s, Written(e))
  PROVE  Within(s, e)
<1> DEFINE e1 == WriteOnce(e)
           e2 == WriteOnce(e1)
           e3 == WriteOnce(e2)
<1>1. Sound(e1)
  BY WriteOnceExtends
<1>2. Sound(e2)
  BY <1>1, WriteOnceExtends
<1>3. Sound(e3)
  BY <1>2, WriteOnceExtends
<1>4. Within(s, WriteOnce(e3))
  BY WrittenUnfolds
<1> HIDE DEF e3
<1>5. Within(s, WriteOnce(e2))
  BY <1>3, <1>4, WriteBack DEF e3
<1> HIDE DEF e2
<1>6. Within(s, WriteOnce(e1))
  BY <1>2, <1>5, WriteBack DEF e2
<1> HIDE DEF e1
<1> QED
  BY <1>1, <1>6, WriteBack DEF e1

\* The stream s begins with the sequence code.
Begins(s, code) == \A k \in 1..Len(code) : s[k] = code[k]

LEMMA LastInside ==
  ASSUME NEW e \in Ready, Settled(e.coder) # {}, NEW s, Stream(s),
         Begins(s, e.output \o FinalBytes(e.coder))
  PROVE  /\ Within(s, e)
         /\ Len(e.output \o FinalBytes(e.coder)) = Place(e) + FinalLength(e.coder)
         /\ FinalLength(e.coder) \in 1..4
<1>1. e.coder \in Coder /\ e.coder.x1 <= e.coder.x2 /\ e.output \in Seq(Byte)
  BY DEF Ready, Sound, Encoders
<1> DEFINE k == FirstSettled(e.coder)
           f == FinalBytes(e.coder)
           c == e.output \o f
<1>2. FinalBytes(e.coder) \in Seq(Byte) /\ FinalLength(e.coder) = k /\ Len(f) = k /\ k \in 1..4
  BY <1>1, FinalBytesType, FinalType
<1>3. c \in Seq(Byte) /\ Concatenates(c, e.output, f)
  BY <1>1, <1>2, Concatenation
<1>4. \A j \in 1..Len(c) : s[j] = c[j]
  BY DEF Begins
<1> HIDE DEF c, f, k
<1>5. Len(e.output) \in Nat /\ Len(c) = Len(e.output) + k
  BY <1>1, <1>2, <1>3 DEF Concatenates
<1>6. \A a \in Nat : \A b \in 1..4 : /\ \A j \in 1..a : j \in 1..(a + b)
                                     /\ \A j \in 1..b : a + j \in 1..(a + b)
  OBVIOUS
<1>7. /\ \A j \in 1..Len(e.output) : j \in 1..Len(c)
      /\ \A j \in 1..k : Len(e.output) + j \in 1..Len(c)
  BY <1>2, <1>5, <1>6
<1>8. \A j \in 1..Len(e.output) : s[j] = e.output[j]
  BY <1>3, <1>4, <1>7 DEF Concatenates
<1>9. \A j \in 1..k : s[Len(e.output) + j] = f[j]
  BY <1>2, <1>3, <1>4, <1>7 DEF Concatenates
<1>10. e.coder.x1 <= WindowOf(s, Len(e.output)) /\ WindowOf(s, Len(e.output)) <= e.coder.x2
  BY <1>1, <1>5, <1>9, FinalInside DEF Stream, f, k
<1> QED
  BY <1>2, <1>5, <1>8, <1>10 DEF Within, Place, c, f

LEMMA EverywhereInside ==
  ASSUME NEW v \in Nat, NEW d \in 1..64, NEW mode, NEW E \in Paths(v, d, mode),
         NEW s, Stream(s), Within(s, E[d])
  PROVE  \A n \in 1..d : /\ Within(s, E[n])
                         /\ Within(s, Coded1(E[n - 1], BitsOf(v, d)[n], d, mode))
                         /\ Within(s, E[n - 1])
<1> DEFINE value == BitsOf(v, d)
           m == [n \in 1..d |-> Coded1(E[n - 1], value[n], d, mode)]
           T == {j \in 0..d : Within(s, E[d - j])}
<1>0. d \in Nat
  OBVIOUS
<1>1. value \in [1..d -> {0, 1}]
  BY <1>0, BitsUnfold
<1>2. E \in [0..d -> Ready] /\ \A n \in 1..d : E[n] = Written(Coded1(E[n - 1], value[n], d, mode))
  BY DEF Paths, Traces
<1> HIDE DEF value
<1>3. ASSUME NEW n \in 1..d, Within(s, E[n])
      PROVE  Within(s, Coded1(E[n - 1], value[n], d, mode)) /\ Within(s, E[n - 1])
  <2>1. n - 1 \in 0..d /\ E[n - 1] \in Ready /\ value[n] \in {0, 1}
    BY <1>1, <1>2
  <2>2. Sound(Coded1(E[n - 1], value[n], d, mode))
    BY <2>1, CodedSound
  <2>3. Within(s, Written(Coded1(E[n - 1], value[n], d, mode)))
    BY <1>2, <1>3
  <2>4. Within(s, Coded1(E[n - 1], value[n], d, mode))
    BY <2>2, <2>3, WrittenBack
  <2> QED
    BY <2>1, <2>4, CodedBack
<1>4. 0 \in T
  <2>1. d - 0 = d /\ 0 \in 0..d
    OBVIOUS
  <2> QED
    BY <2>1
<1>5. ASSUME NEW j \in 0..(d - 1), j \in T PROVE j + 1 \in T
  <2>1. d - j \in 1..d /\ (d - j) - 1 = d - (j + 1) /\ j + 1 \in 0..d
    OBVIOUS
  <2>2. Within(s, E[d - j])
    BY <1>5
  <2>3. Within(s, E[(d - j) - 1])
    BY <2>1, <2>2, <1>3
  <2> QED
    BY <2>1, <2>3
<1> HIDE DEF T
<1>6. 0..d \subseteq T
  BY <1>0, <1>4, <1>5, InductionUpTo
<1>7. ASSUME NEW n \in 1..d PROVE Within(s, E[n])
  <2>1. d - n \in 0..d /\ d - (d - n) = n
    OBVIOUS
  <2> QED
    BY <1>6, <2>1 DEF T
<1> QED
  BY <1>3, <1>7 DEF value

----------------------------------------------------------------------------
(* The decoder in the encoder's footsteps.                                 *)

\* The locals of a decoder that has retraced the encoder up to e, over the stream s, and
\* whose memory begins after u bytes of the stream.
At(e, s, bits, u) ==
  [coder |-> e.coder, x |-> WindowOf(s, Place(e)), pos |-> (Place(e) + 4) - u,
   usedLength |-> Place(e), bits |-> bits]

\* The memory holds the first n bytes of s, without the first u of them.
Holds(memory, s, n) == \A k \in 1..n : memory[k] = s[k]
HoldsFrom(memory, s, u, n) == \A k \in 1..(n - u) : memory[k] = s[u + k]

\* A turn of the while loop of a decoder that began with r, or none.
ShiftTurn(r, memory, outputLimit, p) ==
  IF SameTopByte(p.coder) /\ ~(p.pos > r.pos /\ p.usedLength = outputLimit)
    THEN OneShift(p, memory) ELSE p

LEMMA ShiftedUnfolds ==
  ASSUME NEW r, NEW memory, NEW outputLimit
  PROVE  LET turned(p) == ShiftTurn(r, memory, outputLimit, p)
         IN  ShiftedUpTo(r, memory, outputLimit) = turned(turned(turned(turned(r))))
<1> DEFINE turned(p) == ShiftTurn(r, memory, outputLimit, p)
           turn(f) == [n \in 0..4 |->
             IF n = 0 THEN r
             ELSE LET p == f[n - 1]
                  IN  IF SameTopByte(p.coder) /\ ~(p.pos > r.pos /\ p.usedLength = outputLimit)
                        THEN OneShift(p, memory) ELSE p]
           shifted == CHOOSE f : f = turn(f)
           p1 == turned(r)
           p2 == turned(p1)
           p3 == turned(p2)
           p4 == turned(p3)
           g == [n \in 0..4 |-> IF n = 0 THEN r ELSE IF n = 1 THEN p1 ELSE IF n = 2 THEN p2
                                ELSE IF n = 3 THEN p3 ELSE p4]
<1>1. ShiftedUpTo(r, memory, outputLimit) = shifted[4]
  BY DEF ShiftedUpTo
<1>2. \A f : turn(f) = [n \in 0..4 |-> IF n = 0 THEN r ELSE turned(f[n - 1])]
  BY DEF ShiftTurn
<1>3. p1 = turned(r) /\ p2 = turned(p1) /\ p3 = turned(p2) /\ p4 = turned(p3)
  OBVIOUS
<1> HIDE DEF turn, turned, p1, p2, p3, p4
<1>4. g = [n \in 0..4 |-> IF n = 0 THEN r ELSE turned(g[n - 1])]
  <2>1. g[0] = r /\ g[1] = p1 /\ g[2] = p2 /\ g[3] = p3 /\ g[4] = p4
    OBVIOUS
  <2>2. g = [n \in 0..4 |-> g[n]]
    OBVIOUS
  <2> HIDE DEF g
  <2>3. \A n \in 0..4 : n = 0 \/ n = 1 \/ n = 2 \/ n = 3 \/ n = 4
    OBVIOUS
  <2>4. /\ g[1] = turned(g[1 - 1]) /\ g[2] = turned(g[2 - 1])
        /\ g[3] = turned(g[3 - 1]) /\ g[4] = turned(g[4 - 1])
    BY <1>3, <2>1
  <2>5. \A n \in 0..4 : g[n] = IF n = 0 THEN r ELSE turned(g[n - 1])
    BY <2>1, <2>3, <2>4
  <2> QED
    BY <2>2, <2>5
<1> HIDE DEF g
<1>5. shifted = turn(shifted)
  BY <1>2, <1>4
<1> HIDE DEF shifted
<1>6. shifted = [n \in 0..4 |-> IF n = 0 THEN r ELSE turned(shifted[n - 1])]
  BY <1>2, <1>5
<1>7. (\A n \in 1..4 : shifted[n] = turned(shifted[n - 1])) /\ shifted[0] = r
  BY <1>6
<1>8. shifted[1] = p1 /\ shifted[2] = p2 /\ shifted[3] = p3 /\ shifted[4] = p4
  BY <1>3, <1>7
<1>9. ShiftedUpTo(r, memory, outputLimit) = p4
  BY <1>1, <1>8
<1> QED
  BY <1>9 DEF p1, p2, p3, p4, turned

LEMMA ShiftFollows ==
  ASSUME NEW e, Sound(e), NEW s, Stream(s), NEW memory, NEW bits, NEW u \in 0..Place(e),
         HoldsFrom(memory, s, u, Place(WriteOnce(e)) + 4)
  PROVE  SameTopByte(e.coder) => OneShift(At(e, s, bits, u), memory) = At(WriteOnce(e), s, bits, u)
<1> SUFFICES ASSUME SameTopByte(e.coder)
             PROVE  OneShift(At(e, s, bits, u), memory) = At(WriteOnce(e), s, bits, u)
  OBVIOUS
<1> DEFINE n == Place(e)
           f == WriteOnce(e)
<1>1. n \in Nat /\ Place(f) = n + 1 /\ f.coder = Renorm(e.coder)
  BY WriteOnceKeeps DEF Place
<1>2. memory[((n + 4) - u) + 1] = s[n + 5]
  <2>1. \A a \in Nat : \A b \in 0..a : /\ ((a + 4) - b) + 1 \in 1..(((a + 1) + 4) - b)
                                       /\ b + (((a + 4) - b) + 1) = a + 5
    OBVIOUS
  <2>2. ((n + 4) - u) + 1 \in 1..(((n + 1) + 4) - u) /\ u + (((n + 4) - u) + 1) = n + 5
    BY <1>1, <2>1
  <2> QED
    BY <1>1, <2>2 DEF HoldsFrom
<1>3. ShiftIn(WindowOf(s, n), s[n + 5]) = WindowOf(s, n + 1)
  BY <1>1, WindowShift DEF Stream
<1>4. ((n + 4) - u) + 1 = ((n + 1) + 4) - u
  BY <1>1
<1> HIDE DEF n, f
<1>5. At(e, s, bits, u) = [coder |-> e.coder, x |-> WindowOf(s, n), pos |-> (n + 4) - u,
                           usedLength |-> n, bits |-> bits]
  BY DEF At, n
<1>6. At(f, s, bits, u) = [coder |-> Renorm(e.coder), x |-> WindowOf(s, n + 1),
                           pos |-> ((n + 1) + 4) - u, usedLength |-> n + 1, bits |-> bits]
  BY <1>1 DEF At
<1>7. OneShift(At(e, s, bits, u), memory) =
        [coder |-> Renorm(e.coder), x |-> ShiftIn(WindowOf(s, n), memory[((n + 4) - u) + 1]),
         pos |-> ((n + 4) - u) + 1, usedLength |-> n + 1, bits |-> bits]
  BY <1>5 DEF OneShift
<1> QED
  BY <1>2, <1>3, <1>4, <1>6, <1>7 DEF f

LEMMA ShiftedFollows ==
  ASSUME NEW e, Sound(e), NEW s, Stream(s), NEW memory, NEW bits, NEW u \in 0..Place(e),
         HoldsFrom(memory, s, u, Place(Written(e)) + 4)
  PROVE  Shifted(At(e, s, bits, u), memory) = At(Written(e), s, bits, u)
<1> DEFINE r == At(e, s, bits, u)
           e1 == WriteOnce(e)
           e2 == WriteOnce(e1)
           e3 == WriteOnce(e2)
           e4 == WriteOnce(e3)
           next(p) == ShiftTurn(r, memory, -1, p)
<1>0. Written(e) = e4
  BY WrittenUnfolds
<1>1. Shifted(r, memory) = next(next(next(next(r))))
  BY ShiftedUnfolds DEF Shifted
<1>2. Sound(e1) /\ Extends(e1, e)
  BY WriteOnceExtends
<1>3. ASSUME NEW h, Sound(h), u \in 0..Place(h), HoldsFrom(memory, s, u, Place(WriteOnce(h)) + 4)
      PROVE  At(WriteOnce(h), s, bits, u) = next(At(h, s, bits, u))
  <2>1. At(h, s, bits, u).coder = h.coder /\ At(h, s, bits, u).usedLength = Place(h)
    BY DEF At
  <2>2. Place(h) \in Nat
    BY <1>3, WriteOnceExtends DEF Extends, Place
  <2>3. Place(h) # -1
    BY <2>2
  <2>4. CASE SameTopByte(h.coder)
    BY <1>3, <2>1, <2>3, <2>4, ShiftFollows DEF ShiftTurn
  <2>5. CASE ~SameTopByte(h.coder)
    BY <2>1, <2>5 DEF WriteOnce, ShiftTurn
  <2> QED
    BY <2>4, <2>5
<1> HIDE DEF e1
<1>4. Sound(e2) /\ Extends(e2, e1)
  BY <1>2, WriteOnceExtends
<1> HIDE DEF e2
<1>5. Sound(e3) /\ Extends(e3, e2)
  BY <1>4, WriteOnceExtends
<1> HIDE DEF e3
<1>6. Sound(e4) /\ Extends(e4, e3)
  BY <1>5, WriteOnceExtends
<1> HIDE DEF e4
<1>7. /\ Place(e) \in Nat /\ Place(e1) \in Nat /\ Place(e2) \in Nat /\ Place(e3) \in Nat /\ Place(e4) \in Nat
      /\ Place(e) <= Place(e1) /\ Place(e1) <= Place(e2) /\ Place(e2) <= Place(e3) /\ Place(e3) <= Place(e4)
  BY <1>2, <1>4, <1>5, <1>6 DEF Extends, Place
<1>8. \A m \in Nat : m <= Place(e4) => HoldsFrom(memory, s, u, m + 4)
  <2> SUFFICES ASSUME NEW m \in Nat, m <= Place(e4) PROVE HoldsFrom(memory, s, u, m + 4)
    OBVIOUS
  <2>1. \A b \in Nat : \A a \in Int : m <= b => \A k \in 1..((m + 4) - a) : k \in 1..((b + 4) - a)
    OBVIOUS
  <2>2. \A k \in 1..((m + 4) - u) : k \in 1..((Place(e4) + 4) - u)
    BY <1>7, <2>1
  <2>3. HoldsFrom(memory, s, u, Place(e4) + 4)
    BY <1>0
  <2> QED
    BY <2>2, <2>3 DEF HoldsFrom
<1>9. /\ HoldsFrom(memory, s, u, Place(e1) + 4) /\ HoldsFrom(memory, s, u, Place(e2) + 4)
      /\ HoldsFrom(memory, s, u, Place(e3) + 4) /\ HoldsFrom(memory, s, u, Place(e4) + 4)
  <2>1. \A a, b, c, g \in Nat : a <= b /\ b <= c /\ c <= g => a <= g /\ b <= g /\ c <= g /\ g <= g
    OBVIOUS
  <2>2. Place(e1) <= Place(e4) /\ Place(e2) <= Place(e4) /\ Place(e3) <= Place(e4) /\ Place(e4) <= Place(e4)
    BY <1>7, <2>1
  <2> QED
    BY <1>7, <1>8, <2>2
<1>10. u \in 0..Place(e) /\ u \in 0..Place(e1) /\ u \in 0..Place(e2) /\ u \in 0..Place(e3)
  BY <1>7
<1> HIDE DEF next
<1>11. At(e1, s, bits, u) = next(At(e, s, bits, u))
  BY <1>3, <1>9, <1>10 DEF e1
<1>12. At(e2, s, bits, u) = next(At(e1, s, bits, u))
  BY <1>2, <1>3, <1>9, <1>10 DEF e2
<1>13. At(e3, s, bits, u) = next(At(e2, s, bits, u))
  BY <1>4, <1>3, <1>9, <1>10 DEF e3
<1>14. At(e4, s, bits, u) = next(At(e3, s, bits, u))
  BY <1>5, <1>3, <1>9, <1>10 DEF e4
<1> QED
  BY <1>0, <1>1, <1>11, <1>12, <1>13, <1>14 DEF r

\* The decision "x <= xmid", over the stream s.
Decided(e, s, d, mode) == IF WindowOf(s, Place(e)) <= XMid(e.coder, d, mode) THEN 1 ELSE 0

LEMMA InsideDecides ==
  ASSUME NEW e \in Ready, NEW d \in 1..64, NEW mode, NEW bit \in {0, 1}, NEW s, Stream(s),
         Within(s, Coded1(e, bit, d, mode))
  PROVE  bit = Decided(e, s, d, mode)
<1> DEFINE c == e.coder
           m == Coded1(e, bit, d, mode)
           w == WindowOf(s, Place(e))
<1>1. m.output = e.output /\ m.coder = Narrow(c, bit, d, mode)
  BY CodedSound
<1>2. c \in Coder /\ c.x1 <= c.x2 /\ ~SameTopByte(c) /\ Place(e) \in Nat
  BY DEF Ready, Sound, Encoders, Place
<1>3. w \in Word
  BY <1>2, WindowShift DEF Stream
<1>4. Place(m) = Place(e)
  BY <1>1 DEF Place
<1>5. Narrow(c, bit, d, mode).x1 <= w /\ w <= Narrow(c, bit, d, mode).x2
  BY <1>1, <1>4 DEF Within
<1> HIDE DEF c, m, w
<1>6. (IF w <= XMid(c, d, mode) THEN 1 ELSE 0) = bit
  BY <1>2, <1>3, <1>5, ChosenSide
<1> QED
  BY <1>6 DEF Decided, c, w

LEMMA BitFollows ==
  ASSUME NEW e \in Ready, NEW d \in 1..64, NEW mode, NEW bit \in {0, 1}, NEW s, NEW bits, NEW u,
         bit = Decided(e, s, d, mode)
  PROVE  OneBit(At(e, s, bits, u), Predictor(e.coder, d, mode))
           = At(Coded1(e, bit, d, mode), s, Append(bits, bit), u)
<1> DEFINE c == e.coder
           m == Coded1(e, bit, d, mode)
           w == WindowOf(s, Place(e))
           pr == Predictor(c, d, mode)
<1>1. m.output = e.output /\ m.coder = Narrow(c, bit, d, mode)
  BY CodedSound
<1>2. Place(m) = Place(e)
  BY <1>1 DEF Place
<1>3. (IF w <= XMid(c, d, mode) THEN 1 ELSE 0) = bit
  BY DEF Decided
<1> HIDE DEF c, m, w
<1>4. XMid(c, d, mode) = SplitPoint(c.x1, c.x2, GetRatio(pr))
  BY DEF XMid
<1>5. NarrowBy(c, bit, pr) = Narrow(c, bit, d, mode)
  BY DEF Narrow
<1> HIDE DEF pr
<1>6. At(e, s, bits, u) = [coder |-> c, x |-> w, pos |-> (Place(e) + 4) - u, usedLength |-> Place(e), bits |-> bits]
  BY DEF At, c, w
<1> DEFINE xmid == SplitPoint(c.x1, c.x2, GetRatio(pr))
           b == IF w <= xmid THEN 1 ELSE 0
<1>7. OneBit(At(e, s, bits, u), pr) =
         [coder |-> NarrowBy(c, b, pr), x |-> w, pos |-> (Place(e) + 4) - u,
          usedLength |-> Place(e), bits |-> Append(bits, b)]
  BY <1>6 DEF OneBit
<1>8. b = bit
  BY <1>3, <1>4
<1> HIDE DEF b
<1>9. At(m, s, Append(bits, bit), u) =
         [coder |-> Narrow(c, bit, d, mode), x |-> w, pos |-> (Place(e) + 4) - u,
          usedLength |-> Place(e), bits |-> Append(bits, bit)]
  BY <1>1, <1>2 DEF At, w
<1> QED
  BY <1>5, <1>7, <1>8, <1>9 DEF m, pr, c

\* The first n bits of a value.
First(value, n) == [k \in 1..n |-> value[k]]

LEMMA FirstGrows ==
  ASSUME NEW d \in Nat, NEW value \in [1..d -> {0, 1}], NEW n \in 1..d
  PROVE  Append(First(value, n - 1), value[n]) = First(value, n)
<1> DEFINE f == First(value, n - 1)
           g == First(value, n)
<1>1. n \in Nat /\ n - 1 \in Nat /\ n - 1 + 1 = n
  OBVIOUS
<1>2. \A k \in 1..n : k \in 1..d /\ value[k] \in {0, 1}
  OBVIOUS
<1>3. f = [k \in 1..(n - 1) |-> f[k]] /\ \A k \in 1..(n - 1) : f[k] = value[k] /\ value[k] \in {0, 1}
  BY DEF First
<1>4. g = [k \in 1..n |-> g[k]] /\ \A k \in 1..n : g[k] = value[k]
  BY DEF First
<1> HIDE DEF f, g
<1>5. f \in Seq({0, 1}) /\ Len(f) = n - 1
  BY <1>1, <1>3, FunctionIsSeq
<1>6. g \in Seq({0, 1}) /\ Len(g) = n
  BY <1>1, <1>2, <1>4, FunctionIsSeq
<1>7. Append(f, value[n]) \in Seq({0, 1}) /\ Len(Append(f, value[n])) = n
      /\ \A k \in 1..(n - 1) : Append(f, value[n])[k] = f[k]
      /\ Append(f, value[n])[n] = value[n]
  BY <1>1, <1>2, <1>5
<1>8. \A k \in 1..n : Append(f, value[n])[k] = g[k]
  <2>1. \A k \in 1..n : k = n \/ k \in 1..(n - 1)
    OBVIOUS
  <2> QED
    BY <2>1, <1>3, <1>4, <1>7
<1>9. Append(f, value[n]) = g
  BY <1>6, <1>7, <1>8
<1> QED
  BY <1>9 DEF f, g

\* The encoder only moves on, and has coded n bits after n of them.
MovesOn(E, d) ==
  \A n \in 0..d : /\ Place(E[n]) \in Nat
                  /\ Place(E[n]) <= Place(E[d])
                  /\ E[n].coder.i = n
                  /\ \A k \in 0..n : Place(E[k]) <= Place(E[n])

LEMMA PlacesGrow ==
  ASSUME NEW n \in Nat, NEW bits \in [1..n -> {0, 1}], NEW d \in 1..64, NEW mode,
         NEW E \in Traces(bits, n, d, mode)
  PROVE  MovesOn(E, n)
<1>1. E \in [0..n -> Ready] /\ E[0] = Start
      /\ \A k \in 1..n : E[k] = Written(Coded1(E[k - 1], bits[k], d, mode))
  BY DEF Traces
<1>2. ASSUME NEW k \in 1..n
      PROVE  /\ k - 1 \in 0..n /\ Place(E[k - 1]) \in Nat /\ Place(E[k]) \in Nat
             /\ Place(E[k - 1]) <= Place(E[k]) /\ E[k].coder.i = E[k - 1].coder.i + 1
  <2> DEFINE e == E[k - 1]
             m == Coded1(e, bits[k], d, mode)
  <2>1. k - 1 \in 0..n /\ k \in 0..n /\ bits[k] \in {0, 1}
    OBVIOUS
  <2>2. e \in Ready
    BY <1>1, <2>1
  <2> HIDE DEF e
  <2>3. Sound(m) /\ m.coder.i = e.coder.i + 1 /\ m.output = e.output
    BY <2>1, <2>2, CodedSound, Zenon
  <2> HIDE DEF m
  <2>4. Extends(Written(m), m)
    BY <2>3, WrittenSettles
  <2>5. E[k] = Written(m)
    BY <1>1 DEF m, e
  <2> QED
    BY <2>1, <2>3, <2>4, <2>5 DEF Extends, Place, e
<1> DEFINE T == {k \in 0..n : E[k].coder.i = k}
           U == {m \in 0..n : \A k \in 0..m : Place(E[k]) <= Place(E[m])}
<1>3. 0..n \subseteq T
  <2>1. 0 \in T
    BY <1>1, StartReady
  <2>2. ASSUME NEW k \in 0..(n - 1), k \in T PROVE k + 1 \in T
    <3>1. k + 1 \in 1..n /\ k + 1 \in 0..n /\ (k + 1) - 1 = k
      OBVIOUS
    <3> QED
      BY <1>2, <2>2, <3>1
  <2> HIDE DEF T
  <2> QED
    BY <2>1, <2>2, InductionUpTo
<1>4. \A k \in 0..n : Place(E[k]) \in Nat
  <2>1. Place(E[0]) \in Nat
    BY <1>1, StartReady DEF Place
  <2>2. \A k \in 0..n : k # 0 => k \in 1..n
    OBVIOUS
  <2> QED
    BY <1>2, <2>1, <2>2
<1>5. 0..n \subseteq U
  <2>1. 0 \in U
    <3>1. 0 \in 0..n /\ \A k \in 0..0 : k = 0
      OBVIOUS
    <3> QED
      BY <3>1, <1>4
  <2>2. ASSUME NEW m \in 0..(n - 1), m \in U PROVE m + 1 \in U
    <3>1. m + 1 \in 1..n /\ (m + 1) - 1 = m /\ m + 1 \in 0..n /\ m \in 0..n
      OBVIOUS
    <3>2. Place(E[m]) <= Place(E[m + 1]) /\ Place(E[m]) \in Nat /\ Place(E[m + 1]) \in Nat
      BY <1>2, <3>1
    <3>3. ASSUME NEW k \in 0..(m + 1) PROVE Place(E[k]) <= Place(E[m + 1])
      <4>1. CASE k = m + 1
        BY <3>2, <4>1
      <4>2. CASE k \in 0..m
        <5>1. Place(E[k]) <= Place(E[m]) /\ Place(E[k]) \in Nat
          <6>1. k \in 0..n
            BY <3>1, <4>2
          <6> QED
            BY <1>4, <2>2, <4>2, <6>1
        <5> DEFINE a == Place(E[k])
                   b == Place(E[m])
                   c == Place(E[m + 1])
        <5> HIDE DEF a, b, c
        <5>2. a <= c
          BY <3>2, <5>1 DEF a, b, c
        <5> QED
          BY <5>2 DEF a, c
      <4>3. k = m + 1 \/ k \in 0..m
        OBVIOUS
      <4> QED
        BY <4>1, <4>2, <4>3
    <3> QED
      BY <3>1, <3>3
  <2> HIDE DEF U
  <2> QED
    BY <2>1, <2>2, InductionUpTo
<1>6. ASSUME NEW m \in 0..n PROVE /\ Place(E[m]) <= Place(E[n])
                                  /\ \A k \in 0..m : Place(E[k]) <= Place(E[m])
  <2>1. n \in 0..n /\ m \in 0..n
    OBVIOUS
  <2> QED
    BY <1>5, <2>1
<1> QED
  BY <1>3, <1>4, <1>6 DEF MovesOn

\* The bits are those that a decoder of the stream s finds in the states of E.
Deciding(E, bits, n, s, d, mode) == \A k \in 1..n : bits[k] = Decided(E[k - 1], s, d, mode)

\* A decoder that goes on where one has decoded i bits, with its bounds: the Ratio that it
\* keeps does not matter, since it is given the one for the next bit.
Continues(r, e, s, bits, u) ==
  r = [At(e, s, bits, u) EXCEPT !.coder = [x1 |-> e.coder.x1, x2 |-> e.coder.x2, i |-> e.coder.i, pr |-> r.coder.pr]]

\* The bits that it produces in the end, and the bytes that it has used then.
Finishes(r, pr, memory, d, mode, bits, e) ==
  DecodeFrom(r, pr, memory, d, mode)
    = [value |-> ValueOf(bits), usedLength |-> Place(e) + FinalLength(e.coder)]

\* What it makes of any memory: the encoder's states for the bits that it decides on.
LEMMA DecodeRest ==
  ASSUME NEW d \in 1..64, NEW value \in [1..d -> {0, 1}], NEW mode, NEW E \in Traces(value, d, d, mode),
         NEW s, Stream(s), Deciding(E, value, d, s, d, mode),
         NEW i \in 0..(d - 1), NEW u \in 0..Place(E[i]),
         NEW memory, HoldsFrom(memory, s, u, Place(E[d]) + 4),
         NEW r, Continues(r, E[i], s, First(value, i), u)
  PROVE  Finishes(r, Predictor(E[i].coder, d, mode), memory, d, mode, value, E[d])
<1> DEFINE pr == Predictor(E[i].coder, d, mode)
           used(n, p) == IF n = i + 1 THEN pr ELSE Predictor(p.coder, d, mode)
           turn(f) == [n \in r.coder.i..d |->
             IF n = r.coder.i THEN r
             ELSE LET p == f[n - 1]
                  IN  Shifted(OneBit(p, IF n = r.coder.i + 1 THEN pr ELSE Predictor(p.coder, d, mode)),
                              memory)]
           after == CHOOSE f : f = turn(f)
           last == after[d]
           at(n) == At(E[n], s, First(value, n), u)
           g == [n \in i..d |-> IF n = i THEN r ELSE at(n)]
           next(n, p) == Shifted(OneBit(p, used(n, p)), memory)
<1>0. d \in Nat /\ i \in 0..d /\ d \in i..d /\ i \in i..d /\ d # i /\ i \in Nat
  OBVIOUS
<1>1. DecodeFrom(r, pr, memory, d, mode)
        = [value |-> ValueOf(last.bits), usedLength |-> last.usedLength + FinalLength(last.coder)]
  BY DEF DecodeFrom
<1>2. value \in [1..d -> {0, 1}]
  OBVIOUS
<1>3. E \in [0..d -> Ready] /\ E[0] = Start /\ \A n \in 1..d : E[n] = Written(Coded1(E[n - 1], value[n], d, mode))
  BY DEF Traces
<1>4. \A n \in 1..d : value[n] = Decided(E[n - 1], s, d, mode)
  BY DEF Deciding
<1>5. /\ \A n \in 0..d : Place(E[n]) \in Nat /\ Place(E[n]) <= Place(E[d]) /\ E[n].coder.i = n
      /\ \A n \in i..d : Place(E[i]) <= Place(E[n])
  <2>1. MovesOn(E, d)
    BY <1>0, PlacesGrow
  <2>2. \A n \in i..d : n \in 0..d /\ i <= n
    OBVIOUS
  <2> QED
    BY <1>0, <2>1, <2>2 DEF MovesOn
<1>6. r.coder.i = i
  BY <1>0, <1>5 DEF Continues, At
<1>7. \A q : OneBit(r, q) = OneBit(at(i), q)
  <2>1. /\ r.x = at(i).x /\ r.pos = at(i).pos /\ r.usedLength = at(i).usedLength /\ r.bits = at(i).bits
        /\ r.coder.x1 = at(i).coder.x1 /\ r.coder.x2 = at(i).coder.x2 /\ r.coder.i = at(i).coder.i
    BY DEF Continues, At
  <2> HIDE DEF at
  <2> QED
    BY <2>1 DEF OneBit, NarrowBy
<1> HIDE DEF pr
<1>9. \A f : turn(f) = [n \in i..d |-> IF n = i THEN r ELSE next(n, f[n - 1])]
  BY <1>6
<1>10. ASSUME NEW n \in (i + 1)..d PROVE at(n) = next(n, at(n - 1))
  <2> DEFINE e == E[n - 1]
             m == Coded1(e, value[n], d, mode)
             p == at(n - 1)
  <2>1. n \in 1..d /\ n - 1 \in 0..d /\ e \in Ready /\ value[n] \in {0, 1} /\ n \in 0..d /\ n - 1 \in i..d
    BY <1>0, <1>2, <1>3
  <2>2. p.coder = e.coder
    BY DEF At
  <2>3. used(n, p) = Predictor(e.coder, d, mode)
    <3>1. n = i + 1 => n - 1 = i
      OBVIOUS
    <3> QED
      BY <2>2, <3>1 DEF pr
  <2>4. value[n] = Decided(e, s, d, mode)
    BY <1>4, <2>1
  <2> HIDE DEF e
  <2>5. OneBit(p, Predictor(e.coder, d, mode)) = At(m, s, Append(First(value, n - 1), value[n]), u)
    <3>1. p = At(e, s, First(value, n - 1), u)
      BY DEF e
    <3> HIDE DEF p
    <3>2. OneBit(At(e, s, First(value, n - 1), u), Predictor(e.coder, d, mode))
            = At(m, s, Append(First(value, n - 1), value[n]), u)
      BY <2>1, <2>4, BitFollows
    <3> QED
      BY <3>1, <3>2
  <2>6. Append(First(value, n - 1), value[n]) = First(value, n)
    BY <1>0, <1>2, <2>1, FirstGrows
  <2>7. Sound(m) /\ m.output = e.output
    BY <2>1, CodedSound
  <2>8. Written(m) = E[n]
    BY <1>3, <2>1 DEF e
  <2>9. u \in 0..Place(m)
    <3>1. Place(m) = Place(E[n - 1])
      BY <2>7 DEF Place, e
    <3>2. Place(E[i]) \in Nat /\ Place(E[n - 1]) \in Nat /\ Place(E[i]) <= Place(E[n - 1])
      BY <1>0, <1>5, <2>1
    <3> QED
      BY <3>1, <3>2
  <2> HIDE DEF m, e, p
  <2>10. HoldsFrom(memory, s, u, Place(Written(m)) + 4)
    <3>1. \A a \in Nat : \A b \in Nat : \A c \in Nat : a <= b => \A k \in 1..((a + 4) - c) : k \in 1..((b + 4) - c)
      OBVIOUS
    <3>2. Place(E[n]) \in Nat /\ Place(E[d]) \in Nat /\ Place(E[n]) <= Place(E[d]) /\ u \in Nat
      BY <1>0, <1>5, <2>1
    <3>3. \A k \in 1..((Place(E[n]) + 4) - u) : k \in 1..((Place(E[d]) + 4) - u)
      BY <3>1, <3>2
    <3> QED
      BY <2>8, <3>3 DEF HoldsFrom
  <2>11. Shifted(At(m, s, First(value, n), u), memory) = At(Written(m), s, First(value, n), u)
    BY <2>7, <2>9, <2>10, ShiftedFollows
  <2> QED
    BY <2>3, <2>5, <2>6, <2>8, <2>11 DEF p, e
<1>11. ASSUME NEW n, n = i + 1 PROVE next(n, r) = next(n, at(i))
  BY <1>7, <1>11
<1> HIDE DEF turn, next, at
<1>12. g = [n \in i..d |-> IF n = i THEN r ELSE next(n, g[n - 1])]
  <2>1. g[i] = r /\ \A n \in i..d : n # i => g[n] = at(n)
    BY <1>0
  <2>2. g = [n \in i..d |-> g[n]]
    OBVIOUS
  <2> HIDE DEF g
  <2>3. ASSUME NEW n \in i..d, n # i PROVE g[n] = next(n, g[n - 1])
    <3>1. n \in (i + 1)..d /\ n - 1 \in i..d
      BY <2>3
    <3>2. at(n) = next(n, at(n - 1))
      BY <1>10, <3>1
    <3>3. CASE n - 1 = i
      <4>1. n = i + 1
        BY <3>3
      <4> QED
        BY <1>11, <2>1, <2>3, <3>2, <3>3, <4>1
    <3>4. CASE n - 1 # i
      BY <2>1, <2>3, <3>1, <3>2, <3>4
    <3> QED
      BY <3>3, <3>4
  <2>4. \A n \in i..d : g[n] = IF n = i THEN r ELSE next(n, g[n - 1])
    BY <2>1, <2>3
  <2> QED
    BY <2>2, <2>4
<1>13. g[d] = at(d) /\ g[i] = r
  BY <1>0
<1> HIDE DEF g
<1>14. after = turn(after)
  BY <1>9, <1>12
<1> HIDE DEF after
<1>15. after = [n \in i..d |-> IF n = i THEN r ELSE next(n, after[n - 1])]
  BY <1>9, <1>14
<1> DEFINE T == {k \in 0..(d - i) : after[i + k] = g[i + k]}
<1>16. 0..(d - i) \subseteq T
  <2>1. 0 \in T
    <3>1. i + 0 = i /\ 0 \in 0..(d - i)
      BY <1>0
    <3> QED
      BY <1>0, <1>13, <1>15, <3>1
  <2>2. ASSUME NEW k \in 0..((d - i) - 1), k \in T PROVE k + 1 \in T
    <3>1. /\ i + (k + 1) \in i..d /\ i + (k + 1) # i /\ (i + (k + 1)) - 1 = i + k
          /\ k + 1 \in 0..(d - i)
      OBVIOUS
    <3>2. after[i + (k + 1)] = next(i + (k + 1), after[i + k])
      BY <1>15, <3>1
    <3>3. g[i + (k + 1)] = next(i + (k + 1), g[i + k])
      BY <1>12, <3>1
    <3> QED
      BY <2>2, <3>1, <3>2, <3>3
  <2> HIDE DEF T
  <2>3. d - i \in Nat
    BY <1>0
  <2> QED
    BY <2>1, <2>2, <2>3, InductionUpTo
<1>17. last = at(d)
  <2>1. d - i \in 0..(d - i) /\ i + (d - i) = d
    BY <1>0
  <2> QED
    BY <1>13, <1>16, <2>1
<1>18. First(value, d) = value
  BY <1>2 DEF First
<1> HIDE DEF last
<1> QED
  BY <1>1, <1>17, <1>18 DEF At, at, pr, Finishes

LEMMA DecodeTraces ==
  ASSUME NEW d \in 1..64, NEW value \in [1..d -> {0, 1}], NEW mode, NEW E \in Traces(value, d, d, mode),
         NEW s, Stream(s), Deciding(E, value, d, s, d, mode),
         NEW memory, Holds(memory, s, Place(E[d]) + 4)
  PROVE  AthDecoding(memory, d, mode)
           = [value |-> ValueOf(value), usedLength |-> Place(E[d]) + FinalLength(E[d].coder)]
<1> DEFINE r == Reading(NewCoder, memory, 0, << >>)
<1>1. d \in Nat /\ 0 \in 0..(d - 1) /\ d \in 0..d
  OBVIOUS
<1>2. Place(E[0]) = 0 /\ E[0].coder = NewCoder
  BY StartReady DEF Traces, Place, Start
<1>3. Place(E[d]) \in Nat
  <2>1. MovesOn(E, d)
    BY <1>1, PlacesGrow
  <2> QED
    BY <1>1, <2>1 DEF MovesOn
<1>4. HoldsFrom(memory, s, 0, Place(E[d]) + 4)
  <2>1. \A a \in Nat : \A k \in 1..((a + 4) - 0) : k \in 1..(a + 4) /\ 0 + k = k
    OBVIOUS
  <2> QED
    BY <1>3, <2>1 DEF Holds, HoldsFrom
<1>5. Continues(r, E[0], s, First(value, 0), 0)
  <2>1. \A m \in Nat : 1 \in 1..(m + 4) /\ 2 \in 1..(m + 4) /\ 3 \in 1..(m + 4) /\ 4 \in 1..(m + 4)
    OBVIOUS
  <2>2. memory[1] = s[1] /\ memory[2] = s[2] /\ memory[3] = s[3] /\ memory[4] = s[4]
    BY <1>3, <2>1 DEF Holds
  <2>3. WindowOf(memory, 0) = WindowOf(s, 0)
    BY <2>2 DEF WindowOf
  <2>4. First(value, 0) = << >>
    BY DEF First
  <2>5. At(E[0], s, First(value, 0), 0)
          = [coder |-> NewCoder, x |-> WindowOf(memory, 0), pos |-> 4, usedLength |-> 0, bits |-> << >>]
    BY <1>2, <2>3, <2>4 DEF At
  <2>6. NewCoder = [x1 |-> NewCoder.x1, x2 |-> NewCoder.x2, i |-> NewCoder.i, pr |-> NewCoder.pr]
    BY DEF NewCoder
  <2> QED
    BY <1>2, <2>5, <2>6 DEF Reading, Continues
<1>6. 0 \in 0..Place(E[0])
  BY <1>2
<1> HIDE DEF r
<1>7. Finishes(r, Predictor(E[0].coder, d, mode), memory, d, mode, value, E[d])
  BY <1>1, <1>4, <1>5, <1>6, DecodeRest
<1> QED
  BY <1>2, <1>7 DEF AthDecoding, r, Finishes

LEMMA PathDecides ==
  ASSUME NEW v \in Nat, NEW d \in 1..64, NEW mode, NEW E \in Paths(v, d, mode),
         NEW s, Stream(s), Within(s, E[d])
  PROVE  Deciding(E, BitsOf(v, d), d, s, d, mode)
<1> DEFINE value == BitsOf(v, d)
<1>1. d \in Nat
  OBVIOUS
<1>2. value \in [1..d -> {0, 1}]
  BY <1>1, BitsUnfold
<1>3. \A n \in 1..d : Within(s, Coded1(E[n - 1], value[n], d, mode))
  BY EverywhereInside
<1>4. E \in Traces(value, d, d, mode)
  BY DEF Paths
<1> HIDE DEF value
<1>5. E \in [0..d -> Ready]
  BY <1>4 DEF Traces
<1>6. ASSUME NEW n \in 1..d PROVE value[n] = Decided(E[n - 1], s, d, mode)
  <2>1. n - 1 \in 0..d /\ E[n - 1] \in Ready /\ value[n] \in {0, 1}
    BY <1>2, <1>5
  <2>2. Within(s, Coded1(E[n - 1], value[n], d, mode))
    BY <1>3
  <2> QED
    BY <2>1, <2>2, InsideDecides
<1> QED
  BY <1>6 DEF Deciding, value

LEMMA DecodeFollows ==
  ASSUME NEW v \in Nat, NEW d \in 1..64, NEW mode, NEW E \in Paths(v, d, mode),
         NEW s, Stream(s), Within(s, E[d]), NEW memory, Holds(memory, s, Place(E[d]) + 4)
  PROVE  AthDecoding(memory, d, mode)
           = [value |-> ValueOf(BitsOf(v, d)), usedLength |-> Place(E[d]) + FinalLength(E[d].coder)]
<1> DEFINE value == BitsOf(v, d)
<1>1. d \in Nat
  OBVIOUS
<1>2. value \in [1..d -> {0, 1}]
  BY <1>1, BitsUnfold
<1>3. E \in Traces(value, d, d, mode)
  BY DEF Paths
<1>4. Deciding(E, value, d, s, d, mode)
  BY PathDecides
<1> HIDE DEF value
<1>5. AthDecoding(memory, d, mode)
        = [value |-> ValueOf(value), usedLength |-> Place(E[d]) + FinalLength(E[d].coder)]
  BY <1>2, <1>3, <1>4, DecodeTraces
<1> QED
  BY <1>5 DEF value

----------------------------------------------------------------------------
(* The value is put together again from its bits.                          *)

\* v has no bit above its d lowest ones: d halvings leave nothing of it.
FitsIn(v, d) == \E rest \in Halvings(v, d) : rest[d] = 0

LEMMA HalvingsUnique ==
  ASSUME NEW v, NEW d \in Nat, NEW p \in Halvings(v, d), NEW q \in Halvings(v, d)
  PROVE  p = q
<1> DEFINE T == {n \in 0..d : p[n] = q[n]}
<1>1. p \in [0..d -> Nat] /\ p[0] = v /\ \A k \in 1..d : p[k] = p[k - 1] \div 2
  BY DEF Halvings
<1>2. q \in [0..d -> Nat] /\ q[0] = v /\ \A k \in 1..d : q[k] = q[k - 1] \div 2
  BY DEF Halvings
<1>3. 0 \in T
  BY <1>1, <1>2
<1>4. ASSUME NEW n \in 0..(d - 1), n \in T PROVE n + 1 \in T
  <2>1. n + 1 \in 1..d /\ n + 1 \in 0..d /\ (n + 1) - 1 = n
    OBVIOUS
  <2> QED
    BY <1>1, <1>2, <1>4, <2>1
<1> HIDE DEF T
<1>5. 0..d \subseteq T
  BY <1>3, <1>4, InductionUpTo
<1> QED
  BY <1>1, <1>2, <1>5 DEF T

LEMMA ValueIsBack ==
  ASSUME NEW v \in Nat, NEW d \in Nat, FitsIn(v, d)
  PROVE  ValueOf(BitsOf(v, d)) = v
<1> DEFINE bits == BitsOf(v, d)
           turn(f) == [k \in 1..(Len(bits) + 1) |->
                         IF k = Len(bits) + 1 THEN 0 ELSE bits[k] + 2 * f[k + 1]]
           from == CHOOSE f : f = turn(f)
<1>1. ValueOf(bits) = from[1]
  BY DEF ValueOf
<1>2. PICK rest \in Halvings(v, d) : bits = [k \in 1..d |-> rest[k - 1] % 2]
  BY BitsUnfold
<1>3. rest[d] = 0
  BY HalvingsUnique DEF FitsIn
<1>4. rest \in [0..d -> Nat] /\ rest[0] = v /\ \A k \in 1..d : rest[k] = rest[k - 1] \div 2
  BY DEF Halvings
<1>5. Len(bits) = d
  BY <1>2
<1>6. \A k \in 1..d : bits[k] = rest[k - 1] % 2
  BY <1>2
<1> HIDE DEF bits
<1> DEFINE g == [k \in 1..(d + 1) |-> rest[k - 1]]
<1>7. \A k \in 1..d : k - 1 \in 0..d /\ k \in 0..d /\ k \in 1..(d + 1) /\ k # d + 1 /\ k + 1 \in 1..(d + 1)
                      /\ (k + 1) - 1 = k
  OBVIOUS
<1>8. \A n \in Nat : n = (n % 2) + 2 * (n \div 2)
  OBVIOUS
<1>9. \A k \in 1..d : rest[k - 1] = bits[k] + 2 * rest[k]
  BY <1>4, <1>6, <1>7, <1>8
<1>10. turn(g) = [k \in 1..(d + 1) |-> IF k = d + 1 THEN 0 ELSE bits[k] + 2 * g[k + 1]]
  BY <1>5
<1>11. \A k \in 1..(d + 1) : g[k] = IF k = d + 1 THEN 0 ELSE bits[k] + 2 * g[k + 1]
  <2>1. \A k \in 1..(d + 1) : k = d + 1 \/ k \in 1..d
    OBVIOUS
  <2>2. d + 1 \in 1..(d + 1) /\ (d + 1) - 1 = d
    OBVIOUS
  <2>3. g[d + 1] = 0
    BY <1>3, <2>2
  <2>4. \A k \in 1..d : g[k] = rest[k - 1] /\ g[k + 1] = rest[k]
    BY <1>7
  <2> HIDE DEF g
  <2> QED
    BY <1>7, <1>9, <2>1, <2>3, <2>4
<1>12. g = turn(g)
  BY <1>10, <1>11
<1>13. from = turn(from)
  BY <1>12
<1> HIDE DEF from
<1>14. from = [k \in 1..(d + 1) |-> IF k = d + 1 THEN 0 ELSE bits[k] + 2 * from[k + 1]]
  BY <1>5, <1>13
<1> HIDE DEF turn
<1> DEFINE T == {j \in 0..d : from[(d + 1) - j] = rest[d - j]}
<1>15. 0 \in T
  <2>1. (d + 1) - 0 = d + 1 /\ d - 0 = d /\ 0 \in 0..d /\ d + 1 \in 1..(d + 1)
    OBVIOUS
  <2>2. from[d + 1] = 0
    BY <1>14, <2>1
  <2> QED
    BY <1>3, <2>1, <2>2
<1>16. ASSUME NEW j \in 0..(d - 1), j \in T PROVE j + 1 \in T
  <2>1. d - j \in 1..d /\ (d + 1) - (j + 1) = d - j /\ (d - j) - 1 = d - (j + 1)
        /\ (d - j) + 1 = (d + 1) - j /\ j + 1 \in 0..d
    OBVIOUS
  <2>2. from[d - j] = bits[d - j] + 2 * from[(d - j) + 1]
    BY <1>7, <1>14, <2>1
  <2>3. from[(d - j) + 1] = rest[d - j]
    BY <1>16, <2>1
  <2>4. rest[(d - j) - 1] = bits[d - j] + 2 * rest[d - j]
    BY <1>9, <2>1
  <2> QED
    BY <2>1, <2>2, <2>3, <2>4
<1> HIDE DEF T
<1>17. 0..d \subseteq T
  BY <1>15, <1>16, InductionUpTo
<1>18. from[1] = v
  <2>1. d \in 0..d /\ (d + 1) - d = 1 /\ d - d = 0
    OBVIOUS
  <2> QED
    BY <1>4, <1>17, <2>1 DEF T
<1> QED
  BY <1>1, <1>18 DEF bits

(* And bits from their value. *)
LEMMA BitsAreBack ==
  ASSUME NEW d \in Nat, NEW bits \in [1..d -> {0, 1}]
  PROVE  ValueOf(bits) \in Nat /\ BitsOf(ValueOf(bits), d) = bits /\ FitsIn(ValueOf(bits), d)
<1> DEFINE turn(f) == [k \in 1..(Len(bits) + 1) |->
                         IF k = Len(bits) + 1 THEN 0 ELSE bits[k] + 2 * f[k + 1]]
           from == CHOOSE f : f = turn(f)
           step == [j \in 1..d |-> [n \in Nat |-> bits[(d + 1) - j] + 2 * n]]
<1>1. ValueOf(bits) = from[1]
  BY DEF ValueOf
<1>2. bits \in Seq({0, 1}) /\ Len(bits) = d
  <2>1. bits = [k \in 1..d |-> bits[k]] /\ \A k \in 1..d : bits[k] \in {0, 1}
    OBVIOUS
  <2> QED
    BY <2>1, FunctionIsSeq
<1>3. \A j \in 1..d : (d + 1) - j \in 1..d /\ (d + 1) - ((d + 1) - j) = j
  OBVIOUS
<1>4. \A j \in 1..d : bits[(d + 1) - j] \in Nat
  <2>1. \A j \in 1..d : bits[(d + 1) - j] \in {0, 1}
    BY <1>3
  <2> QED
    BY <2>1
<1>5. step \in [1..d -> [Nat -> Nat]]
  <2>1. \A a \in Nat : \A n \in Nat : a + 2 * n \in Nat
    OBVIOUS
  <2> QED
    BY <1>4, <2>1
<1>6. \A j \in 1..d : \A n \in Nat : step[j][n] = bits[(d + 1) - j] + 2 * n
  OBVIOUS
<1> HIDE DEF step
<1>7. PICK g \in [0..d -> Nat] : g[0] = 0 /\ \A j \in 1..d : g[j] = step[j][g[j - 1]]
  <2>1. Recursively(d, Nat, 0, step) # {}
    BY <1>5, Recursion
  <2> QED
    BY <2>1 DEF Recursively
<1>8. \A j \in 1..d : g[j] = bits[(d + 1) - j] + 2 * g[j - 1]
  <2>1. \A j \in 1..d : j - 1 \in 0..d
    OBVIOUS
  <2> QED
    BY <1>6, <1>7, <2>1
<1> DEFINE h == [k \in 1..(d + 1) |-> g[(d + 1) - k]]
<1>9. \A k \in 1..d : k # d + 1 /\ k + 1 \in 1..(d + 1) /\ k \in 1..(d + 1)
                      /\ (d + 1) - k \in 1..d /\ (d + 1) - (k + 1) = ((d + 1) - k) - 1
  OBVIOUS
<1>10. \A k \in 1..(d + 1) : h[k] = IF k = d + 1 THEN 0 ELSE bits[k] + 2 * h[k + 1]
  <2>1. \A k \in 1..(d + 1) : k = d + 1 \/ k \in 1..d
    OBVIOUS
  <2>2. d + 1 \in 1..(d + 1) /\ (d + 1) - (d + 1) = 0
    OBVIOUS
  <2>3. h[d + 1] = 0
    BY <1>7, <2>2
  <2>4. ASSUME NEW k \in 1..d PROVE h[k] = bits[k] + 2 * h[k + 1]
    <3>1. h[k] = g[(d + 1) - k] /\ h[k + 1] = g[((d + 1) - k) - 1]
      BY <1>9
    <3>2. g[(d + 1) - k] = bits[(d + 1) - ((d + 1) - k)] + 2 * g[((d + 1) - k) - 1]
      BY <1>8, <1>9
    <3> QED
      BY <1>3, <3>1, <3>2
  <2> HIDE DEF h
  <2> QED
    BY <1>9, <2>1, <2>3, <2>4
<1>11. \A f : turn(f) = [k \in 1..(d + 1) |-> IF k = d + 1 THEN 0 ELSE bits[k] + 2 * f[k + 1]]
  BY <1>2
<1> HIDE DEF turn
<1>12. h = turn(h)
  BY <1>10, <1>11
<1> HIDE DEF h
<1>13. from = turn(from)
  BY <1>12
<1> HIDE DEF from
<1>14. from[d + 1] = 0 /\ \A k \in 1..d : from[k] = bits[k] + 2 * from[k + 1]
  <2>1. from = [k \in 1..(d + 1) |-> IF k = d + 1 THEN 0 ELSE bits[k] + 2 * from[k + 1]]
    BY <1>11, <1>13
  <2>2. d + 1 \in 1..(d + 1)
    OBVIOUS
  <2> QED
    BY <1>9, <2>1, <2>2
<1> DEFINE T == {j \in 0..d : from[(d + 1) - j] \in Nat}
<1>15. 0..d \subseteq T
  <2>1. 0 \in T
    BY <1>14
  <2>2. ASSUME NEW j \in 0..(d - 1), j \in T PROVE j + 1 \in T
    <3>1. (d + 1) - (j + 1) \in 1..d /\ ((d + 1) - (j + 1)) + 1 = (d + 1) - j /\ j + 1 \in 0..d
      OBVIOUS
    <3>2. from[(d + 1) - (j + 1)] = bits[(d + 1) - (j + 1)] + 2 * from[(d + 1) - j]
      BY <1>14, <3>1
    <3>3. bits[(d + 1) - (j + 1)] \in {0, 1}
      BY <3>1
    <3>4. \A a \in {0, 1} : \A n \in Nat : a + 2 * n \in Nat
      OBVIOUS
    <3> QED
      BY <2>2, <3>1, <3>2, <3>3, <3>4
  <2> HIDE DEF T
  <2> QED
    BY <2>1, <2>2, InductionUpTo
<1>16. \A k \in 1..(d + 1) : from[k] \in Nat
  <2>1. \A k \in 1..(d + 1) : (d + 1) - k \in 0..d /\ (d + 1) - ((d + 1) - k) = k
    OBVIOUS
  <2> QED
    BY <1>15, <2>1
<1>17. ValueOf(bits) \in Nat
  <2>1. 1 \in 1..(d + 1)
    OBVIOUS
  <2> QED
    BY <1>1, <1>16, <2>1
<1>18. PICK rest \in Halvings(ValueOf(bits), d) : BitsOf(ValueOf(bits), d) = [k \in 1..d |-> rest[k - 1] % 2]
  BY <1>17, BitsUnfold
<1>19. rest[0] = from[1] /\ \A k \in 1..d : rest[k] = rest[k - 1] \div 2
  BY <1>1 DEF Halvings
<1>20. \A k \in 1..d : from[k] \div 2 = from[k + 1] /\ from[k] % 2 = bits[k]
  <2> TAKE k \in 1..d
  <2>1. from[k] = bits[k] + 2 * from[k + 1] /\ from[k + 1] \in Nat /\ bits[k] \in {0, 1}
    BY <1>9, <1>14, <1>16
  <2>2. \A a \in {0, 1} : \A n \in Nat : (a + 2 * n) \div 2 = n /\ (a + 2 * n) % 2 = a
    OBVIOUS
  <2> QED
    BY <2>1, <2>2
<1> DEFINE U == {k \in 0..d : rest[k] = from[k + 1]}
<1>21. 0..d \subseteq U
  <2>1. 0 \in U
    BY <1>19
  <2>2. ASSUME NEW k \in 0..(d - 1), k \in U PROVE k + 1 \in U
    <3>1. k + 1 \in 1..d /\ k + 1 \in 0..d /\ (k + 1) - 1 = k
      OBVIOUS
    <3>2. rest[k + 1] = from[k + 1] \div 2
      BY <1>19, <2>2, <3>1
    <3> QED
      BY <1>20, <3>1, <3>2
  <2> HIDE DEF U
  <2> QED
    BY <2>1, <2>2, InductionUpTo
<1>22. \A k \in 1..d : rest[k - 1] % 2 = bits[k]
  <2>1. \A k \in 1..d : k - 1 \in 0..d /\ (k - 1) + 1 = k
    OBVIOUS
  <2> QED
    BY <1>20, <1>21, <2>1
<1>23. [k \in 1..d |-> rest[k - 1] % 2] = bits
  BY <1>22
<1>24. rest[d] = 0
  <2>1. d \in 0..d
    OBVIOUS
  <2> QED
    BY <1>14, <1>21, <2>1
<1> QED
  BY <1>17, <1>18, <1>23, <1>24 DEF FitsIn

----------------------------------------------------------------------------
\* A memory that begins with the codeword of v: the encoder's states, and the stream that
\* the decoders find them in.
Held(E, s, v, d, mode, memory) ==
  /\ E \in Paths(v, d, mode) /\ Stream(s) /\ Within(s, E[d])
  /\ \A k \in 1..Len(memory) : s[k] = memory[k]
  /\ Place(E[d]) + 4 <= Len(memory)
  /\ Holds(memory, s, Place(E[d]) + 4)
  /\ Len(AthEncoding(v, d, mode)) = Place(E[d]) + FinalLength(E[d].coder)

LEMMA CodewordHeld ==
  ASSUME NEW v \in Nat, NEW d \in 1..64, NEW mode, Ends(v, d, mode),
         NEW memory \in Seq(Byte), Begins(memory, AthEncoding(v, d, mode)),
         Len(memory) >= Len(AthEncoding(v, d, mode)) + 3
  PROVE  \E E \in Paths(v, d, mode) : \E s : Held(E, s, v, d, mode, memory)
<1> DEFINE code == AthEncoding(v, d, mode)
           s == [k \in Nat |-> IF k \in 1..Len(memory) THEN memory[k] ELSE 0]
<1>0. d \in Nat
  OBVIOUS
<1>1. PICK E \in Paths(v, d, mode) : EncodedBits(v, d, mode) = E[d]
  BY EncoderPath
<1> DEFINE e == E[d]
<1>2. e \in Ready
  <2>1. E \in [0..d -> Ready] /\ d \in 0..d
    BY DEF Paths, Traces
  <2> QED
    BY <2>1
<1>3. code = e.output \o FinalBytes(e.coder)
  BY <1>1 DEF AthEncoding
<1>4. Settled(e.coder) # {}
  BY <1>1 DEF Ends
<1>5. Stream(s)
  <2>1. 0 \in Byte
    BY Sizes DEF Byte
  <2>2. \A k \in 1..Len(memory) : memory[k] \in Byte
    OBVIOUS
  <2> QED
    BY <2>1, <2>2 DEF Stream
<1>6. \A k \in 1..Len(memory) : s[k] = memory[k]
  OBVIOUS
<1> HIDE DEF s, code, e
<1>7. Len(e.output) \in Nat /\ FinalBytes(e.coder) \in Seq(Byte)
  BY <1>2, FinalBytesType DEF Ready, Encoders
<1>8. Len(code) \in Nat /\ Len(memory) \in Nat /\ Len(memory) >= Len(code) + 3
      /\ \A k \in 1..Len(code) : memory[k] = code[k]
  <2>1. e.output \in Seq(Byte)
    BY <1>2 DEF Ready, Encoders
  <2>2. code \in Seq(Byte)
    BY <1>3, <1>7, <2>1, Concatenation
  <2> QED
    BY <2>2 DEF Begins, code
<1>9. Begins(s, e.output \o FinalBytes(e.coder))
  <2>1. \A a \in Nat : \A b \in Nat : b >= a + 3 => \A k \in 1..a : k \in 1..b
    OBVIOUS
  <2>2. \A k \in 1..Len(code) : k \in 1..Len(memory)
    BY <1>8, <2>1
  <2>3. \A k \in 1..Len(code) : s[k] = code[k]
    BY <1>6, <1>8, <2>2
  <2> QED
    BY <1>3, <2>3 DEF Begins
<1>10. Within(s, e) /\ Len(code) = Place(e) + FinalLength(e.coder) /\ FinalLength(e.coder) \in 1..4
  BY <1>2, <1>3, <1>4, <1>5, <1>9, LastInside
<1>11. Holds(memory, s, Place(e) + 4) /\ Place(e) + 4 <= Len(memory)
  <2>1. \A a \in Nat : \A f \in 1..4 : \A b \in Nat : b >= (a + f) + 3 => \A k \in 1..(a + 4) : k \in 1..b
    OBVIOUS
  <2>2. Place(e) \in Nat /\ Len(memory) >= (Place(e) + FinalLength(e.coder)) + 3
    BY <1>7, <1>8, <1>10 DEF Place
  <2>3. \A k \in 1..(Place(e) + 4) : k \in 1..Len(memory)
    BY <1>8, <1>10, <2>1, <2>2
  <2>4. Place(e) + 4 <= Len(memory)
    BY <1>8, <1>10, <2>2
  <2> QED
    BY <1>6, <2>3, <2>4 DEF Holds
<1> QED
  BY <1>5, <1>6, <1>10, <1>11 DEF Held, e, code

(* A codeword decodes to the bits that were encoded, and to its own length: for every    *)
(* width of AthEncoding and AthDecoding, every mode and every table of probabilities,    *)
(* whatever the three bytes are that the decoder reads behind the codeword, as long as   *)
(* the encoder could end it.                                                             *)
THEOREM CallsRetrieve ==
  ASSUME NEW v \in Nat, NEW d \in 1..64, NEW mode, Ends(v, d, mode),
         NEW memory \in Seq(Byte), Begins(memory, AthEncoding(v, d, mode)),
         Len(memory) >= Len(AthEncoding(v, d, mode)) + 3
  PROVE  AthDecoding(memory, d, mode)
           = [value |-> ValueOf(BitsOf(v, d)), usedLength |-> Len(AthEncoding(v, d, mode))]
<1>1. PICK E \in Paths(v, d, mode) : \E s : Held(E, s, v, d, mode, memory)
  BY CodewordHeld
<1>2. PICK s : Held(E, s, v, d, mode, memory)
  BY <1>1
<1>3. AthDecoding(memory, d, mode)
        = [value |-> ValueOf(BitsOf(v, d)), usedLength |-> Place(E[d]) + FinalLength(E[d].coder)]
  BY <1>2, DecodeFollows DEF Held
<1> QED
  BY <1>2, <1>3 DEF Held

(* These bits are the value, if it has no others: AthDecoding undoes AthEncoding.        *)
THEOREM CallsRoundTrip ==
  ASSUME NEW v \in Nat, NEW d \in 1..64, NEW mode, FitsIn(v, d), Ends(v, d, mode),
         NEW memory \in Seq(Byte), Begins(memory, AthEncoding(v, d, mode)),
         Len(memory) >= Len(AthEncoding(v, d, mode)) + 3
  PROVE  AthDecoding(memory, d, mode) = [value |-> v, usedLength |-> Len(AthEncoding(v, d, mode))]
<1>1. d \in Nat
  OBVIOUS
<1>2. ValueOf(BitsOf(v, d)) = v
  BY <1>1, ValueIsBack
<1> QED
  BY <1>2, CallsRetrieve

----------------------------------------------------------------------------
(* The decoder that is stopped.  A PrebuildState whose interval is settled no further *)
(* is the encoder's state after the bits that it holds.                               *)

\* The while loop shifts as far as it can, or it is left in the middle.
LEMMA ShiftedOrStopped ==
  ASSUME NEW r, r.usedLength \in Nat, NEW memory, NEW outputLimit
  PROVE  \/ ShiftedUpTo(r, memory, outputLimit) = Shifted(r, memory)
         \/ LET s == ShiftedUpTo(r, memory, outputLimit)
            IN  SameTopByte(s.coder) /\ s.pos > r.pos /\ s.usedLength = outputLimit
<1> DEFINE up(p) == ShiftTurn(r, memory, outputLimit, p)
           on(p) == ShiftTurn(r, memory, -1, p)
           Left(p) == SameTopByte(p.coder) /\ p.pos > r.pos /\ p.usedLength = outputLimit
           Alike(p, o) == p = o \/ Left(p)
<1>1. ASSUME NEW p, NEW o, Alike(p, o), o.usedLength \in Nat
      PROVE  Alike(up(p), on(o)) /\ on(o).usedLength \in Nat
  <2>1. o.usedLength # -1 /\ OneShift(o, memory).usedLength \in Nat
    BY <1>1 DEF OneShift
  <2>2. CASE p = o
    BY <1>1, <2>1, <2>2 DEF ShiftTurn
  <2>3. CASE Left(p)
    BY <1>1, <2>1, <2>3 DEF ShiftTurn
  <2> QED
    BY <1>1, <2>2, <2>3
<1>2. Alike(r, r)
  OBVIOUS
<1>3. ShiftedUpTo(r, memory, outputLimit) = up(up(up(up(r))))
  BY ShiftedUnfolds
<1>4. Shifted(r, memory) = on(on(on(on(r))))
  BY ShiftedUnfolds DEF Shifted
<1> DEFINE p1 == up(r)
           p2 == up(p1)
           p3 == up(p2)
           p4 == up(p3)
           o1 == on(r)
           o2 == on(o1)
           o3 == on(o2)
           o4 == on(o3)
<1>5. ShiftedUpTo(r, memory, outputLimit) = p4 /\ Shifted(r, memory) = o4
  BY <1>3, <1>4
<1> HIDE DEF Alike, up, on
<1>6. Alike(p1, o1) /\ o1.usedLength \in Nat
  BY <1>1, <1>2
<1> HIDE DEF p1, o1
<1>7. Alike(p2, o2) /\ o2.usedLength \in Nat
  BY <1>1, <1>6
<1> HIDE DEF p2, o2
<1>8. Alike(p3, o3) /\ o3.usedLength \in Nat
  BY <1>1, <1>7
<1> HIDE DEF p3, o3
<1>9. Alike(p4, o4)
  BY <1>1, <1>8
<1> HIDE DEF p4, o4
<1> QED
  BY <1>5, <1>9 DEF Alike

\* The Ratio has learnt from the bits of its segment.
Learnt(e, d) ==
  e.coder.i = 0 \/ e.coder.pr.count = e.coder.i - Segment(d, e.coder.i - 1) * SegSize(d)

LEMMA SegSizeNat == ASSUME NEW d \in 1..64 PROVE SegSize(d) \in Nat
  BY DEF SegSize

LEMMA SameSegment ==
  ASSUME NEW d \in 1..64, NEW i \in Nat, i # Segment(d, i) * SegSize(d)
  PROVE  i # 0 /\ Segment(d, i - 1) = Segment(d, i)
<1> DEFINE q == SegSize(d)
<1>1. q \in Nat
  BY SegSizeNat
<1> HIDE DEF q
<1>2. Segment(d, i) = IF i < q THEN 0 ELSE IF i < 2 * q THEN 1 ELSE 2
  BY DEF Segment, q
<1>3. Segment(d, i - 1) = IF i - 1 < q THEN 0 ELSE IF i - 1 < 2 * q THEN 1 ELSE 2
  BY DEF Segment, q
<1>4. i # Segment(d, i) * q
  BY DEF q
<1>5. CASE i < q
  <2>1. Segment(d, i) = 0
    BY <1>2, <1>5
  <2>2. i # 0
    BY <1>1, <1>4, <2>1
  <2> QED
    BY <1>1, <1>3, <1>5, <2>1, <2>2
<1>6. CASE ~(i < q) /\ i < 2 * q
  <2>1. Segment(d, i) = 1
    BY <1>2, <1>6
  <2>2. i # q
    BY <1>1, <1>4, <2>1
  <2> QED
    BY <1>1, <1>3, <1>6, <2>1, <2>2
<1>7. CASE ~(i < q) /\ ~(i < 2 * q)
  <2>1. Segment(d, i) = 2
    BY <1>2, <1>7
  <2>2. i # 2 * q
    BY <1>1, <1>4, <2>1
  <2> QED
    BY <1>1, <1>3, <1>7, <2>1, <2>2
<1> QED
  BY <1>5, <1>6, <1>7

LEMMA StartsAtZero ==
  ASSUME NEW d \in 1..64
  PROVE  Segment(d, 0) * SegSize(d) = 0
<1> DEFINE q == SegSize(d)
<1>1. q \in Nat
  BY SegSizeNat
<1>2. Segment(d, 0) = IF 0 < q THEN 0 ELSE IF 0 < 2 * q THEN 1 ELSE 2
  BY DEF Segment
<1> HIDE DEF q
<1>3. CASE q = 0
  <2>1. Segment(d, 0) = 2
    BY <1>2, <1>3
  <2> QED
    BY <1>3, <2>1 DEF q
<1>4. CASE q # 0
  <2>1. Segment(d, 0) = 0
    BY <1>1, <1>2, <1>4
  <2> QED
    BY <1>1, <2>1 DEF q
<1> QED
  BY <1>3, <1>4

\* The Ratio that predicts a bit, and its count.
LEMMA PredictorCounts ==
  ASSUME NEW e \in Ready, NEW d \in 1..64, NEW mode, Learnt(e, d)
  PROVE  Predictor(e.coder, d, mode).count = e.coder.i - Segment(d, e.coder.i) * SegSize(d)
<1> DEFINE i == e.coder.i
           q == SegSize(d)
           n == Segment(d, i)
<1>0. i \in Nat /\ q \in Nat
  BY SegSizeNat DEF Ready, Sound, Encoders, Coder
<1>1. CASE i = n * q
  <2>1. Predictor(e.coder, d, mode) = NewRatio(SegRatio(d, mode, n))
    BY <1>1 DEF Predictor
  <2>2. Predictor(e.coder, d, mode).count = 0
    BY <2>1 DEF NewRatio
  <2> HIDE DEF i, q, n
  <2>3. i - n * q = 0
    BY <1>0, <1>1
  <2> QED
    BY <2>2, <2>3 DEF i, n, q
<1>2. CASE i # n * q
  <2>1. Predictor(e.coder, d, mode) = e.coder.pr
    BY <1>2 DEF Predictor
  <2>2. i # 0 /\ Segment(d, i - 1) = n
    BY <1>0, <1>2, SameSegment
  <2> QED
    BY <2>1, <2>2 DEF Learnt
<1> QED
  BY <1>1, <1>2

LEMMA WrittenKeepsRatio ==
  ASSUME NEW e, Sound(e)
  PROVE  Written(e).coder.pr = e.coder.pr /\ Written(e).coder.i = e.coder.i
<1> DEFINE Same(f) == Sound(f) /\ f.coder.pr = e.coder.pr /\ f.coder.i = e.coder.i
<1>1. ASSUME NEW f, Same(f) PROVE Same(WriteOnce(f))
  <2>1. CASE SameTopByte(f.coder)
    <3>1. WriteOnce(f).coder = Renorm(f.coder) /\ Sound(WriteOnce(f)) /\ WriteOnce(f).coder.i = f.coder.i
      BY <1>1, <2>1, WriteOnceKeeps
    <3>2. f.coder \in Coder
      BY <1>1 DEF Sound, Encoders
    <3>3. Renorm(f.coder).pr = f.coder.pr
      BY <3>2 DEF Renorm, Coder
    <3> QED
      BY <1>1, <3>1, <3>3
  <2>2. CASE ~SameTopByte(f.coder)
    BY <1>1, <2>2 DEF WriteOnce
  <2> QED
    BY <2>1, <2>2
<1>2. Same(e)
  OBVIOUS
<1> HIDE DEF Same
<1>3. Same(WriteOnce(WriteOnce(WriteOnce(WriteOnce(e)))))
  BY <1>1, <1>2
<1> QED
  BY <1>3, WrittenUnfolds DEF Same

LEMMA CountsLearnt ==
  ASSUME NEW d \in 1..64, NEW value \in [1..d -> {0, 1}], NEW mode, NEW E \in Traces(value, d, d, mode)
  PROVE  \A n \in 0..d : Learnt(E[n], d)
<1>0. d \in Nat
  OBVIOUS
<1>1. E \in [0..d -> Ready] /\ E[0] = Start
      /\ \A n \in 1..d : E[n] = Written(Coded1(E[n - 1], value[n], d, mode))
  BY DEF Traces
<1> DEFINE T == {n \in 0..d : Learnt(E[n], d)}
<1>2. 0 \in T
  <2>1. Learnt(E[0], d)
    BY <1>1, StartReady DEF Learnt
  <2>2. 0 \in 0..d
    BY <1>0
  <2> QED
    BY <2>1, <2>2
<1>3. ASSUME NEW n \in 0..(d - 1), n \in T PROVE n + 1 \in T
  <2> DEFINE e == E[n]
             i == e.coder.i
             pr == Predictor(e.coder, d, mode)
             m == Coded1(e, value[n + 1], d, mode)
  <2>1. n + 1 \in 1..d /\ n + 1 \in 0..d /\ (n + 1) - 1 = n /\ n \in 0..d
    OBVIOUS
  <2>2. e \in Ready /\ Learnt(e, d) /\ value[n + 1] \in {0, 1} /\ E[n + 1] = Written(m)
    BY <1>1, <1>3, <2>1
  <2>3. i \in Nat
    BY <2>2 DEF Ready, Sound, Encoders, Coder
  <2>4. pr.count = i - Segment(d, i) * SegSize(d)
    BY <2>2, PredictorCounts
  <2>5. Sound(m) /\ m.coder = Narrow(e.coder, value[n + 1], d, mode) /\ m.coder.i = i + 1
    BY <2>2, CodedSound
  <2>6. m.coder.pr.count = pr.count + 1
    <3>1. m.coder.pr = Update(pr, value[n + 1])
      BY <2>5 DEF Narrow, NarrowBy
    <3> QED
      BY <3>1 DEF Update
  <2>7. E[n + 1].coder.pr = m.coder.pr /\ E[n + 1].coder.i = i + 1
    BY <2>2, <2>5, WrittenKeepsRatio
  <2> DEFINE g == Segment(d, i) * SegSize(d)
  <2>8. g \in Int
    <3>1. SegSize(d) \in Nat /\ Segment(d, i) \in {0, 1, 2}
      BY SegSizeNat DEF Segment
    <3>2. \A a \in {0, 1, 2} : \A b \in Nat : a * b \in Int
      OBVIOUS
    <3> QED
      BY <3>1, <3>2
  <2>9. (i + 1) - 1 = i
    BY <2>3
  <2> HIDE DEF g, i
  <2>10. E[n + 1].coder.pr.count = (i + 1) - g
    BY <2>3, <2>4, <2>6, <2>7, <2>8 DEF g
  <2>11. Learnt(E[n + 1], d)
    BY <2>7, <2>9, <2>10 DEF Learnt, g
  <2> QED
    BY <2>1, <2>11
<1> HIDE DEF T
<1>4. 0..d \subseteq T
  BY <1>0, <1>2, <1>3, InductionUpTo
<1> QED
  BY <1>4 DEF T

\* What a PrebuildState keeps of the encoder's state after the bits that it holds.
KeptAs(p, e, q, bits) ==
  p = [x1 |-> e.coder.x1, x2 |-> e.coder.x2, ratio |-> q.ratio, bits |-> bits, usedLength |-> Place(e)]

Kept(p, e, bits, d, mode) ==
  \/ KeptAs(p, e, Predictor(e.coder, d, mode), bits)
  \/ e.coder.i # 0 /\ KeptAs(p, e, e.coder.pr, bits)

\* One turn of the loop of AthDecoding_prebuild, n - 1 bits behind it.
Turned(t, at, p0, p1, before, after, d, mode) ==
  /\ t.saved = {} => t = [r |-> at, saved |-> {}]
  /\ \A p \in t.saved : SameTopByte(p) \/ Kept(p, p0, before, d, mode) \/ Kept(p, p1, after, d, mode)

LEMMA PrebuildTurn ==
  ASSUME NEW d \in 1..64, NEW value \in [1..d -> {0, 1}], NEW mode, NEW E \in Traces(value, d, d, mode),
         NEW s, Stream(s), Deciding(E, value, d, s, d, mode),
         NEW memory, Holds(memory, s, Place(E[d]) + 4),
         NEW outputLimit, NEW inputLimit, NEW n \in 1..d
  PROVE  Turned(PrebuildBit(At(E[n - 1], s, First(value, n - 1), 0), memory, d, outputLimit, inputLimit, mode),
                At(E[n], s, First(value, n), 0), E[n - 1], E[n], First(value, n - 1), First(value, n), d, mode)
<1> DEFINE e == E[n - 1]
           m == Coded1(e, value[n], d, mode)
           r == At(e, s, First(value, n - 1), 0)
           pr == Predictor(e.coder, d, mode)
           one == OneBit(r, pr)
           up == ShiftedUpTo(one, memory, outputLimit)
           at == At(E[n], s, First(value, n), 0)
           t == PrebuildBit(r, memory, d, outputLimit, inputLimit, mode)
<1>0. d \in Nat
  OBVIOUS
<1>1. E \in [0..d -> Ready] /\ E[n] = Written(m)
  BY DEF Traces
<1>2. n - 1 \in 0..d /\ n \in 0..d /\ n # 0 /\ value[n] \in {0, 1} /\ e \in Ready
  BY <1>1
<1>3. /\ Place(e) \in Nat /\ Place(E[n]) \in Nat /\ Place(E[n]) <= Place(E[d]) /\ Place(E[d]) \in Nat
      /\ E[n].coder.i = n
  <2>1. MovesOn(E, d)
    BY <1>0, PlacesGrow
  <2>2. d \in 0..d
    BY <1>0
  <2> QED
    BY <1>2, <2>1, <2>2 DEF MovesOn
<1>4. value[n] = Decided(e, s, d, mode)
  BY DEF Deciding
<1>5. one = At(m, s, First(value, n), 0)
  <2>1. one = At(m, s, Append(First(value, n - 1), value[n]), 0)
    BY <1>2, <1>4, BitFollows
  <2>2. Append(First(value, n - 1), value[n]) = First(value, n)
    BY <1>0, FirstGrows
  <2> QED
    BY <2>1, <2>2
<1>6. Sound(m) /\ m.output = e.output
  BY <1>2, CodedSound
<1>7. Place(m) = Place(e)
  BY <1>6 DEF Place
<1>8. Shifted(one, memory) = at
  <2>1. HoldsFrom(memory, s, 0, Place(Written(m)) + 4)
    <3>1. \A a \in Nat : \A b \in Nat : a <= b => \A k \in 1..((a + 4) - 0) : k \in 1..(b + 4) /\ 0 + k = k
      OBVIOUS
    <3>2. \A k \in 1..((Place(E[n]) + 4) - 0) : k \in 1..(Place(E[d]) + 4) /\ 0 + k = k
      BY <1>3, <3>1
    <3> QED
      BY <1>1, <3>2 DEF Holds, HoldsFrom
  <2>2. 0 \in 0..Place(m)
    BY <1>3, <1>7
  <2> HIDE DEF m, one
  <2>3. Shifted(At(m, s, First(value, n), 0), memory) = At(Written(m), s, First(value, n), 0)
    BY <1>6, <2>1, <2>2, ShiftedFollows
  <2> QED
    BY <1>1, <1>5, <2>3
<1>9. one.usedLength \in Nat /\ one.pos = r.pos /\ r.coder = e.coder
  <2>1. one.usedLength = Place(m)
    BY <1>5 DEF At
  <2>2. one.pos = r.pos /\ r.coder = e.coder
    BY DEF OneBit, At
  <2> QED
    BY <1>3, <1>7, <2>1, <2>2
<1> HIDE DEF one, m
<1>10. \/ up = at
       \/ SameTopByte(up.coder) /\ up.pos > r.pos /\ up.usedLength = outputLimit
  BY <1>8, <1>9, ShiftedOrStopped
<1>11. t = IF r.coder.i = inputLimit THEN [r |-> r, saved |-> {Saved(r, pr.ratio)}]
           ELSE IF up.pos > r.pos /\ up.usedLength = outputLimit
             THEN [r |-> up, saved |-> {Saved(up, up.coder.pr.ratio)}]
           ELSE [r |-> up, saved |-> {}]
  BY <1>9 DEF PrebuildBit, one
<1>12. KeptAs(Saved(r, pr.ratio), e, pr, First(value, n - 1))
  BY DEF KeptAs, Saved, At
<1>13. KeptAs(Saved(at, at.coder.pr.ratio), E[n], E[n].coder.pr, First(value, n))
  BY DEF KeptAs, Saved, At
<1>14. SameTopByte(up.coder) => SameTopByte(Saved(up, up.coder.pr.ratio))
  BY DEF SameTopByte, Saved
<1> HIDE DEF up, r, at, e
<1>15. Kept(Saved(r, pr.ratio), e, First(value, n - 1), d, mode)
  BY <1>12 DEF Kept
<1>16. Kept(Saved(at, at.coder.pr.ratio), E[n], First(value, n), d, mode)
  BY <1>2, <1>3, <1>13 DEF Kept
<1> HIDE DEF pr, t
<1>17. Turned(t, at, e, E[n], First(value, n - 1), First(value, n), d, mode)
  <2>1. CASE r.coder.i = inputLimit
    <3>1. t = [r |-> r, saved |-> {Saved(r, pr.ratio)}]
      BY <1>11, <2>1
    <3> QED
      BY <1>15, <3>1 DEF Turned
  <2>2. CASE r.coder.i # inputLimit /\ up.pos > r.pos /\ up.usedLength = outputLimit
    <3>1. t = [r |-> up, saved |-> {Saved(up, up.coder.pr.ratio)}]
      BY <1>11, <2>2
    <3>2. SameTopByte(Saved(up, up.coder.pr.ratio))
          \/ Kept(Saved(up, up.coder.pr.ratio), E[n], First(value, n), d, mode)
      BY <1>10, <1>14, <1>16
    <3> QED
      BY <3>1, <3>2 DEF Turned
  <2>3. CASE r.coder.i # inputLimit /\ ~(up.pos > r.pos /\ up.usedLength = outputLimit)
    <3>1. t = [r |-> at, saved |-> {}]
      BY <1>10, <1>11, <2>3
    <3> QED
      BY <3>1 DEF Turned
  <2> QED
    BY <2>1, <2>2, <2>3
<1> QED
  BY <1>17 DEF t, r, at, e

\* It goes through the turns up to the first that returns a state, turn N, or through all.
StopsIn(N, states, E, s, value, memory, d, outputLimit, inputLimit, mode) ==
  LET turn(n) == PrebuildBit(At(E[n - 1], s, First(value, n - 1), 0), memory, d, outputLimit, inputLimit, mode)
  IN  /\ \A n \in 1..(N - 1) : turn(n).saved = {}
      /\ N <= d => turn(N).saved # {} /\ states = turn(N).saved
      /\ d < N => states = {}

LEMMA PrebuildTurns ==
  ASSUME NEW d \in 1..64, NEW value \in [1..d -> {0, 1}], NEW mode, NEW E \in Traces(value, d, d, mode),
         NEW s, Stream(s), Deciding(E, value, d, s, d, mode),
         NEW memory, Holds(memory, s, Place(E[d]) + 4),
         NEW outputLimit, NEW inputLimit
  PROVE  \E N \in 1..(d + 1) :
           StopsIn(N, AthDecoding_prebuild(memory, d, outputLimit, inputLimit, mode),
                   E, s, value, memory, d, outputLimit, inputLimit, mode)
<1> DEFINE start == [r |-> Reading(NewCoder, memory, 0, << >>), saved |-> {}]
           next(q) == IF q.saved # {} THEN q ELSE PrebuildBit(q.r, memory, d, outputLimit, inputLimit, mode)
           turn(f) == [n \in 0..d |->
             IF n = 0 THEN [r |-> Reading(NewCoder, memory, 0, << >>), saved |-> {}]
             ELSE LET q == f[n - 1]
                  IN  IF q.saved # {} THEN q
                      ELSE PrebuildBit(q.r, memory, d, outputLimit, inputLimit, mode)]
           after == CHOOSE f : f = turn(f)
           at(n) == At(E[n], s, First(value, n), 0)
           going(n) == [r |-> at(n), saved |-> {}]
           bit(n) == PrebuildBit(at(n - 1), memory, d, outputLimit, inputLimit, mode)
           Stops == {n \in 1..d : bit(n).saved # {}}
<1>0. d \in Nat
  OBVIOUS
<1>1. AthDecoding_prebuild(memory, d, outputLimit, inputLimit, mode) = after[d].saved
  BY DEF AthDecoding_prebuild
<1>2. \A f : turn(f) = [n \in 0..d |-> IF n = 0 THEN start ELSE next(f[n - 1])]
  OBVIOUS
<1>3. start = going(0)
  <2>1. E[0] = Start
    BY DEF Traces
  <2>2. Place(E[0]) = 0 /\ E[0].coder = NewCoder
    BY <2>1, StartReady DEF Place, Start
  <2>3. Place(E[d]) \in Nat
    <3>1. MovesOn(E, d) /\ d \in 0..d
      BY <1>0, PlacesGrow
    <3> QED
      BY <3>1 DEF MovesOn
  <2>4. \A m \in Nat : 1 \in 1..(m + 4) /\ 2 \in 1..(m + 4) /\ 3 \in 1..(m + 4) /\ 4 \in 1..(m + 4)
    OBVIOUS
  <2>5. memory[1] = s[1] /\ memory[2] = s[2] /\ memory[3] = s[3] /\ memory[4] = s[4]
    BY <2>3, <2>4 DEF Holds
  <2>6. WindowOf(memory, 0) = WindowOf(s, 0)
    BY <2>5 DEF WindowOf
  <2>7. First(value, 0) = << >>
    BY DEF First
  <2>8. (0 + 4) - 0 = 4
    OBVIOUS
  <2> QED
    BY <2>2, <2>6, <2>7, <2>8 DEF At, Reading
<1>4. ASSUME NEW n \in 1..d
      PROVE  /\ bit(n).saved = {} => bit(n) = going(n)
             /\ \A q \in bit(n).saved : \/ SameTopByte(q)
                                       \/ Kept(q, E[n - 1], First(value, n - 1), d, mode)
                                       \/ Kept(q, E[n], First(value, n), d, mode)
  <2>1. Turned(bit(n), at(n), E[n - 1], E[n], First(value, n - 1), First(value, n), d, mode)
    BY PrebuildTurn
  <2> HIDE DEF bit, at
  <2> QED
    BY <2>1 DEF Turned
<1>5. ASSUME NEW n \in 1..d PROVE next(going(n - 1)) = bit(n)
  OBVIOUS
<1>6. \A q : q.saved # {} => next(q) = q
  OBVIOUS
<1>7. \A n : going(n).saved = {}
  OBVIOUS
<1> HIDE DEF turn, start, next, going, bit
<1>8. PICK N \in 1..(d + 1) : /\ \A n \in 1..(N - 1) : bit(n).saved = {}
                              /\ N <= d => bit(N).saved # {}
  <2>1. CASE Stops = {}
    <3>1. d + 1 \in 1..(d + 1) /\ ~(d + 1 <= d) /\ (d + 1) - 1 = d
      OBVIOUS
    <3> QED
      BY <2>1, <3>1
  <2>2. CASE Stops # {}
    <3>1. Stops \in SUBSET Nat
      OBVIOUS
    <3>2. PICK m \in Stops : \A k \in Stops : m <= k
      BY <2>2, <3>1, LeastElement
    <3>3. m \in 1..(d + 1) /\ m \in 1..d /\ bit(m).saved # {}
      OBVIOUS
    <3>4. \A n \in 1..(m - 1) : n \in 1..d /\ ~(m <= n)
      BY <3>3
    <3> QED
      BY <3>2, <3>3, <3>4
  <2> QED
    BY <2>1, <2>2
<1> DEFINE g == [n \in 0..d |-> IF n < N THEN going(n) ELSE bit(N)]
<1>9. \A n \in 0..d : g[n] = IF n = 0 THEN start ELSE next(g[n - 1])
  <2>1. \A n \in 0..d : (n < N => g[n] = going(n)) /\ (~(n < N) => g[n] = bit(N))
    OBVIOUS
  <2> HIDE DEF g
  <2>2. g[0] = start
    <3>1. 0 \in 0..d /\ 0 < N
      OBVIOUS
    <3> QED
      BY <1>3, <2>1, <3>1
  <2>3. ASSUME NEW n \in 1..d PROVE g[n] = next(g[n - 1])
    <3>1. n \in 0..d /\ n - 1 \in 0..d
      OBVIOUS
    <3>2. CASE n < N
      <4>1. n - 1 < N /\ n \in 1..(N - 1)
        BY <3>2
      <4>2. bit(n).saved = {}
        BY <1>8, <4>1
      <4>3. bit(n) = going(n)
        BY <1>4, <4>2
      <4> QED
        BY <1>5, <2>1, <3>1, <3>2, <4>1, <4>3
    <3>3. CASE n = N
      <4>1. n - 1 < N /\ ~(n < N)
        BY <3>3
      <4> QED
        BY <1>5, <2>1, <3>1, <3>3, <4>1
    <3>4. CASE N < n
      <4>1. ~(n < N) /\ ~(n - 1 < N) /\ N <= d
        BY <3>4
      <4>2. bit(N).saved # {}
        BY <1>8, <4>1
      <4>3. next(bit(N)) = bit(N)
        BY <1>6, <4>2
      <4> QED
        BY <2>1, <3>1, <4>1, <4>3
    <3>5. n < N \/ n = N \/ N < n
      OBVIOUS
    <3> QED
      BY <3>2, <3>3, <3>4, <3>5
  <2>4. \A n \in 0..d : n = 0 \/ n \in 1..d
    OBVIOUS
  <2> QED
    BY <2>2, <2>3, <2>4
<1>10. g = [n \in 0..d |-> g[n]]
  OBVIOUS
<1>11. g[d] = IF d < N THEN going(d) ELSE bit(N)
  BY <1>0
<1> HIDE DEF g
<1>12. g = [n \in 0..d |-> IF n = 0 THEN start ELSE next(g[n - 1])]
  BY <1>9, <1>10
<1>13. g = turn(g)
  BY <1>2, <1>12
<1>14. after = turn(after)
  BY <1>13
<1> HIDE DEF after
<1>15. after = [n \in 0..d |-> IF n = 0 THEN start ELSE next(after[n - 1])]
  BY <1>2, <1>14
<1> DEFINE T == {n \in 0..d : after[n] = g[n]}
<1>16. 0 \in T
  BY <1>9, <1>15
<1>17. ASSUME NEW n \in 0..(d - 1), n \in T PROVE n + 1 \in T
  <2>1. n + 1 \in 0..d /\ n + 1 # 0 /\ (n + 1) - 1 = n
    OBVIOUS
  <2>2. after[n + 1] = next(after[n])
    BY <1>15, <2>1
  <2>3. g[n + 1] = next(g[n])
    BY <1>9, <2>1
  <2> QED
    BY <1>17, <2>1, <2>2, <2>3
<1> HIDE DEF T
<1>18. 0..d \subseteq T
  BY <1>0, <1>16, <1>17, InductionUpTo
<1>19. after[d] = g[d]
  BY <1>0, <1>18 DEF T
<1>20. N <= d => AthDecoding_prebuild(memory, d, outputLimit, inputLimit, mode) = bit(N).saved
  BY <1>0, <1>1, <1>11, <1>19
<1>21. d < N => AthDecoding_prebuild(memory, d, outputLimit, inputLimit, mode) = {}
  BY <1>1, <1>7, <1>11, <1>19
<1>22. StopsIn(N, AthDecoding_prebuild(memory, d, outputLimit, inputLimit, mode),
               E, s, value, memory, d, outputLimit, inputLimit, mode)
  BY <1>8, <1>20, <1>21 DEF StopsIn, bit
<1> QED
  BY <1>22

\* A state that it returns is the encoder's, unless it has stopped between two shifts.
LEMMA PrebuildKeeps ==
  ASSUME NEW d \in 1..64, NEW value \in [1..d -> {0, 1}], NEW mode, NEW E \in Traces(value, d, d, mode),
         NEW s, Stream(s), Deciding(E, value, d, s, d, mode),
         NEW memory, Holds(memory, s, Place(E[d]) + 4),
         NEW outputLimit, NEW inputLimit,
         NEW p \in AthDecoding_prebuild(memory, d, outputLimit, inputLimit, mode)
  PROVE  SameTopByte(p) \/ \E n \in 0..d : Kept(p, E[n], First(value, n), d, mode)
<1> DEFINE states == AthDecoding_prebuild(memory, d, outputLimit, inputLimit, mode)
           bit(n) == PrebuildBit(At(E[n - 1], s, First(value, n - 1), 0), memory, d, outputLimit, inputLimit, mode)
<1>1. PICK N \in 1..(d + 1) : StopsIn(N, states, E, s, value, memory, d, outputLimit, inputLimit, mode)
  BY PrebuildTurns
<1>2. p \in states
  OBVIOUS
<1> HIDE DEF states
<1>3. N \in 1..d /\ p \in bit(N).saved
  <2>1. N <= d \/ d < N
    OBVIOUS
  <2>2. (d < N => states = {}) /\ (N <= d => states = bit(N).saved)
    BY <1>1 DEF StopsIn
  <2> QED
    BY <1>2, <2>1, <2>2
<1>4. Turned(bit(N), At(E[N], s, First(value, N), 0), E[N - 1], E[N], First(value, N - 1), First(value, N), d, mode)
  BY <1>3, PrebuildTurn
<1> HIDE DEF bit
<1>5. SameTopByte(p) \/ Kept(p, E[N - 1], First(value, N - 1), d, mode) \/ Kept(p, E[N], First(value, N), d, mode)
  BY <1>3, <1>4 DEF Turned
<1>6. N - 1 \in 0..d /\ N \in 0..d
  <2>1. \A n \in 1..d : n - 1 \in 0..d /\ n \in 0..d
    OBVIOUS
  <2> QED
    BY <1>3, <2>1
<1> QED
  BY <1>5, <1>6

\* Bits fewer than the width for a limit: it returns a state, of no more bits.
LEMMA PrebuildStops ==
  ASSUME NEW d \in 1..64, NEW value \in [1..d -> {0, 1}], NEW mode, NEW E \in Traces(value, d, d, mode),
         NEW s, Stream(s), Deciding(E, value, d, s, d, mode),
         NEW memory, Holds(memory, s, Place(E[d]) + 4),
         NEW outputLimit, NEW inputLimit \in 0..(d - 1)
  PROVE  /\ AthDecoding_prebuild(memory, d, outputLimit, inputLimit, mode) # {}
         /\ \A p \in AthDecoding_prebuild(memory, d, outputLimit, inputLimit, mode) :
              SameTopByte(p) \/ Len(p.bits) \in 0..inputLimit
<1> DEFINE states == AthDecoding_prebuild(memory, d, outputLimit, inputLimit, mode)
           bit(n) == PrebuildBit(At(E[n - 1], s, First(value, n - 1), 0), memory, d, outputLimit, inputLimit, mode)
           m == inputLimit + 1
<1>0. d \in Nat
  OBVIOUS
<1>1. PICK N \in 1..(d + 1) : StopsIn(N, states, E, s, value, memory, d, outputLimit, inputLimit, mode)
  BY PrebuildTurns
<1>2. \A n \in 1..d : At(E[n - 1], s, First(value, n - 1), 0).coder.i = n - 1
  <2>1. MovesOn(E, d)
    BY <1>0, PlacesGrow
  <2>2. \A n \in 1..d : n - 1 \in 0..d
    OBVIOUS
  <2>3. \A n \in 1..d : E[n - 1].coder.i = n - 1
    BY <2>1, <2>2 DEF MovesOn
  <2> QED
    BY <2>3 DEF At
<1>3. ASSUME NEW n \in 1..d, n - 1 = inputLimit
      PROVE  /\ bit(n).saved # {}
             /\ \A p \in bit(n).saved : Len(p.bits) = n - 1
  <2> DEFINE r == At(E[n - 1], s, First(value, n - 1), 0)
  <2>1. r.coder.i = inputLimit
    BY <1>2, <1>3
  <2>2. \A ratio : Saved(r, ratio).bits = First(value, n - 1)
    BY DEF Saved, At
  <2>3. n - 1 \in Nat
    OBVIOUS
  <2>4. Len(First(value, n - 1)) = n - 1
    BY <2>3 DEF First
  <2> HIDE DEF r
  <2>5. \E ratio : PrebuildBit(r, memory, d, outputLimit, inputLimit, mode).saved = {Saved(r, ratio)}
    BY <2>1 DEF PrebuildBit
  <2> QED
    BY <2>2, <2>4, <2>5 DEF r
<1>4. ASSUME NEW n \in 1..d, NEW p \in bit(n).saved
      PROVE  SameTopByte(p) \/ Len(p.bits) \in 0..n
  <2>1. Turned(bit(n), At(E[n], s, First(value, n), 0), E[n - 1], E[n], First(value, n - 1), First(value, n), d, mode)
    BY PrebuildTurn
  <2> HIDE DEF bit
  <2>2. SameTopByte(p) \/ Kept(p, E[n - 1], First(value, n - 1), d, mode) \/ Kept(p, E[n], First(value, n), d, mode)
    BY <1>4, <2>1 DEF Turned
  <2>3. SameTopByte(p) \/ p.bits = First(value, n - 1) \/ p.bits = First(value, n)
    BY <2>2 DEF Kept, KeptAs
  <2>4. n - 1 \in Nat /\ n \in Nat
    OBVIOUS
  <2>5. Len(First(value, n - 1)) = n - 1 /\ Len(First(value, n)) = n
    BY <2>4 DEF First
  <2>6. n - 1 \in 0..n /\ n \in 0..n
    OBVIOUS
  <2> QED
    BY <2>3, <2>5, <2>6
<1>5. m \in 1..d /\ m - 1 = inputLimit
  OBVIOUS
<1>6. /\ \A n \in 1..(N - 1) : bit(n).saved = {}
      /\ N <= d => bit(N).saved # {} /\ states = bit(N).saved
  BY <1>1 DEF StopsIn
<1> HIDE DEF bit, states, m
<1>7. N <= m
  <2>1. ~(m \in 1..(N - 1))
    BY <1>3, <1>5, <1>6
  <2> QED
    BY <1>5, <2>1
<1>8. N \in 1..d /\ states # {} /\ states = bit(N).saved
  BY <1>5, <1>6, <1>7
<1>9. ASSUME NEW p \in states PROVE SameTopByte(p) \/ Len(p.bits) \in 0..inputLimit
  <2>1. p \in bit(N).saved
    BY <1>8
  <2>2. CASE N = m
    <3>1. Len(p.bits) = inputLimit
      BY <1>3, <1>5, <1>8, <2>1, <2>2
    <3>2. inputLimit \in 0..inputLimit
      OBVIOUS
    <3> QED
      BY <3>1, <3>2
  <2>3. CASE N # m
    <3>1. N <= inputLimit
      BY <1>5, <1>7, <2>3
    <3>2. SameTopByte(p) \/ Len(p.bits) \in 0..N
      BY <1>4, <1>8, <2>1
    <3> DEFINE l == Len(p.bits)
    <3> HIDE DEF l
    <3>3. l \in 0..N => l \in 0..inputLimit
      BY <3>1
    <3> QED
      BY <3>2, <3>3 DEF l
  <2> QED
    BY <2>2, <2>3
<1> QED
  BY <1>8, <1>9 DEF states

\* Two values that agree on their first bits are encoded alike up to there.
LEMMA SharedStates ==
  ASSUME NEW d \in Nat, NEW a, NEW b, NEW mode, NEW E \in Traces(a, d, d, mode), NEW F \in Traces(b, d, d, mode),
         NEW n \in 0..d, \A k \in 1..n : a[k] = b[k]
  PROVE  E[n] = F[n] /\ First(a, n) = First(b, n)
<1>1. /\ E[0] = Start /\ \A k \in 1..d : E[k] = Written(Coded1(E[k - 1], a[k], d, mode))
      /\ F[0] = Start /\ \A k \in 1..d : F[k] = Written(Coded1(F[k - 1], b[k], d, mode))
  BY DEF Traces
<1> DEFINE T == {k \in 0..n : E[k] = F[k]}
<1>2. 0 \in T
  BY <1>1
<1>3. ASSUME NEW k \in 0..(n - 1), k \in T PROVE k + 1 \in T
  <2>1. k + 1 \in 1..d /\ k + 1 \in 1..n /\ k + 1 \in 0..n /\ (k + 1) - 1 = k
    OBVIOUS
  <2>2. E[k] = F[k] /\ a[k + 1] = b[k + 1]
    BY <1>3, <2>1
  <2>3. E[k + 1] = Written(Coded1(E[k], a[k + 1], d, mode))
    BY <1>1, <2>1
  <2>4. F[k + 1] = Written(Coded1(F[k], b[k + 1], d, mode))
    BY <1>1, <2>1
  <2> QED
    BY <2>1, <2>2, <2>3, <2>4
<1> HIDE DEF T
<1>4. n \in Nat /\ n \in 0..n
  OBVIOUS
<1>5. 0..n \subseteq T
  BY <1>2, <1>3, <1>4, InductionUpTo
<1>6. First(a, n) = First(b, n)
  BY DEF First
<1> QED
  BY <1>4, <1>5, <1>6 DEF T

\* Two decoders that differ at most in what they read.
Alike(r, q) ==
  r.coder = q.coder /\ r.pos = q.pos /\ r.usedLength = q.usedLength /\ r.bits = q.bits

\* The while loop looks at the registers only: what it shifts in does not matter to it.
LEMMA ShiftedAlike ==
  ASSUME NEW r, NEW q, Alike(r, q), NEW A, NEW B, NEW outputLimit
  PROVE  Alike(ShiftedUpTo(r, A, outputLimit), ShiftedUpTo(q, B, outputLimit))
<1> DEFINE on(p) == ShiftTurn(r, A, outputLimit, p)
           up(p) == ShiftTurn(q, B, outputLimit, p)
<1>1. ASSUME NEW p, NEW o, Alike(p, o) PROVE Alike(on(p), up(o))
  <2>1. Alike(OneShift(p, A), OneShift(o, B))
    BY <1>1 DEF Alike, OneShift
  <2> QED
    BY <1>1, <2>1 DEF Alike, ShiftTurn
<1>2. /\ ShiftedUpTo(r, A, outputLimit) = on(on(on(on(r))))
      /\ ShiftedUpTo(q, B, outputLimit) = up(up(up(up(q))))
  BY ShiftedUnfolds
<1> HIDE DEF on, up
<1>3. Alike(on(r), up(q))
  BY <1>1
<1>4. Alike(on(on(r)), up(up(q)))
  BY <1>1, <1>3
<1>5. Alike(on(on(on(r))), up(up(up(q))))
  BY <1>1, <1>4
<1>6. Alike(on(on(on(on(r)))), up(up(up(up(q)))))
  BY <1>1, <1>5
<1> QED
  BY <1>2, <1>6

\* A decoder that retraces E over the stream s, deciding as its value says.
Retraced(E, value, s, d, mode) ==
  /\ value \in [1..d -> {0, 1}] /\ E \in Traces(value, d, d, mode)
  /\ Stream(s) /\ Deciding(E, value, d, s, d, mode)

\* Two turns that return the same state, or none.
SameReturn(one, other) == one.saved = other.saved /\ (one.saved = {} \/ \E p : one.saved = {p})

\* As long as the bits are the same, so is what a turn of AthDecoding_prebuild returns.
LEMMA TurnsAgree ==
  ASSUME NEW d \in 1..64, NEW mode, NEW a, NEW E, NEW s, Retraced(E, a, s, d, mode),
         NEW b, NEW F, NEW t, Retraced(F, b, t, d, mode), NEW A, NEW B, NEW outputLimit,
         NEW inputLimit \in 0..(d - 1), \A k \in 1..inputLimit : a[k] = b[k], NEW n \in 1..(inputLimit + 1)
  PROVE  SameReturn(PrebuildBit(At(E[n - 1], s, First(a, n - 1), 0), A, d, outputLimit, inputLimit, mode),
                    PrebuildBit(At(F[n - 1], t, First(b, n - 1), 0), B, d, outputLimit, inputLimit, mode))
<1> DEFINE e == E[n - 1]
           m == Coded1(e, a[n], d, mode)
           bits == First(a, n - 1)
           r == At(e, s, bits, 0)
           q == At(e, t, bits, 0)
           pr == Predictor(e.coder, d, mode)
           r1 == OneBit(r, pr)
           q1 == OneBit(q, pr)
           up == ShiftedUpTo(r1, A, outputLimit)
           on == ShiftedUpTo(q1, B, outputLimit)
           one == PrebuildBit(r, A, d, outputLimit, inputLimit, mode)
           other == PrebuildBit(q, B, d, outputLimit, inputLimit, mode)
<1>0. /\ a \in [1..d -> {0, 1}] /\ E \in Traces(a, d, d, mode) /\ Deciding(E, a, d, s, d, mode)
      /\ b \in [1..d -> {0, 1}] /\ F \in Traces(b, d, d, mode) /\ Deciding(F, b, d, t, d, mode)
      /\ Stream(s) /\ Stream(t)
  BY DEF Retraced
<1>1. d \in Nat /\ n \in 1..d /\ n - 1 \in 0..d /\ \A k \in 1..(n - 1) : k \in 1..inputLimit
  OBVIOUS
<1>2. F[n - 1] = e /\ First(b, n - 1) = bits
  <2>1. \A k \in 1..(n - 1) : a[k] = b[k]
    BY <1>1
  <2> QED
    BY <1>0, <1>1, <2>1, SharedStates
<1>3. e \in Ready /\ e.coder.i = n - 1
  <2>1. MovesOn(E, d)
    BY <1>0, <1>1, PlacesGrow
  <2>2. E \in [0..d -> Ready]
    BY <1>0 DEF Traces
  <2> QED
    BY <1>1, <2>1, <2>2 DEF MovesOn
<1>4. r.coder = e.coder /\ q.coder = e.coder /\ r.pos = q.pos
  BY DEF At
<1>5. \A ratio : Saved(r, ratio) = Saved(q, ratio)
  BY DEF Saved, At
<1>6. one = IF r.coder.i = inputLimit THEN [r |-> r, saved |-> {Saved(r, pr.ratio)}]
            ELSE IF up.pos > r.pos /\ up.usedLength = outputLimit
              THEN [r |-> up, saved |-> {Saved(up, up.coder.pr.ratio)}]
            ELSE [r |-> up, saved |-> {}]
  BY <1>4 DEF PrebuildBit
<1>7. other = IF q.coder.i = inputLimit THEN [r |-> q, saved |-> {Saved(q, pr.ratio)}]
            ELSE IF on.pos > q.pos /\ on.usedLength = outputLimit
              THEN [r |-> on, saved |-> {Saved(on, on.coder.pr.ratio)}]
            ELSE [r |-> on, saved |-> {}]
  BY <1>4 DEF PrebuildBit
<1>8. n - 1 # inputLimit => Alike(r1, q1)
  <2> SUFFICES ASSUME n - 1 # inputLimit PROVE Alike(r1, q1)
    OBVIOUS
  <2>1. n \in 1..inputLimit
    OBVIOUS
  <2>2. a[n] \in {0, 1} /\ b[n] = a[n]
    BY <1>0, <1>1, <2>1
  <2>3. a[n] = Decided(e, s, d, mode) /\ a[n] = Decided(e, t, d, mode)
    <3>1. b[n] = Decided(F[n - 1], t, d, mode) /\ a[n] = Decided(e, s, d, mode)
      BY <1>0, <1>1 DEF Deciding
    <3> QED
      BY <1>2, <2>2, <3>1
  <2> DEFINE bit == a[n]
  <2>a. bit \in {0, 1} /\ e \in Ready
    BY <1>3, <2>2
  <2>b. bit = Decided(e, s, d, mode)
    BY <2>3
  <2>c. bit = Decided(e, t, d, mode)
    BY <2>3
  <2> HIDE DEF e, bits, bit
  <2>4. r1 = At(m, s, Append(bits, bit), 0)
    BY <2>a, <2>b, BitFollows DEF bit
  <2>5. q1 = At(m, t, Append(bits, bit), 0)
    BY <2>a, <2>c, BitFollows DEF bit
  <2> HIDE DEF r1, q1, m
  <2> QED
    BY <2>4, <2>5 DEF At, Alike
<1>9. n - 1 # inputLimit => Alike(up, on)
  <2> HIDE DEF r1, q1
  <2> QED
    BY <1>8, ShiftedAlike
<1>10. Alike(up, on) => \A ratio : Saved(up, ratio) = Saved(on, ratio)
  BY DEF Alike, Saved
<1> HIDE DEF one, other, r, q, up, on, pr
<1>11. SameReturn(one, other)
  <2>1. CASE n - 1 = inputLimit
    <3>1. one = [r |-> r, saved |-> {Saved(r, pr.ratio)}] /\ other = [r |-> q, saved |-> {Saved(q, pr.ratio)}]
      BY <1>3, <1>4, <1>6, <1>7, <2>1
    <3> QED
      BY <1>5, <3>1 DEF SameReturn
  <2>2. CASE n - 1 # inputLimit
    <3>1. one = IF up.pos > r.pos /\ up.usedLength = outputLimit
                  THEN [r |-> up, saved |-> {Saved(up, up.coder.pr.ratio)}]
                ELSE [r |-> up, saved |-> {}]
      BY <1>3, <1>4, <1>6, <2>2
    <3>2. other = IF on.pos > q.pos /\ on.usedLength = outputLimit
                    THEN [r |-> on, saved |-> {Saved(on, on.coder.pr.ratio)}]
                  ELSE [r |-> on, saved |-> {}]
      BY <1>3, <1>4, <1>7, <2>2
    <3>3. /\ up.pos = on.pos /\ up.usedLength = on.usedLength /\ up.coder = on.coder
          /\ \A ratio : Saved(up, ratio) = Saved(on, ratio)
      BY <1>9, <1>10, <2>2 DEF Alike
    <3> QED
      BY <1>4, <3>1, <3>2, <3>3 DEF SameReturn
  <2> QED
    BY <2>1, <2>2
<1> QED
  BY <1>2, <1>11 DEF one, other, r, q

\* Two calls that return one and the same state.
SameState(states, others) == states = others /\ \E p : states = {p}

\* Values that agree on the bits up to the limit lead AthDecoding_prebuild to one state.
LEMMA PrebuildAgrees ==
  ASSUME NEW d \in 1..64, NEW mode,
         NEW a, NEW E, NEW s, Retraced(E, a, s, d, mode), NEW A, Holds(A, s, Place(E[d]) + 4),
         NEW b, NEW F, NEW t, Retraced(F, b, t, d, mode), NEW B, Holds(B, t, Place(F[d]) + 4),
         NEW outputLimit, NEW inputLimit \in 0..(d - 1), \A k \in 1..inputLimit : a[k] = b[k]
  PROVE  SameState(AthDecoding_prebuild(A, d, outputLimit, inputLimit, mode),
                   AthDecoding_prebuild(B, d, outputLimit, inputLimit, mode))
<1> DEFINE one(n) == PrebuildBit(At(E[n - 1], s, First(a, n - 1), 0), A, d, outputLimit, inputLimit, mode)
           other(n) == PrebuildBit(At(F[n - 1], t, First(b, n - 1), 0), B, d, outputLimit, inputLimit, mode)
           x == AthDecoding_prebuild(A, d, outputLimit, inputLimit, mode)
           y == AthDecoding_prebuild(B, d, outputLimit, inputLimit, mode)
           m == inputLimit + 1
<1>0. /\ a \in [1..d -> {0, 1}] /\ E \in Traces(a, d, d, mode) /\ Deciding(E, a, d, s, d, mode)
      /\ b \in [1..d -> {0, 1}] /\ F \in Traces(b, d, d, mode) /\ Deciding(F, b, d, t, d, mode)
      /\ Stream(s) /\ Stream(t)
  BY DEF Retraced
<1>1. ASSUME NEW n \in 1..m
      PROVE  one(n).saved = other(n).saved /\ (one(n).saved = {} \/ \E p : one(n).saved = {p})
  <2>1. SameReturn(one(n), other(n))
    BY TurnsAgree
  <2> HIDE DEF one, other
  <2> QED
    BY <2>1 DEF SameReturn
<1>2. PICK N \in 1..(d + 1) : StopsIn(N, x, E, s, a, A, d, outputLimit, inputLimit, mode)
  BY <1>0, PrebuildTurns
<1>3. PICK M \in 1..(d + 1) : StopsIn(M, y, F, t, b, B, d, outputLimit, inputLimit, mode)
  BY <1>0, PrebuildTurns
<1>4. one(m).saved # {}
  <2>1. m - 1 = inputLimit /\ d \in Nat /\ m - 1 \in 0..d
    OBVIOUS
  <2>2. E[m - 1].coder.i = inputLimit
    <3>1. MovesOn(E, d)
      BY <1>0, <2>1, PlacesGrow
    <3> QED
      BY <2>1, <3>1 DEF MovesOn
  <2> DEFINE r == At(E[m - 1], s, First(a, m - 1), 0)
  <2>3. r.coder.i = inputLimit
    BY <2>2 DEF At
  <2> HIDE DEF r
  <2>4. \E ratio : PrebuildBit(r, A, d, outputLimit, inputLimit, mode).saved = {Saved(r, ratio)}
    BY <2>3 DEF PrebuildBit
  <2> QED
    BY <2>4 DEF r
<1>5. /\ \A n \in 1..(N - 1) : one(n).saved = {}
      /\ N <= d => one(N).saved # {} /\ x = one(N).saved
  BY <1>2 DEF StopsIn
<1>6. /\ \A n \in 1..(M - 1) : other(n).saved = {}
      /\ M <= d => other(M).saved # {} /\ y = other(M).saved
  BY <1>3 DEF StopsIn
<1>7. m \in 1..m /\ m <= d
  OBVIOUS
<1> HIDE DEF one, other, x, y, m
<1>8. N <= m /\ M <= m
  <2>1. ~(m \in 1..(N - 1)) /\ ~(m \in 1..(M - 1))
    BY <1>1, <1>4, <1>5, <1>6, <1>7
  <2> QED
    BY <1>7, <2>1
<1>9. N \in 1..m /\ M \in 1..m /\ N <= d /\ M <= d
  BY <1>7, <1>8
<1>10. N = M
  <2>1. ~(N \in 1..(M - 1)) /\ ~(M \in 1..(N - 1))
    BY <1>1, <1>5, <1>6, <1>9
  <2> QED
    BY <2>1
<1>11. x = y /\ \E p : x = {p}
  BY <1>1, <1>5, <1>6, <1>9, <1>10
<1> QED
  BY <1>11 DEF x, y, SameState

\* The Ratio that AthDecoding_fast goes on with.
GoesOnWith(r, d, mode) == IF r.coder.i = 0 THEN r.coder.pr ELSE Predictor(r.coder, d, mode)

LEMMA ResumedPredictor ==
  ASSUME NEW d \in 1..64, NEW e \in Ready, Learnt(e, d), NEW mode, NEW bits, Len(bits) = e.coder.i,
         NEW p, Kept(p, e, bits, d, mode), NEW memory
  PROVE  GoesOnWith(Reading(Resumed(p, d), memory, p.usedLength, p.bits), d, mode) = Predictor(e.coder, d, mode)
<1> DEFINE i == e.coder.i
           g == Segment(d, i) * SegSize(d)
           c == Resumed(p, d)
           pr == Predictor(e.coder, d, mode)
           fresh == NewRatio(SegRatio(d, mode, Segment(d, i)))
           r == Reading(c, memory, p.usedLength, p.bits)
<1>1. p.bits = bits
  BY DEF Kept, KeptAs
<1>2. c.i = i /\ c.pr = [ratio |-> p.ratio, count |-> i - g]
  BY <1>1 DEF Resumed
<1>3. r.coder = c
  BY DEF Reading
<1>4. i \in Nat /\ e.coder.pr \in Ratio
  BY DEF Ready, Sound, Encoders, Coder
<1>5. pr = IF i = g THEN fresh ELSE e.coder.pr
  BY DEF Predictor
<1>6. pr.count = i - g
  BY PredictorCounts
<1>7. Predictor(c, d, mode) = IF i = g THEN fresh ELSE c.pr
  BY <1>2 DEF Predictor
<1>8. CASE i = 0
  <2>1. i = g
    BY <1>8, StartsAtZero
  <2>2. p.ratio = pr.ratio
    BY <1>8 DEF Kept, KeptAs
  <2>3. pr = [ratio |-> pr.ratio, count |-> pr.count]
    BY <1>5, <2>1 DEF NewRatio
  <2>4. pr = c.pr
    BY <1>2, <1>6, <2>2, <2>3
  <2>5. c.i = 0
    BY <1>2, <1>8
  <2> QED
    BY <1>3, <2>4, <2>5 DEF GoesOnWith
<1>9. CASE i # 0 /\ i = g
  BY <1>2, <1>3, <1>5, <1>7, <1>9 DEF GoesOnWith
<1>10. CASE i # 0 /\ i # g
  <2>1. pr = e.coder.pr
    BY <1>5, <1>10
  <2>2. p.ratio = pr.ratio
    BY <2>1 DEF Kept, KeptAs
  <2>3. pr = [ratio |-> pr.ratio, count |-> pr.count]
    BY <1>4, <2>1 DEF Ratio
  <2>4. pr = c.pr
    BY <1>2, <1>6, <2>2, <2>3
  <2> QED
    BY <1>2, <1>3, <1>7, <1>10, <2>4 DEF GoesOnWith
<1> QED
  BY <1>8, <1>9, <1>10

\* Memory that begins with the codeword of v, and goes on for as long as is read ahead.
Starts(memory, v, d, mode) ==
  /\ memory \in Seq(Byte) /\ Begins(memory, AthEncoding(v, d, mode))
  /\ Len(memory) >= Len(AthEncoding(v, d, mode)) + 3

\* The first n bits of the values are the same.
Agree(v, w, d, n) == \A k \in 1..n : BitsOf(v, d)[k] = BitsOf(w, d)[k]

\* AthDecoding_fast, behind the bytes that p has used, returns what AthDecoding does.
Resumes(p, memory, d, mode) ==
  AthDecoding_fast(SubSeq(memory, p.usedLength + 1, Len(memory)), d, p, mode) = {AthDecoding(memory, d, mode)}

(* A State that was saved while one value of a cell was decoded serves every value that   *)
(* shares its bits: where AthDecoding_prebuild stopped in the codeword of w, by the used   *)
(* bytes or by the bits, and left an interval that has no settled byte, AthDecoding_fast   *)
(* goes on behind the bytes used of the codeword of v and returns what AthDecoding would.  *)
THEOREM ResumedDecoding ==
  ASSUME NEW d \in 1..64, NEW mode, NEW v \in Nat, NEW w \in Nat, Ends(v, d, mode), Ends(w, d, mode),
         NEW A, Starts(A, w, d, mode), NEW B, Starts(B, v, d, mode),
         NEW outputLimit, NEW inputLimit,
         NEW p \in AthDecoding_prebuild(A, d, outputLimit, inputLimit, mode),
         ~SameTopByte(p), Len(p.bits) < d, Agree(v, w, d, Len(p.bits))
  PROVE  Resumes(p, B, d, mode)
<1> DEFINE a == BitsOf(w, d)
           b == BitsOf(v, d)
           n == Len(p.bits)
<1>0. /\ d \in Nat
      /\ A \in Seq(Byte) /\ Begins(A, AthEncoding(w, d, mode)) /\ Len(A) >= Len(AthEncoding(w, d, mode)) + 3
      /\ B \in Seq(Byte) /\ Begins(B, AthEncoding(v, d, mode)) /\ Len(B) >= Len(AthEncoding(v, d, mode)) + 3
  BY DEF Starts
<1>1. PICK E \in Paths(w, d, mode) : \E s : Held(E, s, w, d, mode, A)
  BY <1>0, CodewordHeld
<1>2. PICK s : Held(E, s, w, d, mode, A)
  BY <1>1
<1>3. PICK F \in Paths(v, d, mode) : \E t : Held(F, t, v, d, mode, B)
  BY <1>0, CodewordHeld
<1>4. PICK t : Held(F, t, v, d, mode, B)
  BY <1>3
<1>5. a \in [1..d -> {0, 1}] /\ b \in [1..d -> {0, 1}]
  BY <1>0, BitsUnfold
<1>6. E \in Traces(a, d, d, mode) /\ F \in Traces(b, d, d, mode)
  BY DEF Paths
<1>7. Stream(s) /\ Within(s, E[d]) /\ Stream(t) /\ Within(t, F[d])
  BY <1>2, <1>4 DEF Held
<1>8. Deciding(E, a, d, s, d, mode) /\ Deciding(F, b, d, t, d, mode)
  BY <1>7, PathDecides
<1>9. Holds(A, s, Place(E[d]) + 4)
  BY <1>2 DEF Held
<1>10. \A k \in 1..n : a[k] = b[k]
  BY DEF Agree
<1> HIDE DEF a, b
<1>11. PICK m \in 0..d : Kept(p, E[m], First(a, m), d, mode)
  BY <1>5, <1>6, <1>7, <1>8, <1>9, PrebuildKeeps
<1>12. m = n
  <2>1. p.bits = First(a, m)
    BY <1>11 DEF Kept, KeptAs
  <2>2. Len(First(a, m)) = m
    BY DEF First
  <2> QED
    BY <2>1, <2>2
<1>13. E[m] = F[m] /\ First(a, m) = First(b, m)
  BY <1>0, <1>6, <1>10, <1>12, SharedStates
<1> DEFINE e == F[m]
           u == Place(e)
           memory == SubSeq(B, u + 1, Len(B))
           r == Reading(Resumed(p, d), memory, u, p.bits)
<1>14. e \in Ready /\ e.coder.i = m /\ u \in Nat /\ u <= Place(F[d]) /\ Place(F[d]) \in Nat /\ Learnt(e, d)
  <2>1. MovesOn(F, d)
    BY <1>0, <1>5, <1>6, PlacesGrow
  <2>2. F \in [0..d -> Ready]
    BY <1>6 DEF Traces
  <2>3. Learnt(F[m], d)
    BY <1>5, <1>6, CountsLearnt
  <2>4. d \in 0..d
    BY <1>0
  <2> QED
    BY <2>1, <2>2, <2>3, <2>4 DEF MovesOn
<1>15. Kept(p, e, First(b, m), d, mode)
  BY <1>11, <1>13
<1>16. p.bits = First(b, m) /\ p.usedLength = u /\ p.x1 = e.coder.x1 /\ p.x2 = e.coder.x2
  BY <1>15 DEF Kept, KeptAs
<1>17. m \in 0..(d - 1) /\ Len(First(b, m)) = e.coder.i
  <2>1. m < d
    BY <1>12
  <2>2. Len(First(b, m)) = m
    BY <1>12, <1>16
  <2>3. e.coder.i = m
    BY <1>14
  <2> QED
    BY <2>1, <2>2, <2>3
<1>18. GoesOnWith(r, d, mode) = Predictor(e.coder, d, mode)
  <2> HIDE DEF e, memory
  <2>1. GoesOnWith(Reading(Resumed(p, d), memory, p.usedLength, p.bits), d, mode) = Predictor(e.coder, d, mode)
    BY <1>14, <1>15, <1>17, ResumedPredictor
  <2> QED
    BY <1>16, <2>1
<1>19. /\ Len(B) \in Nat /\ \A k \in 1..Len(B) : t[k] = B[k] /\ B[k] \in Byte
       /\ Place(F[d]) + 4 <= Len(B)
  BY <1>0, <1>4 DEF Held
<1>20. HoldsFrom(memory, t, u, Place(F[d]) + 4)
  <2>1. \A k \in (u + 1)..Len(B) : k \in 1..Len(B)
    BY <1>14
  <2>2. \A k \in 1..((Len(B) - (u + 1)) + 1) : memory[k] = B[((u + 1) + k) - 1]
    <3>1. u \in Nat /\ Len(B) \in Nat /\ B \in Seq(Byte)
      BY <1>0, <1>14, <1>19
    <3> HIDE DEF u
    <3>2. memory = [k \in 1..((Len(B) - (u + 1)) + 1) |-> B[((u + 1) + k) - 1]]
      BY <3>1
    <3> HIDE DEF memory
    <3> QED
      BY <3>2
  <2> DEFINE l == Len(B)
             f == Place(F[d])
  <2> HIDE DEF u, memory, l, f
  <2>3. ASSUME NEW k \in 1..((f + 4) - u) PROVE memory[k] = t[u + k]
    <3>1. u \in Nat /\ l \in Nat /\ f \in Nat /\ f + 4 <= l
      BY <1>14, <1>19 DEF l, f
    <3>2. k \in 1..((l - (u + 1)) + 1) /\ ((u + 1) + k) - 1 = u + k /\ u + k \in 1..l
      BY <3>1
    <3>3. memory[k] = B[u + k]
      BY <2>2, <3>2 DEF l
    <3> QED
      BY <1>19, <3>2, <3>3 DEF l
  <2> QED
    BY <2>3 DEF HoldsFrom, f
<1>21. Continues(r, e, t, First(b, m), u)
  <2>1. memory[1] = t[u + 1] /\ memory[2] = t[u + 2] /\ memory[3] = t[u + 3] /\ memory[4] = t[u + 4]
    <3>1. \A f \in Nat : u <= f => \A k \in 1..4 : k \in 1..((f + 4) - u)
      BY <1>14
    <3>2. \A k \in 1..4 : k \in 1..((Place(F[d]) + 4) - u)
      BY <1>14, <3>1
    <3> HIDE DEF memory, u
    <3> QED
      BY <1>20, <3>2 DEF HoldsFrom
  <2>2. WindowOf(memory, 0) = WindowOf(t, u)
    <3> HIDE DEF memory, u
    <3> QED
      BY <2>1 DEF WindowOf
  <2>3. (u + 4) - u = 4
    BY <1>14
  <2>4. Resumed(p, d) = [x1 |-> e.coder.x1, x2 |-> e.coder.x2, i |-> e.coder.i, pr |-> Resumed(p, d).pr]
    BY <1>16, <1>17 DEF Resumed
  <2>5. r = [coder |-> Resumed(p, d), x |-> WindowOf(t, u), pos |-> (u + 4) - u, usedLength |-> u,
             bits |-> First(b, m)]
    BY <1>16, <2>2, <2>3 DEF Reading
  <2>6. At(e, t, First(b, m), u)
          = [coder |-> e.coder, x |-> WindowOf(t, u), pos |-> (u + 4) - u, usedLength |-> u, bits |-> First(b, m)]
    BY DEF At
  <2> HIDE DEF r, e, u
  <2> QED
    BY <2>4, <2>5, <2>6 DEF Continues
<1>22. Finishes(r, Predictor(e.coder, d, mode), memory, d, mode, b, F[d])
  <2>1. u \in 0..Place(F[m])
    BY <1>14
  <2> HIDE DEF memory, r
  <2> QED
    BY <1>5, <1>6, <1>7, <1>8, <1>17, <1>20, <1>21, <2>1, DecodeRest
<1>23. AthDecoding(B, d, mode) = [value |-> ValueOf(b), usedLength |-> Place(F[d]) + FinalLength(F[d].coder)]
  <2>1. Holds(B, t, Place(F[d]) + 4) /\ Stream(t)
    BY <1>4 DEF Held
  <2>2. b \in [1..d -> {0, 1}] /\ F \in Traces(b, d, d, mode) /\ Deciding(F, b, d, t, d, mode)
    BY <1>5, <1>6, <1>8
  <2> QED
    BY <2>1, <2>2, DecodeTraces
<1>24. AthDecoding_fast(memory, d, p, mode)
         = IF r.coder.i >= d THEN {} ELSE {DecodeFrom(r, GoesOnWith(r, d, mode), memory, d, mode)}
  BY <1>16 DEF AthDecoding_fast, GoesOnWith
<1>25. r.coder.i = m /\ ~(m >= d)
  BY <1>12, <1>17 DEF Reading, Resumed
<1>26. memory = SubSeq(B, p.usedLength + 1, Len(B))
  BY <1>16
<1> HIDE DEF r, memory, e
<1> QED
  BY <1>18, <1>22, <1>23, <1>24, <1>25, <1>26 DEF Finishes, Resumes

----------------------------------------------------------------------------
(* The tables of CheckTable.  The lookup in the table of a width and mode  *)
(* finds what AthDecoding returns, for every width, value, mode and table  *)
(* of probabilities, and whatever lies behind the codeword, if the table   *)
(* is usable.                                                              *)
(*                                                                         *)
(* The argument.  No codeword begins with another (PrefixFree): a byte     *)
(* that is a codeword belongs to one value.  The values of a cell of two   *)
(* bytes have the codewords that begin with these; the decoder that the    *)
(* cell keeps has stopped before the first bit that two of them differ in  *)
(* (PrebuildStops), so it serves them all (ResumedDecoding).               *)

----------------------------------------------------------------------------
(* Bits and powers of two *)

Powers(d) == 2^0 = 1 /\ \A n \in 1..d : 2^n = 2 * 2^(n - 1)

LEMMA PowersNatural ==
  ASSUME NEW d \in Nat, Powers(d)
  PROVE  \A n \in 0..d : 2^n \in Nat \ {0}
<1> DEFINE T == {n \in 0..d : 2^n \in Nat \ {0}}
<1>1. 2^0 = 1 /\ \A n \in 1..d : 2^n = 2 * 2^(n - 1)
  BY DEF Powers
<1>2. 0 \in T
  BY <1>1
<1>3. ASSUME NEW n \in 0..(d - 1), n \in T PROVE n + 1 \in T
  <2>1. n + 1 \in 1..d /\ n + 1 \in 0..d /\ (n + 1) - 1 = n
    OBVIOUS
  <2>2. 2^(n + 1) = 2 * 2^n
    BY <1>1, <2>1
  <2>3. 2^n \in Nat \ {0}
    BY <1>3
  <2> HIDE DEF T
  <2> DEFINE p == 2^n
             q == 2^(n + 1)
  <2>4. q \in Nat \ {0}
    <3>1. p \in Nat \ {0} /\ q = 2 * p
      BY <2>2, <2>3
    <3> HIDE DEF p, q
    <3> QED
      BY <3>1
  <2> QED
    BY <2>1, <2>4 DEF T
<1> HIDE DEF T
<1>4. 0..d \subseteq T
  BY <1>2, <1>3, InductionUpTo
<1> QED
  BY <1>4 DEF T

\* Halving k times is dividing by 2^k.
LEMMA HalvedTimes ==
  ASSUME NEW v \in Nat, NEW d \in Nat, Powers(d), NEW rest \in Halvings(v, d)
  PROVE  \A k \in 0..d : rest[k] = v \div 2^k
<1> DEFINE T == {k \in 0..d : rest[k] = v \div 2^k}
<1>1. 2^0 = 1 /\ \A n \in 1..d : 2^n = 2 * 2^(n - 1)
  BY DEF Powers
<1>2. rest[0] = v /\ \A k \in 1..d : rest[k] = rest[k - 1] \div 2
  BY DEF Halvings
<1>3. 0 \in T
  <2>1. v \div 1 = v
    OBVIOUS
  <2> QED
    BY <1>1, <1>2, <2>1
<1>4. ASSUME NEW n \in 0..(d - 1), n \in T PROVE n + 1 \in T
  <2>1. n + 1 \in 1..d /\ n + 1 \in 0..d /\ (n + 1) - 1 = n /\ n \in 0..d
    OBVIOUS
  <2>2. rest[n + 1] = rest[n] \div 2 /\ 2^(n + 1) = 2 * 2^n
    BY <1>1, <1>2, <2>1
  <2>3. rest[n] = v \div 2^n
    BY <1>4
  <2>4. 2^n \in Nat \ {0}
    BY <2>1, PowersNatural
  <2> HIDE DEF T
  <2> DEFINE p == 2^n
             q == 2^(n + 1)
  <2>5. p \in Nat \ {0} /\ q = 2 * p
    BY <2>2, <2>4
  <2> HIDE DEF p, q
  <2>6. 2 \in Nat \ {0} /\ p * 2 = q
    BY <2>5
  <2>7. (v \div p) \div 2 = v \div (p * 2)
    BY <2>5, <2>6, DivDiv
  <2>8. rest[n + 1] = (v \div p) \div 2
    BY <2>2, <2>3, Zenon DEF p
  <2>9. rest[n + 1] = v \div q
    BY <2>6, <2>7, <2>8, Zenon
  <2> QED
    BY <2>1, <2>9 DEF T, q
<1> HIDE DEF T
<1>5. 0..d \subseteq T
  BY <1>3, <1>4, InductionUpTo
<1> QED
  BY <1>5 DEF T

\* Bit k of a value is found by dividing.
LEMMA BitsAt ==
  ASSUME NEW v \in Nat, NEW d \in Nat, Powers(d), NEW k \in 1..d
  PROVE  BitsOf(v, d)[k] = (v \div 2^(k - 1)) % 2
<1>1. PICK rest \in Halvings(v, d) : BitsOf(v, d) = [j \in 1..d |-> rest[j - 1] % 2]
  BY BitsUnfold
<1>2. k - 1 \in 0..d
  OBVIOUS
<1>3. rest[k - 1] = v \div 2^(k - 1)
  BY <1>2, HalvedTimes
<1>4. BitsOf(v, d)[k] = rest[k - 1] % 2
  BY <1>1
<1> QED
  BY <1>3, <1>4, Zenon

\* A number below 2^d has no bits above its d lowest ones.
LEMMA FitsBelow ==
  ASSUME NEW v \in Nat, NEW d \in Nat, Powers(d), v < 2^d
  PROVE  FitsIn(v, d)
<1>1. PICK rest \in Halvings(v, d) : BitsOf(v, d) = [j \in 1..d |-> rest[j - 1] % 2]
  BY BitsUnfold
<1>2. d \in 0..d
  OBVIOUS
<1>3. rest[d] = v \div 2^d
  BY <1>2, HalvedTimes
<1>4. 2^d \in Nat \ {0}
  BY <1>2, PowersNatural
<1> DEFINE p == 2^d
<1>5. v \div p = 0
  <2>1. p \in Nat \ {0} /\ v < p
    BY <1>4
  <2> HIDE DEF p
  <2> QED
    BY <2>1
<1> QED
  BY <1>3, <1>5 DEF FitsIn

\* The bits of a number that are coded are those of a number below 2^d.
LEMMA LowBits ==
  ASSUME NEW v \in Nat, NEW d \in Nat, Powers(d)
  PROVE  \E u \in 0..(2^d - 1) : BitsOf(u, d) = BitsOf(v, d)
<1> DEFINE u == ValueOf(BitsOf(v, d))
           p == 2^d
<1>1. BitsOf(v, d) \in [1..d -> {0, 1}]
  BY BitsUnfold
<1>2. u \in Nat /\ BitsOf(u, d) = BitsOf(v, d) /\ FitsIn(u, d)
  BY <1>1, BitsAreBack
<1> HIDE DEF u
<1>3. PICK rest \in Halvings(u, d) : rest[d] = 0
  BY <1>2 DEF FitsIn
<1>4. d \in 0..d
  OBVIOUS
<1>5. u \div p = 0 /\ p \in Nat \ {0}
  BY <1>2, <1>3, <1>4, HalvedTimes, PowersNatural
<1> HIDE DEF p
<1>6. u \in 0..(p - 1)
  BY <1>2, <1>5, DivModNat
<1> QED
  BY <1>2, <1>6 DEF p

----------------------------------------------------------------------------
(* Codewords *)

LEMMA CodewordType ==
  ASSUME NEW v \in Nat, NEW d \in 1..64, NEW mode
  PROVE  /\ AthEncoding(v, d, mode) \in Seq(Byte) /\ Len(AthEncoding(v, d, mode)) \in Nat
         /\ Ends(v, d, mode) => Len(AthEncoding(v, d, mode)) > 0
<1>1. PICK E \in Paths(v, d, mode) : EncodedBits(v, d, mode) = E[d]
  BY EncoderPath
<1> DEFINE e == E[d]
<1>2. e \in Ready
  <2>1. E \in [0..d -> Ready] /\ d \in 0..d
    BY DEF Paths, Traces
  <2> QED
    BY <2>1
<1>3. AthEncoding(v, d, mode) = e.output \o FinalBytes(e.coder)
  BY <1>1 DEF AthEncoding
<1>4. Ends(v, d, mode) => Settled(e.coder) # {}
  BY <1>1 DEF Ends
<1> HIDE DEF e
<1>5. e.output \in Seq(Byte) /\ FinalBytes(e.coder) \in Seq(Byte) /\ e.coder \in Coder
  BY <1>2, FinalBytesType DEF Ready, Encoders
<1> DEFINE s == e.output
           t == FinalBytes(e.coder)
<1>6. Ends(v, d, mode) => Len(t) \in 1..4
  BY <1>4, <1>5, FinalBytesType
<1>7. s \in Seq(Byte) /\ t \in Seq(Byte)
  BY <1>5
<1> HIDE DEF s, t
<1>8. s \o t \in Seq(Byte) /\ Len(s) \in Nat /\ Len(s \o t) \in Nat /\ Len(s \o t) = Len(s) + Len(t)
  BY <1>7
<1>9. Len(t) \in 1..4 => Len(s \o t) > 0
  <2> DEFINE l == Len(s)
             m == Len(t)
             n == Len(s \o t)
  <2>1. l \in Nat /\ n = l + m
    BY <1>8
  <2> HIDE DEF l, m, n
  <2>2. m \in 1..4 => n > 0
    BY <2>1
  <2> QED
    BY <2>2 DEF m, n
<1> QED
  BY <1>3, <1>6, <1>8, <1>9 DEF s, t

\* Bytes behind a codeword: it is still at the beginning.
LEMMA BehindCodeword ==
  ASSUME NEW code \in Seq(Byte), NEW behind \in Seq(Byte)
  PROVE  /\ code \o behind \in Seq(Byte) /\ Begins(code \o behind, code)
         /\ Len(code \o behind) = Len(code) + Len(behind) /\ Len(code) \in Nat /\ Len(behind) \in Nat
<1>1. code \o behind \in Seq(Byte) /\ Concatenates(code \o behind, code, behind)
  BY Concatenation
<1>2. Len(code) \in Nat /\ Len(behind) \in Nat
  OBVIOUS
<1> QED
  BY <1>1, <1>2 DEF Concatenates, Begins

(* No codeword begins with that of another value of the same width: for every mode and *)
(* every table of probabilities, if the encoder could end them.                        *)
THEOREM PrefixFree ==
  ASSUME NEW d \in 1..64, NEW mode, NEW v \in Nat, NEW w \in Nat, FitsIn(v, d), FitsIn(w, d),
         Ends(v, d, mode), Ends(w, d, mode),
         Len(AthEncoding(v, d, mode)) <= Len(AthEncoding(w, d, mode)),
         Begins(AthEncoding(w, d, mode), AthEncoding(v, d, mode))
  PROVE  v = w
<1> DEFINE a == AthEncoding(v, d, mode)
           b == AthEncoding(w, d, mode)
           behind == <<0, 0, 0>>
           memory == b \o behind
<1>1. a \in Seq(Byte) /\ b \in Seq(Byte) /\ Len(a) \in Nat /\ Len(b) \in Nat
  BY CodewordType
<1>2. behind \in Seq(Byte) /\ Len(behind) = 3
  <2>1. 0 \in Byte
    BY Sizes DEF Byte
  <2> QED
    BY <2>1
<1>3. Len(a) <= Len(b) /\ Begins(b, a)
  OBVIOUS
<1> HIDE DEF a, b, behind
<1>4. memory \in Seq(Byte) /\ Begins(memory, b) /\ Len(memory) = Len(b) + 3
  BY <1>1, <1>2, BehindCodeword
<1> HIDE DEF memory
<1>5. Len(memory) >= Len(b) + 3 /\ Len(memory) >= Len(a) + 3
  BY <1>1, <1>3, <1>4
<1>6. Begins(memory, a)
  <2>1. \A k \in 1..Len(a) : k \in 1..Len(b)
    BY <1>1, <1>3
  <2> QED
    BY <1>3, <1>4, <2>1 DEF Begins
<1>7. AthDecoding(memory, d, mode) = [value |-> v, usedLength |-> Len(a)]
  BY <1>1, <1>4, <1>5, <1>6, CallsRoundTrip DEF a
<1>8. AthDecoding(memory, d, mode) = [value |-> w, usedLength |-> Len(b)]
  BY <1>1, <1>4, <1>5, CallsRoundTrip DEF b
<1> QED
  BY <1>7, <1>8

\* AthDecoding_prebuild, given a codeword and a limit of fewer bits than the width.
LEMMA PrebuildOfCodeword ==
  ASSUME NEW d \in 1..64, NEW mode, NEW w \in Nat, Ends(w, d, mode),
         NEW A \in Seq(Byte), Begins(A, AthEncoding(w, d, mode)), Len(A) >= Len(AthEncoding(w, d, mode)) + 3,
         NEW outputLimit, NEW inputLimit \in 0..(d - 1)
  PROVE  /\ AthDecoding_prebuild(A, d, outputLimit, inputLimit, mode) # {}
         /\ \A p \in AthDecoding_prebuild(A, d, outputLimit, inputLimit, mode) :
              SameTopByte(p) \/ Len(p.bits) \in 0..inputLimit
<1> DEFINE value == BitsOf(w, d)
<1>1. PICK E \in Paths(w, d, mode) : \E s : Held(E, s, w, d, mode, A)
  BY CodewordHeld
<1>2. PICK s : Held(E, s, w, d, mode, A)
  BY <1>1
<1>3. d \in Nat
  OBVIOUS
<1>4. value \in [1..d -> {0, 1}]
  BY <1>3, BitsUnfold
<1>5. E \in Traces(value, d, d, mode)
  BY DEF Paths
<1>6. Stream(s) /\ Within(s, E[d]) /\ Holds(A, s, Place(E[d]) + 4)
  BY <1>2 DEF Held
<1>7. Deciding(E, value, d, s, d, mode)
  BY <1>6, PathDecides
<1> HIDE DEF value
<1> QED
  BY <1>4, <1>5, <1>6, <1>7, PrebuildStops

\* The decoders of two codewords whose values agree on the bits up to the limit are stopped
\* in the same state, the only one.
LEMMA PrebuildShared ==
  ASSUME NEW d \in 1..64, NEW mode, NEW v \in Nat, Ends(v, d, mode), NEW w \in Nat, Ends(w, d, mode),
         NEW A, Starts(A, v, d, mode), NEW B, Starts(B, w, d, mode),
         NEW outputLimit, NEW inputLimit \in 0..(d - 1), Agree(v, w, d, inputLimit)
  PROVE  SameState(AthDecoding_prebuild(A, d, outputLimit, inputLimit, mode),
                   AthDecoding_prebuild(B, d, outputLimit, inputLimit, mode))
<1> DEFINE a == BitsOf(v, d)
           b == BitsOf(w, d)
<1>1. ASSUME NEW u \in Nat, Ends(u, d, mode), NEW M, Starts(M, u, d, mode)
      PROVE  \E E, s : Retraced(E, BitsOf(u, d), s, d, mode) /\ Holds(M, s, Place(E[d]) + 4)
  <2>1. M \in Seq(Byte) /\ Begins(M, AthEncoding(u, d, mode)) /\ Len(M) >= Len(AthEncoding(u, d, mode)) + 3
    BY <1>1 DEF Starts
  <2>2. PICK E \in Paths(u, d, mode) : \E s : Held(E, s, u, d, mode, M)
    BY <1>1, <2>1, CodewordHeld
  <2>3. PICK s : Held(E, s, u, d, mode, M)
    BY <2>2
  <2>4. BitsOf(u, d) \in [1..d -> {0, 1}]
    <3>1. d \in Nat
      OBVIOUS
    <3> QED
      BY <3>1, BitsUnfold
  <2>5. Stream(s) /\ Within(s, E[d]) /\ Holds(M, s, Place(E[d]) + 4)
    BY <2>3 DEF Held
  <2>6. Deciding(E, BitsOf(u, d), d, s, d, mode)
    BY <2>5, PathDecides
  <2>7. E \in Traces(BitsOf(u, d), d, d, mode)
    BY DEF Paths
  <2>8. Retraced(E, BitsOf(u, d), s, d, mode)
    BY <2>4, <2>5, <2>6, <2>7 DEF Retraced
  <2> QED
    BY <2>5, <2>8
<1>2. PICK E, s : Retraced(E, a, s, d, mode) /\ Holds(A, s, Place(E[d]) + 4)
  BY <1>1
<1>3. PICK F, t : Retraced(F, b, t, d, mode) /\ Holds(B, t, Place(F[d]) + 4)
  BY <1>1
<1>4. \A k \in 1..inputLimit : a[k] = b[k]
  BY DEF Agree
<1> HIDE DEF a, b
<1> QED
  BY <1>2, <1>3, <1>4, PrebuildAgrees

----------------------------------------------------------------------------
(* The cells of the table *)

\* The bit that the common length is counted to.
LEMMA CommonBits ==
  ASSUME NEW d \in 1..64, Powers(d), NEW values \in SUBSET Nat
  PROVE  /\ CommonLength(values, d) \in 0..(d - 1)
         /\ (\A v, w \in values : v % 2 = w % 2) =>
              \A v, w \in values : \A k \in 1..CommonLength(values, d) : BitsOf(v, d)[k] = BitsOf(w, d)[k]
<1> DEFINE differing == {i \in 1..(d - 1) : \E v, w \in values : (v \div 2^i) % 2 # (w \div 2^i) % 2}
           c == CommonLength(values, d)
<1>1. c = IF differing = {} THEN 0 ELSE Min(differing)
  BY DEF CommonLength
<1>2. differing \in SUBSET Nat /\ \A i \in differing : i \in 1..(d - 1)
  OBVIOUS
<1>3. \A i \in 1..(d - 1) : i \notin differing =>
        \A v, w \in values : (v \div 2^i) % 2 = (w \div 2^i) % 2
  OBVIOUS
<1> HIDE DEF differing, c
<1>4. differing # {} => c \in differing /\ \A i \in differing : c <= i
  <2>1. differing # {} => \E i \in differing : \A j \in differing : i <= j
    BY <1>2, LeastElement
  <2> QED
    BY <1>1, <2>1 DEF Min
<1>5. c \in 0..(d - 1)
  <2>1. 0 \in 0..(d - 1) /\ \A i \in 1..(d - 1) : i \in 0..(d - 1)
    OBVIOUS
  <2> QED
    BY <1>1, <1>2, <1>4, <2>1
<1>6. ASSUME \A v, w \in values : v % 2 = w % 2,
             NEW v \in values, NEW w \in values, NEW k \in 1..c
      PROVE  BitsOf(v, d)[k] = BitsOf(w, d)[k]
  <2>1. k \in 1..d /\ d \in Nat /\ v \in Nat /\ w \in Nat
    BY <1>5
  <2>2. BitsOf(v, d)[k] = (v \div 2^(k - 1)) % 2 /\ BitsOf(w, d)[k] = (w \div 2^(k - 1)) % 2
    BY <2>1, BitsAt
  <2>3. CASE k = 1
    <3>1. 2^(k - 1) = 1
      BY <2>3 DEF Powers
    <3>2. v \div 1 = v /\ w \div 1 = w
      BY <2>1
    <3> QED
      BY <1>6, <2>2, <3>1, <3>2, Zenon
  <2>4. CASE k # 1
    <3>1. k - 1 \in 1..(d - 1) /\ ~(c <= k - 1)
      BY <1>5, <2>1, <2>4
    <3>2. k - 1 \notin differing
      BY <1>4, <3>1
    <3>3. (v \div 2^(k - 1)) % 2 = (w \div 2^(k - 1)) % 2
      BY <1>3, <3>1, <3>2
    <3> QED
      BY <2>2, <3>3, Zenon
  <2> QED
    BY <2>3, <2>4
<1> QED
  BY <1>5, <1>6 DEF c

\* Of the values of one width, each of which can be ended.
Encoded1(r, d, mode) ==
  /\ r = [value |-> r.value, code |-> AthEncoding(r.value, d, mode)]
  /\ r.value \in Nat /\ FitsIn(r.value, d) /\ Ends(r.value, d, mode)

\* What a State holds, and what is done with it.
Found(entry, memory, d, mode) ==
  IF entry.end THEN {[value |-> entry.value, usedLength |-> entry.length]}
  ELSE AthDecoding_fast(SubSeq(memory, entry.prebuildState.usedLength + 1, Len(memory)),
                        d, entry.prebuildState, mode)

LEMMA CellDecodes ==
  ASSUME NEW d \in 1..64, NEW mode, Powers(d), NEW cell, \A q \in cell : Encoded1(q, d, mode),
         Serves(cell, d, mode), NEW r \in cell, NEW B, Starts(B, r.value, d, mode)
  PROVE  Found(EntryOf(cell, d, mode), B, d, mode) = {AthDecoding(B, d, mode)}
<1> DEFINE q == CHOOSE x \in cell : TRUE
           v == r.value
           w == q.value
           values == {x.value : x \in cell}
           common == CommonLength(values, d)
           A == q.code \o <<0, 0, 0, 0>>
           states == AthDecoding_prebuild(A, d, 2, common, mode)
           p == CHOOSE x \in states : TRUE
           entry == EntryOf(cell, d, mode)
<1>1. q \in cell
  OBVIOUS
<1>2. entry = IF cell = {q} THEN [end |-> TRUE, value |-> q.value, length |-> Len(q.code)]
              ELSE [end |-> FALSE, prebuildState |-> p]
  BY DEF EntryOf
<1>3. entry.end \/ (~SameTopByte(entry.prebuildState) /\ \A x, y \in cell : x.value % 2 = y.value % 2)
  BY DEF Serves
<1>4. Encoded1(q, d, mode) /\ Encoded1(r, d, mode)
  BY <1>1
<1>5. /\ q.code = AthEncoding(w, d, mode) /\ w \in Nat /\ Ends(w, d, mode)
      /\ v \in Nat /\ FitsIn(v, d) /\ Ends(v, d, mode)
  BY <1>4 DEF Encoded1
<1>6. B \in Seq(Byte) /\ Begins(B, AthEncoding(v, d, mode)) /\ Len(B) >= Len(AthEncoding(v, d, mode)) + 3
  BY DEF Starts
<1>7. values \in SUBSET Nat /\ v \in values /\ w \in values
  <2>1. \A x \in cell : x.value \in Nat
    BY DEF Encoded1
  <2> QED
    BY <1>1, <2>1
<1> HIDE DEF entry, p, q
<1>8. CASE cell = {q}
  <2>1. r = q
    BY <1>8
  <2>2. AthDecoding(B, d, mode) = [value |-> v, usedLength |-> Len(AthEncoding(v, d, mode))]
    BY <1>5, <1>6, CallsRoundTrip
  <2>3. entry = [end |-> TRUE, value |-> v, length |-> Len(AthEncoding(v, d, mode))]
    BY <1>2, <1>5, <1>8, <2>1
  <2> QED
    BY <2>2, <2>3 DEF Found, entry
<1>9. CASE cell # {q}
  <2>1. entry = [end |-> FALSE, prebuildState |-> p]
    BY <1>2, <1>9
  <2>2. ~SameTopByte(p) /\ \A x, y \in cell : x.value % 2 = y.value % 2
    BY <1>3, <2>1
  <2>3. A \in Seq(Byte) /\ Begins(A, AthEncoding(w, d, mode)) /\ Len(A) >= Len(AthEncoding(w, d, mode)) + 3
    <3> DEFINE code == AthEncoding(w, d, mode)
               zeros == <<0, 0, 0, 0>>
    <3>1. 0 \in Byte
      BY Sizes DEF Byte
    <3>2. zeros \in Seq(Byte) /\ Len(zeros) = 4
      BY <3>1
    <3>3. code \in Seq(Byte)
      BY <1>5, CodewordType
    <3>4. A = code \o zeros
      BY <1>5
    <3> HIDE DEF code, zeros, A
    <3>5. A \in Seq(Byte) /\ Begins(A, code) /\ Len(A) = Len(code) + 4 /\ Len(code) \in Nat
      BY <3>2, <3>3, <3>4, BehindCodeword
    <3> QED
      BY <3>5 DEF code
  <2>4. /\ common \in 0..(d - 1)
        /\ (\A x, y \in values : x % 2 = y % 2) =>
             \A x, y \in values : \A k \in 1..common : BitsOf(x, d)[k] = BitsOf(y, d)[k]
    BY <1>7, CommonBits
  <2>5. \A x, y \in values : x % 2 = y % 2
    BY <2>2
  <2>6. \A k \in 1..common : BitsOf(v, d)[k] = BitsOf(w, d)[k]
    BY <1>7, <2>4, <2>5
  <2> HIDE DEF common, A, values
  <2>7. states # {} /\ \A x \in states : SameTopByte(x) \/ Len(x.bits) \in 0..common
    BY <1>5, <2>3, <2>4, PrebuildOfCodeword
  <2>8. p \in states
    BY <2>7 DEF p
  <2>9. Len(p.bits) \in 0..common
    BY <2>2, <2>7, <2>8
  <2>10. Len(p.bits) < d /\ \A k \in 1..Len(p.bits) : BitsOf(v, d)[k] = BitsOf(w, d)[k]
    <3> DEFINE n == Len(p.bits)
    <3> HIDE DEF n
    <3>1. n \in 0..common /\ common \in 0..(d - 1)
      BY <2>4, <2>9 DEF n
    <3>2. n < d /\ \A k \in 1..n : k \in 1..common
      BY <3>1
    <3> QED
      BY <2>6, <3>2 DEF n
  <2> HIDE DEF v, w
  <2>11. AthDecoding_fast(SubSeq(B, p.usedLength + 1, Len(B)), d, p, mode) = {AthDecoding(B, d, mode)}
    <3>1. p \in AthDecoding_prebuild(A, d, 2, common, mode)
      BY <2>8 DEF states
    <3>2. ~SameTopByte(p)
      BY <2>2
    <3>3. Len(p.bits) < d
      BY <2>10
    <3>4. \A k \in 1..Len(p.bits) : BitsOf(v, d)[k] = BitsOf(w, d)[k]
      BY <2>10
    <3>5. Starts(A, w, d, mode) /\ Starts(B, v, d, mode) /\ Agree(v, w, d, Len(p.bits))
      BY <1>6, <2>3, <3>4 DEF Starts, Agree
    <3>6. Resumes(p, B, d, mode)
      BY <1>5, <3>1, <3>2, <3>3, <3>5, ResumedDecoding
    <3> QED
      BY <3>6 DEF Resumes
  <2> QED
    BY <2>1, <2>11 DEF Found, entry
<1> QED
  BY <1>8, <1>9

LEMMA ResultsEncoded ==
  ASSUME NEW d \in 1..64, NEW mode, Powers(d), Usable(d, mode)
  PROVE  \A q \in Results(d, mode) : Encoded1(q, d, mode)
<1>1. d \in Nat /\ d \in 0..d
  OBVIOUS
<1>2. 2^d \in Nat
  BY <1>1, PowersNatural
<1> DEFINE m == 2^d
<1>3. ASSUME NEW v \in 0..(m - 1) PROVE Encoded1([value |-> v, code |-> AthEncoding(v, d, mode)], d, mode)
  <2>1. v \in Nat /\ v < m
    <3>1. m \in Nat
      BY <1>2
    <3> HIDE DEF m
    <3> QED
      BY <3>1
  <2>2. FitsIn(v, d)
    BY <1>1, <2>1, FitsBelow
  <2>3. Ends(v, d, mode)
    BY DEF Usable
  <2> QED
    BY <2>1, <2>2, <2>3 DEF Encoded1
<1> QED
  BY <1>3 DEF Results

\* The lookup of the codeword of a value that the table has been made for.
LEMMA LookupOfResult ==
  ASSUME NEW d \in 1..64, NEW mode, Powers(d), Usable(d, mode),
         NEW v \in 0..(2^d - 1), NEW B, Starts(B, v, d, mode)
  PROVE  Lookup(TableOf(d, mode), B, d, mode) = {AthDecoding(B, d, mode)}
<1> DEFINE code == AthEncoding(v, d, mode)
           r == [value |-> v, code |-> code]
           results == Results(d, mode)
           h == B[1]
           s == B[2]
           head == WithByte(results, 1, h)
           cell == WithByte(head, 2, s)
           table == TableOf(d, mode)
           node == Get(table, h, NewNode)
           state == EntryFor(node, B)
           answer == AthDecoding(B, d, mode)
<1>1. r \in results /\ \A q \in results : Encoded1(q, d, mode)
  BY ResultsEncoded DEF Results
<1>2. v \in Nat /\ FitsIn(v, d) /\ Ends(v, d, mode)
  BY <1>1 DEF Encoded1
<1>3. B \in Seq(Byte) /\ Begins(B, code) /\ Len(B) >= Len(code) + 3
  BY DEF Starts
<1>4. code \in Seq(Byte) /\ Len(code) \in Nat /\ Len(code) > 0
  BY <1>2, CodewordType
<1>5. answer = [value |-> v, usedLength |-> Len(code)]
  BY <1>2, <1>3, CallsRoundTrip
<1>6. r.value = v /\ r.code = code
  OBVIOUS
<1>7. code[1] = h /\ (Len(code) # 1 => code[2] = s)
  <2>1. \A l \in Nat : l > 0 => 1 \in 1..l /\ (l # 1 => 2 \in 1..l)
    OBVIOUS
  <2>2. 1 \in 1..Len(code) /\ (Len(code) # 1 => 2 \in 1..Len(code))
    BY <1>4, <2>1
  <2> QED
    BY <1>3, <2>2 DEF Begins
<1>8. table = [b \in {q.code[1] : q \in results} |-> NodeOf(WithByte(results, 1, b), d, mode)]
  BY DEF TableOf
<1>9. (\A q \in head : Len(q.code) # 1) =>
        \A b \in {q.code[2] : q \in head} : Serves(WithByte(head, 2, b), d, mode)
  <2>1. h \in {q.code[1] : q \in results}
    BY <1>1, <1>6, <1>7
  <2> QED
    BY <2>1 DEF Usable
<1>10. Lookup(table, B, d, mode)
         = IF node.end THEN {[value |-> node.value, usedLength |-> 1]} ELSE Found(state, B, d, mode)
  BY DEF Lookup, Found
<1> HIDE DEF answer, code, results, table
<1>11. node = NodeOf(head, d, mode)
  <2>1. h \in {q.code[1] : q \in results}
    BY <1>1, <1>6, <1>7
  <2> QED
    BY <1>8, <2>1 DEF Get
<1>12. r \in head /\ \A q \in head : Encoded1(q, d, mode) /\ q.code[1] = h
  BY <1>1, <1>6, <1>7 DEF WithByte
<1> HIDE DEF node, state, head, r
<1>13. CASE \E q \in head : Len(q.code) = 1
  <2>1. PICK q \in head : Len(q.code) = 1
    BY <1>13
  <2>2. ASSUME NEW x \in head PROVE x.value = q.value
    <3> DEFINE a == q.value
               b == x.value
    <3>1. /\ q.code = AthEncoding(a, d, mode) /\ a \in Nat /\ FitsIn(a, d) /\ Ends(a, d, mode)
          /\ x.code = AthEncoding(b, d, mode) /\ b \in Nat /\ FitsIn(b, d) /\ Ends(b, d, mode)
      BY <1>12 DEF Encoded1
    <3>2. q.code[1] = h /\ x.code[1] = h
      BY <1>12
    <3>3. AthEncoding(b, d, mode) \in Seq(Byte) /\ Len(AthEncoding(b, d, mode)) \in Nat
          /\ Len(AthEncoding(b, d, mode)) > 0
      BY <3>1, CodewordType
    <3>4. Len(AthEncoding(a, d, mode)) <= Len(AthEncoding(b, d, mode))
      <4>1. \A l \in Nat : l > 0 => 1 <= l
        OBVIOUS
      <4>2. Len(AthEncoding(a, d, mode)) = 1
        BY <2>1, <3>1
      <4> QED
        BY <3>3, <4>1, <4>2
    <3>5. Begins(AthEncoding(b, d, mode), AthEncoding(a, d, mode))
      BY <2>1, <3>1, <3>2 DEF Begins
    <3> HIDE DEF a, b
    <3>6. a = b
      BY <3>1, <3>4, <3>5, PrefixFree
    <3> QED
      BY <3>6 DEF a, b
  <2>3. r.value = q.value /\ (CHOOSE x \in head : TRUE).value = q.value
    BY <1>12, <2>2
  <2>4. node.end /\ node.value = v
    <3>1. node = [NewNode EXCEPT !.end = TRUE, !.value = (CHOOSE x \in head : TRUE).value]
      BY <1>11, <1>13 DEF NodeOf
    <3> QED
      BY <1>6, <2>3, <3>1 DEF NewNode, r
  <2>5. Len(code) = 1
    <3>1. q.code = AthEncoding(q.value, d, mode)
      BY <1>12 DEF Encoded1
    <3> QED
      BY <1>6, <2>1, <2>3, <3>1 DEF code, r
  <2>6. Lookup(table, B, d, mode) = {answer}
    BY <1>5, <1>10, <2>4, <2>5
  <2> QED
    BY <2>6 DEF answer, table
<1>14. CASE ~\E q \in head : Len(q.code) = 1
  <2>1. node = [NewNode EXCEPT !.table = [b \in {q.code[2] : q \in head} |-> EntryOf(WithByte(head, 2, b), d, mode)]]
    BY <1>11, <1>14 DEF NodeOf
  <2>2. ~node.end /\ node.table = [b \in {q.code[2] : q \in head} |-> EntryOf(WithByte(head, 2, b), d, mode)]
    BY <2>1 DEF NewNode
  <2>3. s = r.code[2] /\ s \in {q.code[2] : q \in head}
    <3>1. Len(code) # 1
      BY <1>12, <1>14 DEF r
    <3> QED
      BY <1>7, <1>12, <3>1 DEF r
  <2>4. Serves(cell, d, mode)
    BY <1>9, <1>14, <2>3
  <2>5. r \in cell /\ \A q \in cell : Encoded1(q, d, mode)
    BY <1>12, <2>3 DEF WithByte
  <2>6. state = EntryOf(cell, d, mode)
    BY <2>2, <2>3 DEF EntryFor, Get, state
  <2>7. Starts(B, r.value, d, mode)
    BY <1>6 DEF r
  <2> HIDE DEF cell
  <2>8. Found(EntryOf(cell, d, mode), B, d, mode) = {AthDecoding(B, d, mode)}
    BY <2>4, <2>5, <2>7, CellDecodes
  <2>9. Lookup(table, B, d, mode) = {AthDecoding(B, d, mode)}
    BY <1>10, <2>2, <2>6, <2>8
  <2> QED
    BY <2>9 DEF table
<1> QED
  BY <1>13, <1>14

\* A value is coded like one that the table has been made for.
LEMMA LikeSmall ==
  ASSUME NEW d \in 1..64, NEW mode, Powers(d), NEW v \in Nat
  PROVE  \E u \in 0..(2^d - 1) : EncodedBits(u, d, mode) = EncodedBits(v, d, mode)
<1>1. d \in Nat
  OBVIOUS
<1>2. PICK u \in 0..(2^d - 1) : BitsOf(u, d) = BitsOf(v, d)
  BY <1>1, LowBits
<1>3. EncodedBits(u, d, mode) = EncodedBits(v, d, mode)
  BY <1>2 DEF EncodedBits
<1> QED
  BY <1>3

LEMMA AllEnd ==
  ASSUME NEW d \in 1..64, NEW mode, Powers(d), Usable(d, mode), NEW v \in Nat
  PROVE  Ends(v, d, mode)
<1>1. PICK u \in 0..(2^d - 1) : EncodedBits(u, d, mode) = EncodedBits(v, d, mode)
  BY LikeSmall
<1>2. Ends(u, d, mode)
  BY DEF Usable
<1> QED
  BY <1>1, <1>2 DEF Ends

(* The lookup of a codeword, in the table of its width and mode, finds what AthDecoding  *)
(* returns, whatever lies behind the codeword: for every width, mode and table of        *)
(* probabilities whose table is usable, and also for values that have more bits than     *)
(* the width, of which the lowest are coded.                                             *)
THEOREM TableDecodes ==
  ASSUME NEW d \in 1..64, NEW mode, Powers(d), Usable(d, mode), NEW v \in Nat,
         NEW B, Starts(B, v, d, mode)
  PROVE  Lookup(TableOf(d, mode), B, d, mode) = {AthDecoding(B, d, mode)}
<1>1. PICK u \in 0..(2^d - 1) : EncodedBits(u, d, mode) = EncodedBits(v, d, mode)
  BY LikeSmall
<1>2. AthEncoding(u, d, mode) = AthEncoding(v, d, mode)
  BY <1>1 DEF AthEncoding
<1>3. Starts(B, u, d, mode)
  BY <1>2 DEF Starts
<1> QED
  BY <1>3, LookupOfResult
=============================================================================
