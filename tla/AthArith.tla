------------------------------ MODULE AthArith ------------------------------
(***************************************************************************)
(* The arithmetic of the Ath entropy coder (src/AthEncoding.h): the 32-bit *)
(* registers that delimit the current interval, the adaptive probability   *)
(* of a one bit, and the two steps that AthEncoding, AthDecoding,          *)
(* AthDecoding_fast and AthDecoding_prebuild repeat in the same order,     *)
(* bit for bit: Narrow (one data bit) and Renorm (one code byte).          *)
(*                                                                         *)
(* A register is four bytes wide, as in the code; the number of values of  *)
(* a byte is the parameter Base (256 in the code), so that a register fits *)
(* the integers of TLC when Base is small.  Unsigned arithmetic wraps.     *)
(***************************************************************************)
EXTENDS Integers, Sequences

CONSTANTS
  Base,     \* values of a byte: 256
  Prec,     \* a probability is a number of Prec-ths: 4096 (">> 12", "& 0xfff")
  Extra,    \* what a Ratio keeps of such a unit: 1024 ("<< 10", ">> 10")
  RefRatio  \* RefRatio[d]: the probability ratioList holds for d-bit data

ASSUME BaseAssumption  == Base \in Nat \ {0, 1}
ASSUME PrecAssumption  == Prec \in Nat \ {0} /\ Extra \in Nat \ {0}
ASSUME RatioAssumption == RefRatio \in [1..64 -> 0..(Prec - 1)]

\* The table of the code, in 4096ths; ratioList[d] here is ratioList[d - 1] there.
ratioList == <<
  0, 0, 0, 0, 0, 0, 0, 0,
  1218, 972, 809, 686, 604, 522, 481, 440, 1423, 1218, 1095, 972, 890, 809,
  727, 686, 1546, 1341, 1218, 1136, 1054, 972, 890, 849, 1587, 1423, 1300,
  1218, 1136, 1054, 1013, 972, 1628, 1505, 1382, 1300, 1218, 1177, 1095, 1054,
  1668, 1546, 1423, 1341, 1300, 1218, 1177, 1136, 1709, 1587, 1464, 1382, 1341,
  1259, 1218, 1177>>

Byte  == 0..(Base - 1)
Base2 == Base * Base
Base3 == Base2 * Base
Reg   == Base3 * Base
Word  == 0..(Reg - 1)        \* uint32_t
MaxRatio == Prec * Extra     \* 1 << 22

----------------------------------------------------------------------------
(* Ratio: the estimate that the next bit is a one, and how many bits it    *)
(* has been learnt from.                                                   *)

Ratio == [ratio : 0..(MaxRatio - 1), count : Nat]

NewRatio(r)  == [ratio |-> r * Extra, count |-> 0]

GetRatio(pr) == pr.ratio \div Extra

\* C's integer division rounds towards zero, TLA+'s towards minus infinity.
Truncate(a, b) == IF a >= 0 THEN a \div b ELSE -((-a) \div b)

\* "update + ratio", which the code asserts to be non-negative before masking it.
UpdatedRatio(pr, bit) ==
  LET delta == (bit * MaxRatio - pr.ratio) * 2
  IN  Truncate(delta, pr.count + pr.count + 20) + pr.ratio

Update(pr, bit) ==
  [ratio |-> UpdatedRatio(pr, bit) % MaxRatio, count |-> pr.count + 1]

----------------------------------------------------------------------------
(* The three segments of a datum: datumBit / 3 bits, as many again, and    *)
(* the rest.  Each starts from a fresh Ratio, mirrored when its bit of     *)
(* mode is set.                                                            *)

SegSize(d)    == d \div 3
Segment(d, i) == IF i < SegSize(d) THEN 0 ELSE IF i < 2 * SegSize(d) THEN 1 ELSE 2

ModeBit(mode, s) == (mode \div (CASE s = 0 -> 1 [] s = 1 -> 2 [] s = 2 -> 4)) % 2

SegRatio(d, mode, s) ==
  IF ModeBit(mode, s) = 1 THEN Prec - 1 - RefRatio[d] ELSE RefRatio[d]

----------------------------------------------------------------------------
(* The interval.  c is the state the encoder and the decoders share: the   *)
(* interval [x1, x2], the Ratio pr, and the index i of the next data bit.  *)

Coder == [x1 : Word, x2 : Word, pr : Ratio, i : Nat]

NewCoder == [x1 |-> 0, x2 |-> Reg - 1, pr |-> NewRatio(0), i |-> 0]

\* The Ratio that predicts bit c.i: a new one where a segment starts.
Predictor(c, d, mode) ==
  LET s == Segment(d, c.i)
  IN  IF c.i = s * SegSize(d) THEN NewRatio(SegRatio(d, mode, s)) ELSE c.pr

\* xMid: the last point of the interval that stands for a one.
SplitPoint(x1, x2, r) ==
  LET range == (x2 - x1) % Reg
  IN  (x1 + (range \div Prec) * r + ((range % Prec) * r) \div Prec) % Reg

\* Mutant of XMid: the Ratio is not renewed where a segment starts.
XMid_SameRatio(c, d, mode) ==
  SplitPoint(c.x1, c.x2, GetRatio(IF c.i = 0 THEN Predictor(c, d, mode) ELSE c.pr))

XMid(c, d, mode) == SplitPoint(c.x1, c.x2, GetRatio(Predictor(c, d, mode)))

\* One data bit: "bit ? (x2 = xMid) : (x1 = xMid + 1); pr.update(bit)".
NarrowBy(c, bit, pr) ==
  LET xMid == SplitPoint(c.x1, c.x2, GetRatio(pr))
  IN  [x1 |-> IF bit = 1 THEN c.x1 ELSE (xMid + 1) % Reg,
       x2 |-> IF bit = 1 THEN xMid ELSE c.x2,
       pr |-> Update(pr, bit),
       i  |-> c.i + 1]

Narrow(c, bit, d, mode) == NarrowBy(c, bit, Predictor(c, d, mode))

TopByte(x)     == x \div Base3
SameTopByte(c) == TopByte(c.x1) = TopByte(c.x2)

\* "x << 8" with b shifted in at the bottom: the top byte falls off.
ShiftIn(x, b) == (x % Base3) * Base + b

\* Mutant of Renorm: the shifted registers are wider than 32 bits.
Renorm_Wide(c) == [c EXCEPT !.x1 = @ * Base, !.x2 = @ * Base + Base - 1]

\* One code byte settled: the body of "while (((x1 ^ x2) & 0xff000000) == 0)".
Renorm(c) == [c EXCEPT !.x1 = ShiftIn(@, 0), !.x2 = ShiftIn(@, Base - 1)]

----------------------------------------------------------------------------
(* The bytes of a register.  Weight[j] is the weight of its j-th byte,      *)
(* counted from the top; Lead(x, k) are its k leading bytes as a number.    *)

Weight        == <<Base3, Base2, Base, 1>>
Lead(x, k)    == x \div Weight[k]
getByte(x, j) == (x \div Weight[j]) % Base

\* Four bytes of s from s[n + 1] on, as "x = (x << 8) + output[i]" reads them.
WindowOf(s, n) == s[n + 1] * Base3 + s[n + 2] * Base2 + s[n + 3] * Base + s[n + 4]

----------------------------------------------------------------------------
(* The end of a codeword.                                                  *)

\* Mutant of Settled: "i < 2".
Settled_Two(c) == {k \in 1..2 : (Lead(c.x2, k) - Lead(c.x1, k)) % Reg > 1}

\* The numbers of leading bytes on which x1 and x2 leave a whole cell between them.
Settled(c) == {k \in 1..4 : (Lead(c.x2, k) - Lead(c.x1, k)) % Reg > 1}

FirstSettled(c) == CHOOSE k \in Settled(c) : \A l \in Settled(c) : k <= l

\* Mutant of FinalBytes: "j < 3", the last byte is not written.
FinalBytes_Short(c) ==
  IF Settled(c) = {} THEN << >>
  ELSE LET k == FirstSettled(c)
       IN  [j \in 1..(k - 1) |-> getByte((Lead(c.x1, k) + 1) * Weight[k], j)]

\* The bytes of head1 + 1; nothing at all when no prefix is settled.
FinalBytes(c) ==
  IF Settled(c) = {} THEN << >>
  ELSE LET k == FirstSettled(c)
           finalValue == (Lead(c.x1, k) + 1) * Weight[k]
       IN  [j \in 1..k |-> getByte(finalValue, j)]

\* The decoders count the final bytes; without a settled prefix they count four.
FinalLength(c) == IF Settled(c) = {} THEN 4 ELSE FirstSettled(c)
=============================================================================
