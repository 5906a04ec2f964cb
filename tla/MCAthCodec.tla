----------------------------- MODULE MCAthCodec -----------------------------
(***************************************************************************)
(* Instances of AthCodec for TLC: the code's probabilities (ratioList,     *)
(* 1/4096ths, 22-bit ratios) on registers of four smaller bytes.           *)
(***************************************************************************)
EXTENDS AthCodec

CONSTANTS Widths, Modes

\* Every value of every width, in every mode.
AllCalls ==
  UNION {[datumBit : {d}, mode : Modes, value : [1..d -> {0, 1}]] : d \in Widths}

\* Values of 24 bits, in six groups of four equal bits: their codewords outgrow the four
\* bytes that the decoder starts from.
LongCalls ==
  {[datumBit |-> 24, mode |-> m, value |-> [k \in 1..24 |-> v[(k - 1) \div 4]]] :
     m \in Modes, v \in [0..5 -> {0, 1}]}

\* The 15-bit values whose six highest bits are those of 20789: among them one (20789, in
\* mode 2, when a byte has 64 values) whose interval ends as two points.
NearTheLost ==
  {[datumBit |-> 15, mode |-> m,
    value |-> [k \in 1..15 |-> (v \div 2^(k - 1)) % 2]] : m \in Modes \cap {2}, v \in 20480..20991}

ShortAndLong == AllCalls \cup LongCalls \cup NearTheLost

\* Memory behind the codeword: the smallest bytes, the largest, and a mixture.
AllTails == {<<0>>, <<Base - 1>>, <<Base \div 2, 0, Base - 1>>}
=============================================================================
