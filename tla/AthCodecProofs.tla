--------------------------- MODULE AthCodecProofs ---------------------------
(***************************************************************************)
(* For every size of a byte, every table of probabilities, every width,    *)
(* mode and value, and whatever lies behind the codeword in memory: the    *)
(* types and the intervals of the codec, and that AthDecoding returns the  *)
(* value AthEncoding was given whenever the codeword could be ended.  Also *)
(* that the whole calls of AthCalls are the loops of AthCodec.             *)
(*                                                                         *)
(* The argument.  The encoder goes through a path of intervals (Linked);   *)
(* whatever bytes will follow those written, if they make a number of the  *)
(* current interval they made one of every interval of the path (Cells):   *)
(* narrowing only shrinks the interval, and a byte is written only when    *)
(* the whole interval agrees on it.  The final bytes do make a number of   *)
(* the last interval, whatever follows them (FinalInside).  So the bytes   *)
(* the decoder compares always lie in the interval it is in, and on the    *)
(* side of xMid that the encoder took: it goes the encoder's way (Follows).*)
(***************************************************************************)
EXTENDS AthCodec, AthCallsProofs

----------------------------------------------------------------------------
(* The inductive invariant *)

Here == [coder |-> enc, written |-> Len(output)]

\* What one step of the encoder does to its path, in the call a.
Linked(p, q, a) ==
  \/ /\ SameTopByte(p.coder)
     /\ q = [coder |-> Renorm(p.coder), written |-> p.written + 1]
  \/ /\ ~SameTopByte(p.coder)
     /\ p.coder.i < a.datumBit
     /\ q = [coder |-> Narrow(p.coder, a.value[p.coder.i + 1], a.datumBit, a.mode),
             written |-> p.written]

Visited == [coder : Coder, written : Nat]

\* The paths of the call a: from the whole register on, never empty, never backwards.
PathOf(s, a) ==
  /\ Len(s) >= 1
  /\ s[1] = [coder |-> NewCoder, written |-> 0]
  /\ \A j \in 1..Len(s) : s[j].coder.x1 <= s[j].coder.x2
  /\ \A j \in 1..Len(s) : s[j].written <= s[Len(s)].written
  /\ \A j \in 1..(Len(s) - 1) : Linked(s[j], s[j + 1], a)

PathInv ==
  /\ PathOf(path, call)
  /\ path[Len(path)].coder = enc
  /\ ~returned => path[Len(path)].written = Len(output)
  /\ returned => /\ path[Len(path)].written + Len(FinalBytes(enc)) = Len(output)
                 /\ enc.i = call.datumBit
                 /\ ~SameTopByte(enc)

\* s is what memory may hold from the start of the codeword on.
Extended(s) == /\ \A k \in Nat : k > 0 => s[k] \in Byte
               /\ \A k \in 1..Len(output) : s[k] = output[k]

InCell(s, p) == /\ p.coder.x1 <= WindowOf(s, p.written)
                /\ WindowOf(s, p.written) <= p.coder.x2

Cells ==
  \A s : Extended(s) /\ (IF returned THEN Terminable ELSE InCell(s, Here))
           => \A j \in 1..Len(path) : InCell(s, path[j])

Follows ==
  /\ phase = "idle" => dec = NewCoder /\ used = 0 /\ bits = << >>
  /\ phase # "idle" => returned
  /\ (phase = "decoding" /\ Terminable) =>
       /\ \E j \in 1..Len(path) : path[j] = [coder |-> dec, written |-> used]
       /\ x = Window(used)
       /\ Len(bits) = dec.i
       /\ dec.i <= call.datumBit
       /\ \A k \in 1..dec.i : bits[k] = call.value[k]
  /\ (phase = "decoded" /\ Terminable) =>
       /\ bits = call.value
       /\ used = Len(output)

Typed == TypeOK /\ IntervalsNonEmpty

IInv == Typed /\ PathInv /\ Cells /\ Follows /\ WindowInside

----------------------------------------------------------------------------
(* The arguments of a call, as the assumption has them. *)
LEMMA CallType ==
  ASSUME Typed
  PROVE  /\ call.datumBit \in 1..64
         /\ call.mode \in 0..7
         /\ call.value \in [1..call.datumBit -> {0, 1}]
  BY ArgumentsAssumption DEF Typed, TypeOK

(* The next bit of the value, while there is one. *)
LEMMA NextBit ==
  ASSUME Typed, NEW i \in Nat, i < call.datumBit
  PROVE  /\ call.value[i + 1] \in {0, 1}
         /\ i + 1 \in 1..call.datumBit
         /\ call.datumBit \in Nat
<1>1. \A d \in 1..64 : d \in Nat /\ (i < d => i + 1 \in 1..d)
  OBVIOUS
<1>2. call.datumBit \in Nat /\ i + 1 \in 1..call.datumBit
  BY <1>1, CallType
<1> QED
  BY <1>2, CallType

(* What the decoder finds in memory are bytes. *)
LEMMA MemoryType ==
  ASSUME Typed, NEW k \in Nat \ {0}
  PROVE  ByteAt(k) \in Byte
<1>1. CASE k <= Len(output)
  BY <1>1 DEF ByteAt, Typed, TypeOK
<1>2. CASE ~(k <= Len(output))
  <2> DEFINE m == k - Len(output) - 1
             n == Len(tail)
  <2>1. tail \in Seq(Byte) /\ tail # << >>
    BY TailsAssumption DEF Typed, TypeOK
  <2>2. n \in Nat \ {0} /\ m \in Nat
    BY <2>1, <1>2 DEF Typed, TypeOK
  <2>3. m % n \in 0..(n - 1)
    BY <2>2, DivModNat
  <2>4. (m % n) + 1 \in 1..n
    BY <2>2, <2>3
  <2>5. ByteAt(k) = tail[(m % n) + 1]
    BY <1>2 DEF ByteAt
  <2> HIDE DEF m
  <2> QED
    BY <2>1, <2>4, <2>5
<1> QED
  BY <1>1, <1>2

\* All that the decoder may find in memory.
Memory == [k \in Nat \ {0} |-> ByteAt(k)]

(* The window of the decoder is a window of the stream that memory holds. *)
LEMMA MemoryStream ==
  ASSUME Typed
  PROVE  /\ Extended(Memory)
         /\ \A n \in Nat : /\ Window(n) = WindowOf(Memory, n)
                           /\ Window(n) \in Word
                           /\ ShiftIn(Window(n), ByteAt(n + 5)) = Window(n + 1)
<1>1. \A k \in Nat : k > 0 => Memory[k] \in Byte
  BY MemoryType DEF Memory
<1>2. \A k \in 1..Len(output) : Memory[k] = output[k]
  <2> TAKE k \in 1..Len(output)
  <2>1. k \in Nat \ {0} /\ k <= Len(output)
    BY DEF Typed, TypeOK
  <2> QED
    BY <2>1 DEF Memory, ByteAt
<1>3. \A n \in Nat : Window(n) = WindowOf(Memory, n) /\ ByteAt(n + 5) = Memory[n + 5]
  <2> TAKE n \in Nat
  <2>1. /\ n + 1 \in Nat \ {0} /\ n + 2 \in Nat \ {0} /\ n + 3 \in Nat \ {0}
        /\ n + 4 \in Nat \ {0} /\ n + 5 \in Nat \ {0}
        /\ n + 1 \in (n + 1)..(n + 4) /\ n + 2 \in (n + 1)..(n + 4)
        /\ n + 3 \in (n + 1)..(n + 4) /\ n + 4 \in (n + 1)..(n + 4)
    OBVIOUS
  <2> QED
    BY <2>1 DEF Window, WindowOf, Memory
<1>4. \A n \in Nat : /\ WindowOf(Memory, n) \in Word
                     /\ ShiftIn(WindowOf(Memory, n), Memory[n + 5]) = WindowOf(Memory, n + 1)
  BY <1>1, WindowShift
<1> QED
  BY <1>1, <1>2, <1>3, <1>4 DEF Extended

----------------------------------------------------------------------------
(* The invariant holds of a call that begins. *)
LEMMA InitInv == CodecInit => IInv
<1> SUFFICES ASSUME CodecInit PROVE IInv
  OBVIOUS
<1> USE DEF CodecInit, Init
<1>1. NewCoder \in Coder /\ NewCoder.x1 <= NewCoder.x2 /\ NewCoder.i = 0
  <2>1. 0 \in 0..(Prec - 1)
    BY Sizes
  <2>2. NewRatio(0) \in Ratio
    BY <2>1, NewRatioType
  <2> QED
    BY <2>2, Sizes DEF NewCoder, Coder, Word
<1>2. 0 \in Word
  BY Sizes DEF Word
<1>3. Typed
  <2>1. [coder |-> NewCoder, written |-> 0] \in [coder : Coder, written : Nat]
    BY <1>1
  <2>2. path \in Seq([coder : Coder, written : Nat])
    BY <2>1
  <2>3. /\ output \in Seq(Byte) /\ bits \in Seq({0, 1})
        /\ returned \in BOOLEAN /\ used \in Nat
    <3>1. \A S : << >> \in Seq(S)
      OBVIOUS
    <3> QED
      BY <3>1
  <2>4. TypeOK
    BY <1>1, <1>2, <2>2, <2>3 DEF TypeOK
  <2> QED
    BY <1>1, <2>4 DEF Typed, IntervalsNonEmpty
<1>4. PathInv
  BY <1>1 DEF PathInv, PathOf
<1>5. Cells
  BY DEF Cells, Here, InCell
<1>6. Follows
  BY DEF Follows
<1>7. WindowInside
  BY DEF WindowInside
<1> QED
  BY <1>3, <1>4, <1>5, <1>6, <1>7 DEF IInv

----------------------------------------------------------------------------
(* The types: each action in turn. *)
LEMMA TypedStep ==
  ASSUME Typed, [Next]_vars
  PROVE  Typed'
<1>0. /\ call.datumBit \in Nat /\ call.datumBit \in 1..64
      /\ call.value \in [1..call.datumBit -> {0, 1}]
      /\ Window(0) \in Word
      /\ ByteAt(used + 5) \in Byte
  <2>1. used + 5 \in Nat \ {0}
    BY DEF Typed, TypeOK
  <2>2. ByteAt(used + 5) \in Byte
    BY <2>1, MemoryType
  <2>3. Window(0) \in Word
    BY MemoryStream
  <2>4. \A n \in 1..64 : n \in Nat
    OBVIOUS
  <2> QED
    BY <2>2, <2>3, <2>4, CallType
<1> USE DEF Typed, TypeOK, IntervalsNonEmpty
<1>1. CASE EncodeBit /\ UNCHANGED decVars
  <2>1. call.value[enc.i + 1] \in {0, 1}
    <3>1. enc.i \in Nat /\ enc.i < call.datumBit
      BY <1>1 DEF EncodeBit, Coder
    <3> QED
      BY <3>1, NextBit
  <2>2. enc' \in Coder /\ enc'.x1 <= enc'.x2
    BY <1>0, <1>1, <2>1, NarrowInside DEF EncodeBit
  <2>3. path' \in Seq([coder : Coder, written : Nat])
    BY <1>1, <2>2 DEF EncodeBit, Recorded
  <2> QED
    BY <1>1, <2>2, <2>3 DEF EncodeBit, decVars
<1>2. CASE WriteByte /\ UNCHANGED decVars
  <2>1. enc' \in Coder /\ enc'.x1 <= enc'.x2
    BY <1>2, RenormInside DEF WriteByte
  <2>2. TopByte(enc.x1) \in Byte
    BY TopAndRest DEF Coder
  <2>3. output' \in Seq(Byte)
    BY <1>2, <2>2 DEF WriteByte
  <2>4. path' \in Seq([coder : Coder, written : Nat])
    BY <1>2, <2>1, <2>3 DEF WriteByte, Recorded
  <2> QED
    BY <1>2, <2>1, <2>3, <2>4 DEF WriteByte, decVars
<1>3. CASE WriteFinal /\ UNCHANGED decVars
  <2>1. FinalBytes(enc) \in Seq(Byte)
    BY FinalBytesType
  <2>2. output' \in Seq(Byte)
    BY <1>3, <2>1 DEF WriteFinal
  <2> QED
    BY <1>3, <2>2 DEF WriteFinal, decVars
<1>4. CASE DecodeStart
  BY <1>0, <1>4 DEF DecodeStart, encVars
<1>5. CASE DecodeBit
  <2> DEFINE bit == IF x <= XMid(dec, call.datumBit, call.mode) THEN 1 ELSE 0
  <2>1. dec' = Narrow(dec, bit, call.datumBit, call.mode) /\ bits' = Append(bits, bit)
    BY <1>5 DEF DecodeBit
  <2>2. bit \in {0, 1} /\ ~SameTopByte(dec) /\ dec \in Coder /\ dec.x1 <= dec.x2
    BY <1>5 DEF DecodeBit
  <2> HIDE DEF bit
  <2>3. dec' \in Coder /\ dec'.x1 <= dec'.x2
    BY <1>0, <2>1, <2>2, NarrowInside
  <2>4. bits' \in Seq({0, 1})
    BY <2>1, <2>2
  <2> QED
    BY <1>5, <2>3, <2>4 DEF DecodeBit, encVars
<1>6. CASE UseByte
  <2>1. dec' \in Coder /\ dec'.x1 <= dec'.x2
    BY <1>6, RenormInside DEF UseByte
  <2>2. x' \in Word
    BY <1>0, <1>6, ShiftInType DEF UseByte
  <2> QED
    BY <1>6, <2>1, <2>2 DEF UseByte, encVars
<1>7. CASE DecodeFinal
  <2>1. FinalLength(dec) \in 1..4
    BY FinalBytesType
  <2> QED
    BY <1>7, <2>1 DEF DecodeFinal, encVars
<1>8. CASE UNCHANGED vars
  BY <1>8 DEF vars, encVars, decVars
<1> QED
  BY <1>1, <1>2, <1>3, <1>4, <1>5, <1>6, <1>7, <1>8 DEF Next, Encode

----------------------------------------------------------------------------
(* A path lengthened by a linked step is a path. *)
LEMMA PathAppend ==
  ASSUME NEW a, NEW s \in Seq(Visited), PathOf(s, a),
         NEW q \in Visited, q.coder.x1 <= q.coder.x2,
         q.written >= s[Len(s)].written, Linked(s[Len(s)], q, a)
  PROVE  PathOf(Append(s, q), a)
<1> DEFINE n == Len(s)
           t == Append(s, q)
<1>1. /\ n \in Nat /\ n >= 1 /\ Len(t) = n + 1 /\ t[n + 1] = q
      /\ \A j \in 1..n : t[j] = s[j] /\ s[j] \in Visited
  BY DEF PathOf
<1> HIDE DEF n, t
<1>2. /\ s[1] = [coder |-> NewCoder, written |-> 0]
      /\ \A j \in 1..n : s[j].coder.x1 <= s[j].coder.x2
      /\ \A j \in 1..n : s[j].written <= s[n].written
      /\ \A j \in 1..(n - 1) : Linked(s[j], s[j + 1], a)
      /\ q.written >= s[n].written /\ Linked(s[n], q, a)
  BY DEF PathOf, n
<1>3. \A j \in 1..Len(t) : t[j].coder.x1 <= t[j].coder.x2
  BY <1>1, <1>2
<1>4. \A j \in 1..Len(t) : t[j].written <= t[Len(t)].written
  <2> TAKE j \in 1..Len(t)
  <2>1. CASE j = n + 1
    BY <1>1, <2>1 DEF Visited
  <2>2. CASE j \in 1..n
    <3>1. s[j].written \in Nat /\ s[n].written \in Nat /\ q.written \in Nat
      BY <1>1, <2>2 DEF Visited
    <3> QED
      BY <1>1, <1>2, <2>2, <3>1
  <2> QED
    BY <1>1, <2>1, <2>2
<1>5. \A j \in 1..(Len(t) - 1) : Linked(t[j], t[j + 1], a)
  <2> TAKE j \in 1..(Len(t) - 1)
  <2>1. CASE j = n
    BY <1>1, <1>2, <2>1
  <2>2. CASE j \in 1..(n - 1)
    BY <1>1, <1>2, <2>2
  <2> QED
    BY <1>1, <2>1, <2>2
<1>6. PathOf(t, a)
  BY <1>1, <1>2, <1>3, <1>4, <1>5 DEF PathOf
<1> QED
  BY <1>6 DEF t

(* The path: the encoder lengthens it by one linked step, or leaves it. *)
LEMMA PathStep ==
  ASSUME Typed, Typed', PathInv, [Next]_vars
  PROVE  PathInv'
<1>1. /\ path \in Seq(Visited) /\ Len(path) \in Nat /\ Len(path) >= 1
      /\ Len(output) \in Nat
  BY DEF Typed, TypeOK, PathInv, PathOf, Visited
<1>2. ASSUME ~returned, returned' = returned, call' = call, Recorded,
             Len(output') \in {Len(output), Len(output) + 1},
             Linked(path[Len(path)], [coder |-> enc', written |-> Len(output')], call)
      PROVE  PathInv'
  <2> DEFINE q == [coder |-> enc', written |-> Len(output')]
  <2>1. q \in Visited /\ q.coder.x1 <= q.coder.x2 /\ q.written >= path[Len(path)].written
    BY <1>1, <1>2 DEF Typed, TypeOK, IntervalsNonEmpty, Visited, PathInv
  <2>2. path' = Append(path, q)
    BY <1>2 DEF Recorded
  <2>3. Linked(path[Len(path)], q, call)
    BY <1>2
  <2>4. /\ q.coder = enc' /\ q.written = Len(output')
        /\ Append(path, q)[Len(Append(path, q))] = q
    BY <1>1
  <2> HIDE DEF q
  <2>5. PathOf(path', call')
    BY <1>1, <1>2, <2>1, <2>2, <2>3, PathAppend DEF PathInv
  <2> QED
    BY <1>2, <2>2, <2>4, <2>5 DEF PathInv
<1>3. CASE EncodeBit /\ UNCHANGED decVars
  BY <1>1, <1>2, <1>3 DEF EncodeBit, Linked, PathInv
<1>4. CASE WriteByte /\ UNCHANGED decVars
  <2>1. Len(output') = Len(output) + 1
    BY <1>4 DEF WriteByte, Typed, TypeOK
  <2> QED
    BY <1>1, <1>2, <1>4, <2>1 DEF WriteByte, Linked, PathInv
<1>5. CASE WriteFinal /\ UNCHANGED decVars
  <2>1. Len(output') = Len(output) + Len(FinalBytes(enc))
    BY <1>5, FinalBytesType DEF WriteFinal, Typed, TypeOK
  <2> QED
    BY <1>5, <2>1 DEF WriteFinal, PathInv
<1>6. CASE UNCHANGED encVars
  BY <1>6 DEF encVars, PathInv
<1> QED
  BY <1>3, <1>4, <1>5, <1>6
     DEF Next, Encode, DecodeStart, DecodeBit, UseByte, DecodeFinal, vars

----------------------------------------------------------------------------
(* The cells: a step of the encoder only shrinks the set of continuations   *)
(* that make a number of its interval.                                      *)
LEMMA CellsStep ==
  ASSUME Typed, Typed', PathInv, Cells, [Next]_vars
  PROVE  Cells'
<1>1. /\ path \in Seq(Visited) /\ Len(path) \in Nat /\ Len(output) \in Nat
      /\ output \in Seq(Byte) /\ enc \in Coder /\ enc.x1 <= enc.x2
  BY DEF Typed, TypeOK, IntervalsNonEmpty, Visited
<1>2. ASSUME NEW s, Extended(s), ~returned, InCell(s, Here)
      PROVE  \A j \in 1..Len(path) : InCell(s, path[j])
  BY <1>2 DEF Cells
<1>3. ASSUME NEW s, NEW p, path' = Append(path, p), InCell(s, p),
             \A j \in 1..Len(path) : InCell(s, path[j])
      PROVE  \A j \in 1..Len(path') : InCell(s, path'[j])
  <2>1. /\ Len(path') = Len(path) + 1
        /\ path'[Len(path) + 1] = p
        /\ \A j \in 1..Len(path) : path'[j] = path[j]
    BY <1>1, <1>3
  <2> QED
    BY <1>1, <1>3, <2>1
<1>4. CASE EncodeBit /\ UNCHANGED decVars
  <2> SUFFICES ASSUME NEW s, Extended(s)', InCell(s, Here')
               PROVE  \A j \in 1..Len(path') : InCell(s, path'[j])
    BY <1>4 DEF EncodeBit, Cells, InCell
  <2>1. /\ ~returned /\ output' = output /\ path' = Append(path, Here')
    BY <1>4 DEF EncodeBit, Recorded, Here
  <2>2. Extended(s)
    BY <2>1 DEF Extended
  <2>3. call.value[enc.i + 1] \in {0, 1} /\ call.datumBit \in 1..64
    <3>1. enc.i \in Nat /\ enc.i < call.datumBit
      BY <1>1, <1>4 DEF EncodeBit, Coder
    <3> QED
      BY <3>1, NextBit, CallType
  <2>4. enc.x1 <= enc'.x1 /\ enc'.x2 <= enc.x2 /\ enc' \in Coder
    BY <1>1, <1>4, <2>3, NarrowInside DEF EncodeBit
  <2>5. WindowOf(s, Len(output)) \in Word
    BY <1>1, <2>2, WindowShift DEF Extended
  <2>6. InCell(s, Here)
    BY <1>1, <2>1, <2>4, <2>5 DEF InCell, Here, Coder, Word
  <2> QED
    BY <1>2, <1>3, <2>1, <2>2, <2>6
<1>5. CASE WriteByte /\ UNCHANGED decVars
  <2> SUFFICES ASSUME NEW s, Extended(s)', InCell(s, Here')
               PROVE  \A j \in 1..Len(path') : InCell(s, path'[j])
    BY <1>5 DEF WriteByte, Cells, InCell
  <2>1. /\ ~returned /\ path' = Append(path, Here') /\ enc' = Renorm(enc)
        /\ output' = Append(output, TopByte(enc.x1)) /\ SameTopByte(enc)
    BY <1>5 DEF WriteByte, Recorded, Here
  <2>2. /\ Len(output') = Len(output) + 1
        /\ output'[Len(output) + 1] = TopByte(enc.x1)
        /\ \A k \in 1..Len(output) : output'[k] = output[k]
    BY <1>1, <2>1
  <2>3. Extended(s) /\ s[Len(output) + 1] = TopByte(enc.x1)
    BY <1>1, <2>2 DEF Extended
  <2>4. /\ Renorm(enc).x1 <= WindowOf(s, Len(output) + 1)
        /\ WindowOf(s, Len(output) + 1) <= Renorm(enc).x2
    BY <2>1, <2>2 DEF InCell, Here
  <2>5. InCell(s, Here)
    BY <1>1, <2>1, <2>3, <2>4, WindowBack DEF Extended, InCell, Here
  <2> QED
    BY <1>2, <1>3, <2>1, <2>3, <2>5
<1>6. CASE WriteFinal /\ UNCHANGED decVars
  <2> SUFFICES ASSUME NEW s, Extended(s)', Terminable
               PROVE  \A j \in 1..Len(path) : InCell(s, path[j])
    BY <1>6 DEF WriteFinal, Cells, Terminable, InCell
  <2>1. /\ ~returned /\ output' = output \o FinalBytes(enc)
        /\ FinalBytes(enc) \in Seq(Byte)
        /\ FirstSettled(enc) \in 1..4 /\ Len(FinalBytes(enc)) = FirstSettled(enc)
    BY <1>1, <1>6, FinalBytesType, FinalType DEF WriteFinal, Terminable
  <2>2. /\ Len(output') = Len(output) + FirstSettled(enc)
        /\ \A k \in 1..FirstSettled(enc) : output'[Len(output) + k] = FinalBytes(enc)[k]
        /\ \A k \in 1..Len(output) : output'[k] = output[k]
    BY <1>1, <2>1
  <2>3. Extended(s) /\ \A k \in 1..FirstSettled(enc) : s[Len(output) + k] = FinalBytes(enc)[k]
    <3>1. /\ \A k \in 1..Len(output) : s[k] = output[k]
          /\ \A k \in Nat : k > 0 => s[k] \in Byte
      BY <1>1, <2>1, <2>2 DEF Extended
    <3>2. \A k \in 1..FirstSettled(enc) : /\ Len(output) + k \in 1..Len(output')
                                          /\ output'[Len(output) + k] = FinalBytes(enc)[k]
      BY <1>1, <2>1, <2>2
    <3>3. \A k \in 1..Len(output') : s[k] = output'[k]
      BY DEF Extended
    <3>4. \A k \in 1..FirstSettled(enc) : s[Len(output) + k] = FinalBytes(enc)[k]
      BY <3>2, <3>3
    <3> QED
      BY <3>1, <3>4 DEF Extended
  <2>4. InCell(s, Here)
    BY <1>1, <2>3, FinalInside DEF Extended, InCell, Here, Terminable
  <2> QED
    BY <1>2, <2>1, <2>3, <2>4
<1>7. CASE UNCHANGED encVars
  BY <1>7 DEF encVars, Cells, Extended, InCell, Here, Terminable
<1> QED
  BY <1>4, <1>5, <1>6, <1>7
     DEF Next, Encode, DecodeStart, DecodeBit, UseByte, DecodeFinal, vars

----------------------------------------------------------------------------
(* Where the decoder is while it decodes a codeword that could be ended.    *)
LEMMA Decoding ==
  ASSUME Typed, PathInv, Cells, Follows, phase = "decoding", Terminable
  PROVE  \E j \in 1..Len(path) :
           /\ path[j] = [coder |-> dec, written |-> used]
           /\ dec.x1 <= x /\ x <= dec.x2 /\ x = Window(used)
           /\ used <= path[Len(path)].written
           /\ j < Len(path) => Linked(path[j], path[j + 1], call)
           /\ j = Len(path) => /\ dec = enc /\ ~SameTopByte(dec)
                               /\ dec.i = call.datumBit
                               /\ used + FinalLength(dec) = Len(output)
<1>1. PICK j \in 1..Len(path) : path[j] = [coder |-> dec, written |-> used]
  BY DEF Follows
<1>2. x = Window(used) /\ used \in Nat /\ returned
  BY DEF Follows, Typed, TypeOK
<1>3. x = WindowOf(Memory, used) /\ Extended(Memory)
  BY <1>2, MemoryStream
<1>4. InCell(Memory, path[j])
  BY <1>1, <1>2, <1>3 DEF Cells
<1>5. dec.x1 <= x /\ x <= dec.x2
  BY <1>1, <1>3, <1>4 DEF InCell
<1>6. path[j].written <= path[Len(path)].written
  BY <1>1 DEF PathInv, PathOf
<1>7. Len(path) \in Nat
  BY DEF Typed, TypeOK
<1>8. j < Len(path) => Linked(path[j], path[j + 1], call)
  BY <1>1, <1>7 DEF PathInv, PathOf
<1>9. ASSUME j = Len(path)
      PROVE  /\ dec = enc /\ ~SameTopByte(dec) /\ dec.i = call.datumBit
             /\ used + FinalLength(dec) = Len(output)
  <2>1. dec = enc /\ path[Len(path)].written = used
    BY <1>1, <1>9 DEF PathInv
  <2>2. Len(FinalBytes(enc)) = FinalLength(enc)
    BY FinalBytesType DEF Terminable, Typed, TypeOK
  <2> QED
    BY <1>2, <2>1, <2>2 DEF PathInv
<1> QED
  BY <1>1, <1>2, <1>5, <1>6, <1>8, <1>9

----------------------------------------------------------------------------
(* The decoder goes the encoder's way: its next step is the step by which    *)
(* the encoder left the same coder.                                          *)
LEMMA FollowsStep ==
  ASSUME Typed, Typed', PathInv, Cells, Follows, [Next]_vars
  PROVE  Follows'
<1>1. /\ Len(path) \in Nat /\ used \in Nat /\ dec \in Coder /\ dec.i \in Nat
      /\ bits \in Seq({0, 1}) /\ Len(bits) \in Nat
  BY DEF Typed, TypeOK, Coder
<1>2. ASSUME UNCHANGED <<encVars, tail>>
      PROVE  (\A n : Window(n)' = Window(n)) /\ (Terminable' <=> Terminable)
  BY <1>2 DEF encVars, Window, ByteAt, Terminable
<1>3. CASE Encode /\ UNCHANGED decVars
  <2>1. ~returned /\ phase = "idle"
    BY <1>3 DEF Encode, EncodeBit, WriteByte, WriteFinal, Follows, Typed, TypeOK
  <2> QED
    BY <1>3, <2>1 DEF Follows, decVars
<1>4. CASE DecodeStart
  <2>1. /\ returned /\ phase' = "decoding" /\ x' = Window(0)
        /\ dec = NewCoder /\ used = 0 /\ bits = << >>
        /\ UNCHANGED <<encVars, tail, dec, used, bits>>
    BY <1>4 DEF DecodeStart, Follows
  <2>2. 1 \in 1..Len(path) /\ path[1] = [coder |-> dec, written |-> used]
    BY <1>1, <2>1 DEF PathInv, PathOf
  <2>3. dec.i = 0 /\ Len(bits) = 0
    BY <2>1 DEF NewCoder
  <2>4. call.datumBit >= 0
    <3>1. \A d \in 1..64 : d >= 0
      OBVIOUS
    <3> QED
      BY <3>1, CallType
  <2> QED
    BY <1>2, <2>1, <2>2, <2>3, <2>4 DEF Follows, encVars
<1>5. CASE DecodeBit
  <2> DEFINE bit == IF x <= XMid(dec, call.datumBit, call.mode) THEN 1 ELSE 0
             real == call.value[dec.i + 1]
  <2>1. /\ phase = "decoding" /\ phase' = "decoding" /\ returned
        /\ ~SameTopByte(dec) /\ dec.i < call.datumBit
        /\ UNCHANGED <<encVars, tail, x, used, phase>>
    BY <1>5 DEF DecodeBit, Follows
  <2>2. dec' = Narrow(dec, bit, call.datumBit, call.mode) /\ bits' = Append(bits, bit)
    BY <1>5 DEF DecodeBit
  <2>3. CASE ~Terminable
    BY <1>2, <2>1, <2>3 DEF Follows, encVars
  <2>4. CASE Terminable
    <3>1. PICK j \in 1..Len(path) :
            /\ path[j] = [coder |-> dec, written |-> used]
            /\ dec.x1 <= x /\ x <= dec.x2 /\ x = Window(used)
            /\ j < Len(path) => Linked(path[j], path[j + 1], call)
            /\ j = Len(path) => dec.i = call.datumBit
      BY <2>1, <2>4, Decoding
    <3>2. j < Len(path)
      BY <1>1, <2>1, <3>1
    <3>3. path[j + 1] = [coder |-> Narrow(dec, real, call.datumBit, call.mode), written |-> used]
      BY <2>1, <3>1, <3>2 DEF Linked
    <3>4. real \in {0, 1} /\ call.datumBit \in Nat
      BY <1>1, <2>1, NextBit
    <3>5. path[j + 1] \in Visited /\ path[j + 1] = [coder |-> path[j + 1].coder, written |-> used]
      BY <1>1, <3>2, <3>3 DEF Typed, TypeOK, Visited
    <3>6. InCell(Memory, path[j + 1])
      <4>1. j + 1 \in 1..Len(path)
        BY <1>1, <3>2
      <4> QED
        BY <2>1, <2>4, <4>1, MemoryStream DEF Cells
    <3>7. x = WindowOf(Memory, used) /\ x \in Word
      BY <1>1, <3>1, MemoryStream
    <3>8. bit = real
      <4>1. /\ Narrow(dec, real, call.datumBit, call.mode).x1 <= x
            /\ x <= Narrow(dec, real, call.datumBit, call.mode).x2
        BY <3>3, <3>6, <3>7 DEF InCell
      <4>2. dec.x1 <= dec.x2 /\ call.datumBit \in 1..64
        BY CallType DEF Typed, IntervalsNonEmpty
      <4> HIDE DEF real
      <4> QED
        BY <1>1, <2>1, <3>4, <3>7, <4>1, <4>2, ChosenSide
    <3>9. dec' = Narrow(dec, real, call.datumBit, call.mode)
          /\ bits' = Append(bits, real) /\ dec'.i = dec.i + 1
      BY <2>2, <3>8 DEF Narrow, NarrowBy
    <3> HIDE DEF bit, real
    <3>10. /\ Len(bits') = dec'.i /\ dec'.i <= call.datumBit
           /\ \A k \in 1..dec'.i : bits'[k] = call.value[k]
      <4>1. Len(bits) = dec.i /\ \A k \in 1..dec.i : bits[k] = call.value[k]
        BY <2>1, <2>4 DEF Follows
      <4>2. /\ Len(bits') = dec.i + 1 /\ bits'[dec.i + 1] = real
            /\ \A k \in 1..dec.i : bits'[k] = bits[k]
        BY <1>1, <3>9, <4>1
      <4>3. real = call.value[dec.i + 1]
        BY DEF real
      <4> QED
        BY <1>1, <2>1, <3>4, <3>9, <4>1, <4>2, <4>3
    <3>11. j + 1 \in 1..Len(path) /\ path[j + 1] = [coder |-> dec', written |-> used]
      BY <1>1, <3>2, <3>3, <3>9 DEF real
    <3> QED
      BY <1>2, <2>1, <2>4, <3>1, <3>10, <3>11 DEF Follows, encVars
  <2> QED
    BY <2>3, <2>4
<1>6. CASE UseByte
  <2>1. /\ phase = "decoding" /\ phase' = "decoding" /\ returned
        /\ SameTopByte(dec) /\ dec' = Renorm(dec) /\ used' = used + 1
        /\ x' = ShiftIn(x, ByteAt(used + 5))
        /\ UNCHANGED <<encVars, tail, bits, phase>>
    BY <1>6 DEF UseByte, Follows
  <2>2. CASE ~Terminable
    BY <1>2, <2>1, <2>2 DEF Follows, encVars
  <2>3. CASE Terminable
    <3>1. PICK j \in 1..Len(path) :
            /\ path[j] = [coder |-> dec, written |-> used]
            /\ x = Window(used)
            /\ j < Len(path) => Linked(path[j], path[j + 1], call)
            /\ j = Len(path) => ~SameTopByte(dec)
      BY <2>1, <2>3, Decoding
    <3>2. j + 1 \in 1..Len(path)
      BY <1>1, <2>1, <3>1
    <3>3. path[j + 1] = [coder |-> dec', written |-> used']
      BY <1>1, <2>1, <3>1, <3>2 DEF Linked
    <3>4. x' = Window(used')
      BY <1>1, <2>1, <3>1, MemoryStream
    <3>5. dec'.i = dec.i
      BY <2>1 DEF Renorm, Typed, TypeOK, Coder
    <3> QED
      BY <1>2, <2>1, <2>3, <3>2, <3>3, <3>4, <3>5 DEF Follows, encVars
  <2> QED
    BY <2>2, <2>3
<1>7. CASE DecodeFinal
  <2>1. /\ phase = "decoding" /\ phase' = "decoded" /\ returned
        /\ ~SameTopByte(dec) /\ dec.i = call.datumBit
        /\ used' = used + FinalLength(dec)
        /\ UNCHANGED <<encVars, tail, dec, x, bits>>
    BY <1>7 DEF DecodeFinal, Follows
  <2>2. CASE ~Terminable
    BY <1>2, <2>1, <2>2 DEF Follows, encVars
  <2>3. CASE Terminable
    <3>1. PICK j \in 1..Len(path) :
            /\ path[j] = [coder |-> dec, written |-> used]
            /\ j < Len(path) => Linked(path[j], path[j + 1], call)
            /\ j = Len(path) => used + FinalLength(dec) = Len(output)
      BY <2>1, <2>3, Decoding
    <3>2. j = Len(path)
      BY <1>1, <2>1, <3>1 DEF Linked
    <3>3. bits = call.value
      <4>1. /\ Len(bits) = call.datumBit
            /\ \A k \in 1..call.datumBit : bits[k] = call.value[k]
        BY <2>1, <2>3 DEF Follows
      <4>2. call.value \in [1..call.datumBit -> {0, 1}] /\ call.datumBit \in Nat
        BY <1>1, <2>1, CallType
      <4>3. bits \in [1..Len(bits) -> {0, 1}]
        BY <1>1
      <4> QED
        BY <4>1, <4>2, <4>3
    <3> QED
      BY <1>2, <2>1, <2>3, <3>1, <3>2, <3>3 DEF Follows, encVars
  <2> QED
    BY <2>2, <2>3
<1>8. CASE UNCHANGED vars
  BY <1>2, <1>8 DEF vars, decVars, encVars, Follows
<1> QED
  BY <1>3, <1>4, <1>5, <1>6, <1>7, <1>8 DEF Next

----------------------------------------------------------------------------
(* The bytes under comparison stay in the interval: a bit takes the half they are in, *)
(* and they share the byte that is shifted out.                                       *)
LEMMA WindowStep ==
  ASSUME Typed, Follows, WindowInside, [Next]_vars
  PROVE  WindowInside'
<1> SUFFICES ASSUME phase' = "decoding"
             PROVE  dec'.x1 <= x' /\ x' <= dec'.x2
  BY DEF WindowInside
<1>1. dec \in Coder /\ dec.x1 <= dec.x2 /\ x \in Word /\ used \in Nat
  BY DEF Typed, TypeOK, IntervalsNonEmpty
<1>2. CASE Encode /\ UNCHANGED decVars
  BY <1>2 DEF decVars, WindowInside
<1>3. CASE DecodeStart
  <2>1. dec' = NewCoder /\ x' = Window(0)
    BY <1>3 DEF DecodeStart, Follows
  <2>2. Window(0) \in Word
    BY MemoryStream
  <2> QED
    BY <2>1, <2>2, Sizes DEF NewCoder, Word
<1>4. CASE DecodeBit
  <2> DEFINE xMid == XMid(dec, call.datumBit, call.mode)
             bit  == IF x <= xMid THEN 1 ELSE 0
  <2>1. /\ dec' = Narrow(dec, bit, call.datumBit, call.mode) /\ x' = x
        /\ ~SameTopByte(dec) /\ phase = "decoding"
    BY <1>4 DEF DecodeBit
  <2>2. bit \in {0, 1} /\ (bit = 1 <=> x <= xMid)
    OBVIOUS
  <2> HIDE DEF bit
  <2>3. /\ xMid \in dec.x1..(dec.x2 - 1)
        /\ bit = 1 => dec'.x1 = dec.x1 /\ dec'.x2 = xMid
        /\ bit = 0 => dec'.x1 = xMid + 1 /\ dec'.x2 = dec.x2
    <3>1. call.datumBit \in 1..64
      BY CallType
    <3> QED
      BY <1>1, <2>1, <2>2, <3>1, NarrowInside DEF xMid
  <2>4. dec.x1 <= x /\ x <= dec.x2
    BY <2>1 DEF WindowInside
  <2>5. dec.x1 \in Int /\ dec.x2 \in Int /\ x \in Int
    BY <1>1, Sizes DEF Coder, Word
  <2> HIDE DEF xMid
  <2>6. xMid \in Int
    BY <2>3, <2>5
  <2> QED
    BY <2>1, <2>2, <2>3, <2>4, <2>5, <2>6
<1>5. CASE UseByte
  <2>1. /\ dec' = Renorm(dec) /\ x' = ShiftIn(x, ByteAt(used + 5))
        /\ SameTopByte(dec) /\ phase = "decoding"
    BY <1>5 DEF UseByte
  <2>2. ByteAt(used + 5) \in Byte
    <3>1. used + 5 \in Nat \ {0}
      BY <1>1
    <3> QED
      BY <3>1, MemoryType
  <2>3. dec.x1 <= x /\ x <= dec.x2
    BY <2>1 DEF WindowInside
  <2> QED
    BY <1>1, <2>1, <2>2, <2>3, ShiftInside
<1>6. CASE DecodeFinal
  BY <1>6 DEF DecodeFinal
<1>7. CASE UNCHANGED vars
  BY <1>7 DEF vars, decVars, WindowInside
<1> QED
  BY <1>2, <1>3, <1>4, <1>5, <1>6, <1>7 DEF Next

----------------------------------------------------------------------------
(* Theorems *)

(* The inductive invariant holds in every state. *)
LEMMA Invariance == Spec => []IInv
<1>1. CodecInit => IInv
  BY InitInv
<1>2. IInv /\ [Next]_vars => IInv'
  BY TypedStep, PathStep, CellsStep, FollowsStep, WindowStep DEF IInv
<1> QED
  BY <1>1, <1>2, PTL DEF Spec

(* Every register stays within its 32 bits, every Ratio within its 22, and the bits   *)
(* and bytes produced are bits and bytes.                                             *)
THEOREM TypeCorrect == Spec => []TypeOK
<1>1. IInv => TypeOK
  BY DEF IInv, Typed
<1> QED
  BY <1>1, Invariance, PTL

(* No bit of a value is ever given an empty share of the interval, whatever the       *)
(* probabilities of ratioList: x1 never passes x2 in AthEncoding or AthDecoding.      *)
THEOREM IntervalsStayNonEmpty == Spec => []IntervalsNonEmpty
<1>1. IInv => IntervalsNonEmpty
  BY DEF IInv, Typed
<1> QED
  BY <1>1, Invariance, PTL

(* The mask 0x3fffff of Ratio::update never changes the number it is applied to.      *)
THEOREM MaskIsIdle == Spec => []RatioNeedsNoMask
<1>1. IInv => RatioNeedsNoMask
  <2> SUFFICES ASSUME IInv, enc.i < call.datumBit
               PROVE  LET pr  == Predictor(enc, call.datumBit, call.mode)
                          new == UpdatedRatio(pr, call.value[enc.i + 1])
                      IN  0 <= new /\ new < MaxRatio
    BY DEF RatioNeedsNoMask
  <2> DEFINE pr  == Predictor(enc, call.datumBit, call.mode)
             bit == call.value[enc.i + 1]
  <2>1. Typed /\ enc \in Coder /\ enc.i \in Nat
    BY DEF IInv, Typed, TypeOK, Coder
  <2>2. pr \in Ratio
    BY <2>1, CallType, PredictorType
  <2>3. bit \in {0, 1}
    BY <2>1, NextBit
  <2> HIDE DEF pr, bit
  <2>4. UpdatedRatio(pr, bit) \in 0..(MaxRatio - 1)
    BY <2>2, <2>3, UpdateInRange
  <2> QED
    BY <2>4, Sizes DEF pr, bit
<1> QED
  BY <1>1, Invariance, PTL

(* AthDecoding retraces AthEncoding: it is always in an interval the encoder was in,  *)
(* has used what the encoder had written by then, and has decoded the bits it had.    *)
THEOREM DecoderRetraces == Spec => []Retraces
<1>1. IInv => Retraces
  <2> SUFFICES ASSUME IInv, phase = "decoding", Terminable
               PROVE  /\ \E j \in DOMAIN path : path[j] = [coder |-> dec, written |-> used]
                      /\ bits = SubSeq(call.value, 1, dec.i)
    BY DEF Retraces
  <2>1. /\ \E j \in 1..Len(path) : path[j] = [coder |-> dec, written |-> used]
        /\ Len(bits) = dec.i /\ dec.i <= call.datumBit
        /\ \A k \in 1..dec.i : bits[k] = call.value[k]
    BY DEF IInv, Follows
  <2>2. path \in Seq(Visited) /\ bits \in Seq({0, 1}) /\ dec.i \in Nat
    BY DEF IInv, Typed, TypeOK, Visited, Coder
  <2>3. SubSeq(call.value, 1, dec.i) = [k \in 1..dec.i |-> call.value[k]]
    BY <2>2
  <2>4. bits = [k \in 1..dec.i |-> call.value[k]]
    <3>1. bits \in [1..Len(bits) -> {0, 1}]
      BY <2>2
    <3> QED
      BY <2>1, <2>2, <3>1
  <2> QED
    BY <2>1, <2>2, <2>3, <2>4
<1> QED
  BY <1>1, Invariance, PTL

(* The bytes AthDecoding compares lie in its interval, whatever follows the codeword, *)
(* and even when AthEncoding wrote no final bytes.                                    *)
THEOREM WindowStaysInside == Spec => []WindowInside
<1>1. IInv => WindowInside
  BY DEF IInv
<1> QED
  BY <1>1, Invariance, PTL

(* The only interval AthEncoding writes no final bytes for is that of two points, one *)
(* on each side of a boundary between two top bytes.                                  *)
THEOREM EndsAllButTwoPoints == Spec => []EndsUnlessTwoPoints
<1>1. IInv => EndsUnlessTwoPoints
  <2> SUFFICES ASSUME IInv, returned, ~Terminable
               PROVE  enc.x2 = enc.x1 + 1 /\ TopByte(enc.x1) # TopByte(enc.x2)
    BY DEF EndsUnlessTwoPoints
  <2>1. enc \in Coder /\ enc.x1 <= enc.x2 /\ ~SameTopByte(enc)
    BY DEF IInv, Typed, TypeOK, IntervalsNonEmpty, PathInv
  <2>2. enc.x2 - enc.x1 <= 1
    BY <2>1, UnsettledIsSmall DEF Terminable
  <2>3. enc.x1 \in Nat /\ enc.x2 \in Nat
    BY <2>1, Sizes DEF Coder, Word
  <2>4. TopByte(enc.x1) # TopByte(enc.x2)
    BY <2>1 DEF SameTopByte
  <2>5. enc.x1 # enc.x2
    BY <2>4
  <2> QED
    BY <2>1, <2>2, <2>3, <2>4, <2>5
<1> QED
  BY <1>1, Invariance, PTL

(* AthDecoding reads at most three bytes behind the codeword it is given.             *)
THEOREM ReadAheadIsBounded == Spec => []ReadAhead
<1>1. IInv => ReadAhead
  <2> SUFFICES ASSUME IInv, phase = "decoding", Terminable
               PROVE  used + 4 <= Len(output) + 3
    BY DEF ReadAhead
  <2> DEFINE written == path[Len(path)].written
             final   == Len(FinalBytes(enc))
             length  == Len(output)
  <2>1. used <= path[Len(path)].written
    BY Decoding DEF IInv
  <2>2. path[Len(path)].written + Len(FinalBytes(enc)) = Len(output)
    BY DEF IInv, Follows, PathInv
  <2>3. /\ path \in Seq(Visited) /\ Len(path) \in 1..Len(path)
        /\ enc \in Coder /\ used \in Nat /\ Len(output) \in Nat
    BY DEF IInv, PathInv, PathOf, Typed, TypeOK, Visited
  <2>4. written \in Nat
    <3>1. path[Len(path)] \in Visited
      BY <2>3
    <3> QED
      BY <3>1 DEF Visited
  <2>5. final \in 1..4
    BY <2>3, FinalBytesType DEF Terminable
  <2>6. used <= written /\ written + final = length /\ length \in Nat /\ used \in Nat
    BY <2>1, <2>2, <2>3
  <2> HIDE DEF written, final
  <2> QED
    BY <2>4, <2>5, <2>6
<1> QED
  BY <1>1, Invariance, PTL

(* Every value whose codeword AthEncoding could end is decoded to itself, and the     *)
(* caller's pointer moves on by exactly its codeword, whatever follows it.            *)
THEOREM DecodesTheValue == Spec => []RoundTripIfTerminable
<1>1. IInv => RoundTripIfTerminable
  BY DEF IInv, Follows, RoundTripIfTerminable, RoundTrip
<1> QED
  BY <1>1, Invariance, PTL

----------------------------------------------------------------------------
(* The refinement of AthChannel *)

(* As many bits have come out as the decoder has narrowed its interval.  Follows says *)
(* so of the codewords that could be ended; here it is for all of them.               *)
BitsCounted == Len(bits) = dec.i /\ dec.i <= call.datumBit

LEMMA BitsCountedInv == Spec => []BitsCounted
<1>1. CodecInit => BitsCounted
  <2> SUFFICES ASSUME CodecInit PROVE BitsCounted
    OBVIOUS
  <2>1. call.datumBit \in 1..64
    BY InitInv, CallType DEF IInv
  <2>2. dec.i = 0 /\ bits = << >>
    BY DEF CodecInit, NewCoder
  <2>3. Len(bits) = 0
    BY <2>2
  <2>4. \A d \in 1..64 : 0 <= d
    OBVIOUS
  <2> QED
    BY <2>1, <2>2, <2>3, <2>4 DEF BitsCounted
<1>2. IInv /\ BitsCounted /\ [Next]_vars => BitsCounted'
  <2> SUFFICES ASSUME IInv, BitsCounted, [Next]_vars PROVE BitsCounted'
    OBVIOUS
  <2>0. /\ dec \in Coder /\ dec.i \in Nat /\ bits \in Seq({0, 1})
        /\ call.datumBit \in Nat
    <3>1. Typed
      BY DEF IInv
    <3>2. call.datumBit \in 1..64
      BY <3>1, CallType
    <3>3. dec \in Coder /\ bits \in Seq({0, 1})
      BY <3>1 DEF Typed, TypeOK
    <3>4. dec.i \in Nat
      BY <3>3 DEF Coder
    <3>5. call.datumBit \in Nat
      BY <3>2
    <3> QED
      BY <3>3, <3>4, <3>5
  <2>1. CASE Encode /\ UNCHANGED decVars
    BY <2>1 DEF Encode, EncodeBit, WriteByte, WriteFinal, decVars, BitsCounted
  <2>2. CASE DecodeStart
    BY <2>2 DEF DecodeStart, encVars, BitsCounted
  <2>3. CASE DecodeBit
    <3>1. PICK bit \in {0, 1} : /\ dec' = Narrow(dec, bit, call.datumBit, call.mode)
                                /\ bits' = Append(bits, bit)
      BY <2>3 DEF DecodeBit
    <3>2. dec'.i = dec.i + 1 /\ Len(bits') = Len(bits) + 1
      BY <3>1, <2>0 DEF Narrow, NarrowBy
    <3> QED
      BY <3>2, <2>3, <2>0 DEF DecodeBit, encVars, BitsCounted
  <2>4. CASE UseByte
    <3>1. dec'.i = dec.i
      BY <2>4, <2>0 DEF UseByte, Renorm, Coder
    <3> QED
      BY <3>1, <2>4 DEF UseByte, encVars, BitsCounted
  <2>5. CASE DecodeFinal
    BY <2>5 DEF DecodeFinal, encVars, BitsCounted
  <2>6. CASE UNCHANGED vars
    BY <2>6 DEF vars, encVars, decVars, BitsCounted
  <2> QED
    BY <2>1, <2>2, <2>3, <2>4, <2>5, <2>6 DEF Next
<1> QED
  BY <1>1, <1>2, Invariance, PTL DEF Spec

LEMMA ChannelInit == CodecInit => Channel!Init
  BY DEF CodecInit, Init, Channel!Init

LEMMA ChannelStep ==
  ASSUME IInv, IInv', BitsCounted, [Next]_vars
  PROVE  [Channel!Next]_(Channel!vars)
<1>0. /\ Typed /\ dec.i \in Nat /\ bits \in Seq({0, 1})
      /\ call.datumBit \in Nat /\ Len(call.value) = call.datumBit
  <2>1. Typed
    BY DEF IInv
  <2>2. call.datumBit \in 1..64 /\ call.value \in [1..call.datumBit -> {0, 1}]
    BY <2>1, CallType
  <2>3. \A d \in 1..64 : d \in Nat /\ \A v \in [1..d -> {0, 1}] : Len(v) = d
    OBVIOUS
  <2>4. dec \in Coder /\ bits \in Seq({0, 1})
    BY <2>1 DEF Typed, TypeOK
  <2>5. dec.i \in Nat
    BY <2>4 DEF Coder
  <2> QED
    BY <2>1, <2>2, <2>3, <2>4, <2>5
<1>1. CASE Encode /\ UNCHANGED decVars
  <2>1. ~returned /\ phase = "idle" /\ UNCHANGED <<call, bits, phase>>
    BY <1>1 DEF Encode, EncodeBit, WriteByte, WriteFinal, decVars, IInv, Follows
  <2>2. CASE EncodeBit \/ WriteByte
    <3>1. UNCHANGED returned
      BY <2>2 DEF EncodeBit, WriteByte
    <3> QED
      BY <2>1, <3>1 DEF Channel!vars
  <2>3. CASE WriteFinal
    <3>1. returned'
      BY <2>3 DEF WriteFinal
    <3>2. Channel!Send
      BY <2>1, <3>1 DEF Channel!Send
    <3> QED
      BY <3>2 DEF Channel!Next
  <2> QED
    BY <2>2, <2>3, <1>1 DEF Encode
<1>2. CASE DecodeStart \/ UseByte
  <2>1. /\ UNCHANGED <<call, bits, returned, enc>>
        /\ phase # "decoded" /\ phase' # "decoded"
    BY <1>2 DEF DecodeStart, UseByte, encVars
  <2>2. Terminable' <=> Terminable
    BY <2>1 DEF Terminable
  <2> QED
    BY <2>1, <2>2 DEF Channel!vars
<1>3. CASE DecodeBit
  <2>1. /\ phase = "decoding" /\ returned /\ UNCHANGED <<call, returned, enc, phase>>
        /\ dec.i < call.datumBit
        /\ \E bit \in {0, 1} : bits' = Append(bits, bit)
    BY <1>3 DEF DecodeBit, encVars, IInv, Follows
  <2>2. PICK bit \in {0, 1} : bits' = Append(bits, bit)
    BY <2>1
  <2>3. Terminable' <=> Terminable
    BY <2>1 DEF Terminable
  <2>4. Len(bits) < Len(call.value)
    BY <1>0, <2>1 DEF BitsCounted
  <2>5. bits'[Len(bits) + 1] = bit /\ Len(bits') = Len(bits) + 1
    BY <2>2, <1>0
  <2>6. ASSUME Terminable PROVE bit = call.value[Len(bits) + 1]
    <3>1. /\ Len(bits') = dec'.i
          /\ \A k \in 1..dec'.i : bits'[k] = call.value[k]
      BY <2>1, <2>3, <2>6 DEF IInv, Follows
    <3> QED
      BY <3>1, <2>5, <1>0
  <2>7. Channel!Bit
    BY <2>1, <2>2, <2>3, <2>4, <2>6 DEF Channel!Bit
  <2> QED
    BY <2>7 DEF Channel!Next
<1>4. CASE DecodeFinal
  <2>1. /\ phase = "decoding" /\ returned /\ phase' = "decoded"
        /\ UNCHANGED <<call, bits>> /\ dec.i = call.datumBit
    BY <1>4 DEF DecodeFinal, encVars, IInv, Follows
  <2>2. Channel!Return
    BY <2>1, <1>0 DEF Channel!Return, BitsCounted
  <2> QED
    BY <2>2 DEF Channel!Next
<1>5. CASE UNCHANGED vars
  BY <1>5 DEF vars, encVars, decVars, Terminable, Channel!vars
<1> QED
  BY <1>1, <1>2, <1>3, <1>4, <1>5 DEF Next

(* Encoder and decoder implement AthChannel, but for its fairness: every step of      *)
(* theirs is one of the channel, or none.  A value whose codeword could be ended comes *)
(* out bit by bit as it went in; no call returns before all its bits have come out.    *)
THEOREM CodecIsChannel == Spec => Channel!Safety
<1>1. IInv /\ IInv' /\ BitsCounted /\ [Next]_vars => [Channel!Next]_(Channel!vars)
  BY ChannelStep
<1> QED
  BY <1>1, ChannelInit, Invariance, BitsCountedInv, PTL DEF Spec, Channel!Safety

----------------------------------------------------------------------------
(* The two models of the coder agree, for every width, value, mode and      *)
(* table of probabilities, and whatever lies in memory: the whole calls of  *)
(* AthCalls return what the loops of AthCodec produce step by step.         *)
(*                                                                          *)
(* The argument.  The recursive functions of AthCalls go through a sequence *)
(* of states, one after each bit (Traces).  Between two bits the machine is *)
(* on its way to the next of them: what it has still to write, or to read,  *)
(* leads there (Written).  The decoder goes through the states of an        *)
(* encoder that is given the bits which the decoder decides on.             *)

\* The registers of the encoder, as the recursive functions have them.
Encoding == [coder |-> enc, output |-> output]

EncoderInv ==
  \E E \in Traces(call.value, enc.i, call.datumBit, call.mode) :
    IF ~returned THEN Written(Encoding) = E[enc.i]
    ELSE /\ enc.i = call.datumBit
         /\ E[enc.i].coder = enc
         /\ output = E[enc.i].output \o FinalBytes(enc)

\* A decoder of the stream s with the coder c, after u bytes and the bits b, is on its way
\* to the state of an encoder of these bits that had written as many bytes.
Underway(c, u, b, y, s, d, mode) ==
  /\ y = WindowOf(s, u)
  /\ \E E \in Traces(b, c.i, d, mode) :
       /\ Deciding(E, b, c.i, s, d, mode)
       /\ \E o \in Seq(Byte) : Len(o) = u /\ Written([coder |-> c, output |-> o]) = E[c.i]

Finished(u, b, s, d, mode) ==
  \E E \in Traces(b, d, d, mode) :
    /\ Deciding(E, b, d, s, d, mode)
    /\ u = Place(E[d]) + FinalLength(E[d].coder)

DecoderInv ==
  /\ phase = "decoding" => Underway(dec, used, bits, x, Memory, call.datumBit, call.mode)
  /\ phase = "decoded" => /\ dec.i = call.datumBit
                          /\ Finished(used, bits, Memory, call.datumBit, call.mode)

----------------------------------------------------------------------------
(* The beginning of every trace. *)
LEMMA TraceStarts ==
  ASSUME NEW bits_, NEW d, NEW mode
  PROVE  /\ \E E \in Traces(bits_, 0, d, mode) : E[0] = Start
         /\ Written(Start) = Start
<1> DEFINE E == [k \in 0..0 |-> Start]
<1>1. Start \in Ready
  BY StartReady
<1>2. E \in [0..0 -> Ready] /\ E[0] = Start /\ 1..0 = {}
  BY <1>1
<1> HIDE DEF E
<1>3. E \in Traces(bits_, 0, d, mode)
  BY <1>2 DEF Traces
<1>4. Sound(Start) /\ ~SameTopByte(Start.coder)
  BY <1>1 DEF Ready
<1> QED
  BY <1>2, <1>3, <1>4, WrittenOnward

(* The registers are those of a sound encoder. *)
LEMMA RegistersSound ==
  ASSUME Typed
  PROVE  /\ Sound(Encoding) /\ enc.i \in Nat /\ output \in Seq(Byte)
         /\ call.datumBit \in 1..64
<1>1. enc \in Coder /\ output \in Seq(Byte) /\ enc.x1 <= enc.x2
  BY DEF Typed, TypeOK, IntervalsNonEmpty
<1>2. call.datumBit \in 1..64
  BY <1>1, CallType
<1> QED
  BY <1>1, <1>2 DEF Sound, Encoders, Encoding, Coder

LEMMA AgreeInit == CodecInit => EncoderInv /\ DecoderInv
<1> SUFFICES ASSUME CodecInit PROVE EncoderInv /\ DecoderInv
  OBVIOUS
<1>1. enc = NewCoder /\ output = << >> /\ ~returned /\ phase = "idle"
  BY DEF CodecInit, Init
<1>2. Encoding = Start /\ enc.i = 0
  BY <1>1 DEF Encoding, Start, NewCoder
<1>3. EncoderInv
  BY <1>1, <1>2, TraceStarts DEF EncoderInv
<1>4. DecoderInv
  BY <1>1 DEF DecoderInv
<1> QED
  BY <1>3, <1>4

(* Each step of the encoder stays on its way, or takes the next bit. *)
LEMMA EncoderStep ==
  ASSUME IInv, EncoderInv, [Next]_vars
  PROVE  EncoderInv'
<1> DEFINE d == call.datumBit
           mode == call.mode
           value == call.value
           i == enc.i
<1>1. Typed
  BY DEF IInv
<1>2. Sound(Encoding) /\ enc.i \in Nat /\ call.datumBit \in 1..64
  BY <1>1, RegistersSound
<1>3. PICK E \in Traces(call.value, enc.i, call.datumBit, call.mode) :
        IF ~returned THEN Written(Encoding) = E[enc.i]
        ELSE /\ enc.i = call.datumBit
             /\ E[enc.i].coder = enc
             /\ output = E[enc.i].output \o FinalBytes(enc)
  BY DEF EncoderInv
<1>4. Encoding.coder = enc /\ Encoding.output = output
  BY DEF Encoding
<1>5. CASE EncodeBit /\ UNCHANGED decVars
  <2>1. ~returned /\ ~SameTopByte(enc) /\ enc.i < d /\ returned' = returned /\ call' = call /\ output' = output
        /\ enc' = Narrow(enc, value[i + 1], d, mode)
    BY <1>5 DEF EncodeBit
  <2>2. Encoding = E[i]
    BY <1>2, <1>3, <1>4, <2>1, WrittenOnward
  <2>3. value[i + 1] \in {0, 1}
    BY <1>1, <1>2, <2>1, NextBit
  <2>4. PICK F \in Traces(value, i + 1, d, mode) : F[i + 1] = Written(Coded1(E[i], value[i + 1], d, mode))
    <3>1. E \in Traces(value, i, d, mode) /\ i \in Nat /\ d \in 1..64 /\ value[i + 1] \in {0, 1}
      BY <1>2, <1>3, <2>3
    <3>2. \A k \in 1..i : value[k] = value[k]
      OBVIOUS
    <3> HIDE DEF d, mode, value, i
    <3>3. Grows(E, value, i, d, mode)
      BY <3>1, <3>2, TraceGrows
    <3> QED
      BY <3>3 DEF Grows
  <2>5. Coded1(E[i], value[i + 1], d, mode) = [coder |-> Narrow(enc, value[i + 1], d, mode), output |-> output]
    BY <2>2 DEF Coded1, Encoding
  <2>6. Encoding' = [coder |-> Narrow(enc, value[i + 1], d, mode), output |-> output]
    BY <2>1 DEF Encoding
  <2>7. enc'.i = i + 1
    BY <2>1 DEF Narrow, NarrowBy
  <2>8. Written(Encoding') = F[i + 1]
    BY <2>4, <2>5, <2>6
  <2>9. /\ F \in Traces(call'.value, enc'.i, call'.datumBit, call'.mode)
        /\ ~returned' /\ Written(Encoding') = F[enc'.i]
    BY <2>1, <2>4, <2>7, <2>8
  <2> QED
    BY <2>9 DEF EncoderInv
<1>6. CASE WriteByte /\ UNCHANGED decVars
  <2>1. ~returned /\ SameTopByte(enc) /\ returned' = returned /\ call' = call
        /\ output' = Append(output, TopByte(enc.x1)) /\ enc' = Renorm(enc)
    BY <1>6 DEF WriteByte
  <2>2. Encoding' = [coder |-> Renorm(enc), output |-> Append(output, TopByte(enc.x1))]
    BY <2>1 DEF Encoding
  <2>3. WriteOnce(Encoding) = Encoding'
    BY <1>4, <2>1, <2>2 DEF WriteOnce
  <2>4. Written(Encoding') = E[i]
    BY <1>2, <1>3, <2>1, <2>3, WrittenOnward
  <2>5. enc'.i = i
    <3>1. enc \in Coder
      BY <1>1 DEF Typed, TypeOK
    <3> QED
      BY <2>1, <3>1 DEF Renorm, Coder
  <2>6. /\ E \in Traces(call'.value, enc'.i, call'.datumBit, call'.mode)
        /\ ~returned' /\ Written(Encoding') = E[enc'.i]
    BY <1>3, <2>1, <2>4, <2>5
  <2> QED
    BY <2>6 DEF EncoderInv
<1>7. CASE WriteFinal /\ UNCHANGED decVars
  <2>1. ~returned /\ ~SameTopByte(enc) /\ enc.i = d /\ returned' /\ call' = call /\ enc' = enc
        /\ output' = output \o FinalBytes(enc)
    BY <1>7 DEF WriteFinal
  <2>2. Encoding = E[i]
    BY <1>2, <1>3, <1>4, <2>1, WrittenOnward
  <2>3. E[i].coder = enc /\ E[i].output = output
    BY <1>4, <2>2
  <2>4. /\ E \in Traces(call'.value, enc'.i, call'.datumBit, call'.mode)
        /\ returned' /\ enc'.i = call'.datumBit /\ E[enc'.i].coder = enc'
        /\ output' = E[enc'.i].output \o FinalBytes(enc')
    BY <1>3, <2>1, <2>3
  <2> QED
    BY <2>4 DEF EncoderInv
<1>8. CASE DecodeStart \/ DecodeBit \/ UseByte \/ DecodeFinal \/ UNCHANGED vars
  <2>1. call' = call /\ enc' = enc /\ output' = output /\ returned' = returned
    BY <1>8 DEF DecodeStart, DecodeBit, UseByte, DecodeFinal, vars, encVars
  <2> QED
    BY <1>3, <2>1 DEF EncoderInv, Encoding
<1> QED
  BY <1>5, <1>6, <1>7, <1>8 DEF Next, Encode

----------------------------------------------------------------------------
(* The decoder. *)

(* It begins as an encoder does. *)
LEMMA UnderwayStarts ==
  ASSUME NEW s, NEW d, NEW mode
  PROVE  Underway(NewCoder, 0, << >>, WindowOf(s, 0), s, d, mode)
<1>1. PICK E \in Traces(<< >>, 0, d, mode) : E[0] = Start
  BY TraceStarts
<1>2. Written(Start) = Start
  BY TraceStarts
<1>3. << >> \in Seq(Byte) /\ Len(<< >>) = 0
  OBVIOUS
<1>4. NewCoder.i = 0 /\ Start = [coder |-> NewCoder, output |-> << >>]
  BY DEF NewCoder, Start
<1>5. Deciding(E, << >>, 0, s, d, mode)
  <2>1. 1..0 = {}
    OBVIOUS
  <2> QED
    BY <2>1 DEF Deciding
<1>6. Written([coder |-> NewCoder, output |-> << >>]) = E[NewCoder.i]
  BY <1>1, <1>2, <1>4
<1>7. \E o \in Seq(Byte) : Len(o) = 0 /\ Written([coder |-> NewCoder, output |-> o]) = E[NewCoder.i]
  BY <1>3, <1>6
<1>8. E \in Traces(<< >>, NewCoder.i, d, mode) /\ Deciding(E, << >>, NewCoder.i, s, d, mode)
  BY <1>1, <1>4, <1>5
<1> QED
  BY <1>7, <1>8 DEF Underway

(* A bit that it decides on is the next bit of that encoder. *)
LEMMA UnderwayBit ==
  ASSUME NEW c \in Coder, c.x1 <= c.x2, ~SameTopByte(c), NEW u \in Nat, NEW d \in 1..64, NEW mode,
         NEW b \in Seq({0, 1}), Len(b) = c.i, NEW y, NEW s, Underway(c, u, b, y, s, d, mode),
         NEW bit, bit = IF y <= XMid(c, d, mode) THEN 1 ELSE 0
  PROVE  Underway(Narrow(c, bit, d, mode), u, Append(b, bit), y, s, d, mode)
<1> DEFINE n == c.i
           more == Append(b, bit)
           c1 == Narrow(c, bit, d, mode)
<1>1. y = WindowOf(s, u) /\ n \in Nat
  BY DEF Underway, Coder
<1>2. PICK E \in Traces(b, n, d, mode) :
        /\ Deciding(E, b, n, s, d, mode)
        /\ \E o \in Seq(Byte) : Len(o) = u /\ Written([coder |-> c, output |-> o]) = E[n]
  BY DEF Underway
<1>3. PICK o \in Seq(Byte) : Len(o) = u /\ Written([coder |-> c, output |-> o]) = E[n]
  BY <1>2
<1>4. E[n] = [coder |-> c, output |-> o]
  <2> DEFINE e == [coder |-> c, output |-> o]
  <2>1. Sound(e) /\ ~SameTopByte(e.coder)
    BY DEF Sound, Encoders
  <2> HIDE DEF e
  <2>2. Written(e) = e
    BY <2>1, WrittenOnward
  <2> QED
    BY <1>3, <2>2 DEF e
<1>5. bit \in {0, 1} /\ bit = Decided(E[n], s, d, mode)
  <2>1. Place(E[n]) = u /\ E[n].coder = c
    BY <1>3, <1>4 DEF Place
  <2> QED
    BY <1>1, <2>1 DEF Decided
<1>6. more \in Seq({0, 1}) /\ Len(more) = n + 1 /\ more[n + 1] = bit /\ \A k \in 1..n : more[k] = b[k]
  BY <1>5
<1>7. c1.i = n + 1
  BY DEF Narrow, NarrowBy
<1>8. Coded1(E[n], bit, d, mode) = [coder |-> c1, output |-> o]
  BY <1>4 DEF Coded1
<1> HIDE DEF n, more, c1
<1>9. Grows(E, more, n, d, mode)
  <2>1. \A k \in 1..n : more[k] = b[k]
    BY <1>6
  <2>2. more[n + 1] \in {0, 1}
    BY <1>5, <1>6
  <2> QED
    BY <1>1, <1>2, <2>1, <2>2, TraceGrows
<1>10. PICK F \in Traces(more, n + 1, d, mode) :
         /\ \A k \in 0..n : F[k] = E[k]
         /\ F[n + 1] = Written(Coded1(E[n], more[n + 1], d, mode))
  BY <1>9 DEF Grows
<1>11. Deciding(F, more, n + 1, s, d, mode)
  <2> SUFFICES ASSUME NEW k \in 1..(n + 1) PROVE more[k] = Decided(F[k - 1], s, d, mode)
    BY DEF Deciding
  <2>1. k - 1 \in 0..n /\ (k \in 1..n \/ k = n + 1)
    BY <1>1
  <2>2. F[k - 1] = E[k - 1]
    BY <1>10, <2>1
  <2>3. CASE k \in 1..n
    BY <1>2, <1>6, <2>2, <2>3 DEF Deciding
  <2>4. CASE k = n + 1
    <3>1. k - 1 = n
      BY <1>1, <2>4
    <3> QED
      BY <1>5, <1>6, <2>2, <2>4, <3>1
  <2> QED
    BY <2>1, <2>3, <2>4
<1>12. Written([coder |-> c1, output |-> o]) = F[n + 1]
  BY <1>6, <1>8, <1>10
<1>13. \E q \in Seq(Byte) : Len(q) = u /\ Written([coder |-> c1, output |-> q]) = F[c1.i]
  BY <1>3, <1>7, <1>12
<1>14. F \in Traces(more, c1.i, d, mode) /\ Deciding(F, more, c1.i, s, d, mode)
  BY <1>7, <1>10, <1>11
<1>15. Underway(c1, u, more, y, s, d, mode)
  BY <1>1, <1>13, <1>14 DEF Underway
<1> QED
  BY <1>15 DEF more, c1

(* A byte that it shifts in is one that encoder writes. *)
LEMMA UnderwayByte ==
  ASSUME NEW c \in Coder, c.x1 <= c.x2, SameTopByte(c), NEW u \in Nat, NEW d, NEW mode,
         NEW b, NEW y, NEW s, Underway(c, u, b, y, s, d, mode)
  PROVE  Underway(Renorm(c), u + 1, b, WindowOf(s, u + 1), s, d, mode)
<1>1. PICK E \in Traces(b, c.i, d, mode) :
        /\ Deciding(E, b, c.i, s, d, mode)
        /\ \E o \in Seq(Byte) : Len(o) = u /\ Written([coder |-> c, output |-> o]) = E[c.i]
  BY DEF Underway
<1>2. PICK o \in Seq(Byte) : Len(o) = u /\ Written([coder |-> c, output |-> o]) = E[c.i]
  BY <1>1
<1> DEFINE e == [coder |-> c, output |-> o]
           q == Append(o, TopByte(c.x1))
           c1 == Renorm(c)
<1>3. Sound(e)
  BY DEF Sound, Encoders
<1>4. WriteOnce(e) = [coder |-> c1, output |-> q]
  BY DEF WriteOnce
<1>5. TopByte(c.x1) \in Byte
  BY TopAndRest DEF Coder
<1>6. q \in Seq(Byte) /\ Len(q) = u + 1
  BY <1>2, <1>5
<1>7. c1.i = c.i
  BY DEF Renorm, Coder
<1>8. Written(WriteOnce(e)) = Written(e)
  <2> HIDE DEF e
  <2> QED
    BY <1>3, WrittenOnward
<1>9. Written([coder |-> c1, output |-> q]) = E[c1.i]
  BY <1>2, <1>4, <1>7, <1>8
<1> HIDE DEF e, q, c1
<1>10. \E p \in Seq(Byte) : Len(p) = u + 1 /\ Written([coder |-> c1, output |-> p]) = E[c1.i]
  BY <1>6, <1>9
<1>11. E \in Traces(b, c1.i, d, mode) /\ Deciding(E, b, c1.i, s, d, mode)
  BY <1>1, <1>7
<1>12. Underway(c1, u + 1, b, WindowOf(s, u + 1), s, d, mode)
  BY <1>10, <1>11 DEF Underway
<1> QED
  BY <1>12 DEF c1

(* At the end it stands where that encoder does. *)
LEMMA UnderwayEnds ==
  ASSUME NEW c \in Coder, c.x1 <= c.x2, ~SameTopByte(c), NEW u \in Nat, NEW d, c.i = d, NEW mode,
         NEW b, NEW y, NEW s, Underway(c, u, b, y, s, d, mode)
  PROVE  Finished(u + FinalLength(c), b, s, d, mode)
<1>1. PICK E \in Traces(b, d, d, mode) :
        /\ Deciding(E, b, d, s, d, mode)
        /\ \E o \in Seq(Byte) : Len(o) = u /\ Written([coder |-> c, output |-> o]) = E[d]
  BY DEF Underway
<1>2. PICK o \in Seq(Byte) : Len(o) = u /\ Written([coder |-> c, output |-> o]) = E[d]
  BY <1>1
<1> DEFINE e == [coder |-> c, output |-> o]
<1>3. Sound(e) /\ ~SameTopByte(e.coder) /\ e.coder = c /\ e.output = o
  BY DEF Sound, Encoders
<1> HIDE DEF e
<1>4. E[d] = e
  <2>1. Written(e) = e
    BY <1>3, WrittenOnward
  <2> QED
    BY <1>2, <2>1 DEF e
<1>5. u + FinalLength(c) = Place(E[d]) + FinalLength(E[d].coder)
  BY <1>2, <1>3, <1>4 DEF Place
<1> QED
  BY <1>1, <1>5 DEF Finished

(* Each step of the decoder stays on its way, takes the next bit, or is the last. *)
LEMMA DecoderStep ==
  ASSUME IInv, BitsCounted, DecoderInv, [Next]_vars
  PROVE  DecoderInv'
<1>1. Typed /\ Follows
  BY DEF IInv
<1>2. /\ dec \in Coder /\ dec.x1 <= dec.x2 /\ used \in Nat /\ bits \in Seq({0, 1})
      /\ Len(bits) = dec.i
  BY <1>1 DEF Typed, TypeOK, IntervalsNonEmpty, BitsCounted
<1>3. call.datumBit \in 1..64
  BY <1>1, CallType
<1>4. \A n \in Nat : /\ Window(n) = WindowOf(Memory, n)
                     /\ ShiftIn(Window(n), ByteAt(n + 5)) = Window(n + 1)
  BY <1>1, MemoryStream
<1>5. CASE Encode /\ UNCHANGED decVars
  <2>1. ~returned /\ phase' = phase
    BY <1>5 DEF Encode, EncodeBit, WriteByte, WriteFinal, decVars
  <2>2. phase' = "idle"
    BY <1>1, <2>1 DEF Follows
  <2> QED
    BY <2>2 DEF DecoderInv
<1>6. CASE DecodeStart \/ DecodeBit \/ UseByte \/ DecodeFinal \/ UNCHANGED vars
  <2>1. call' = call /\ output' = output /\ tail' = tail
    BY <1>6 DEF DecodeStart, DecodeBit, UseByte, DecodeFinal, vars, encVars, decVars
  <2>2. Memory' = Memory
    BY <2>1 DEF Memory, ByteAt
  <2>3. CASE DecodeStart
    <3>1. /\ dec' = NewCoder /\ used' = 0 /\ bits' = << >> /\ x' = WindowOf(Memory, 0)
          /\ phase' = "decoding"
      BY <1>1, <1>4, <2>3 DEF DecodeStart, Follows
    <3>2. Underway(dec', used', bits', x', Memory', call'.datumBit, call'.mode)
      BY <2>1, <2>2, <3>1, UnderwayStarts
    <3> QED
      BY <3>1, <3>2 DEF DecoderInv
  <2>4. CASE DecodeBit
    <3> DEFINE d == call.datumBit
               mode == call.mode
               bit == IF x <= XMid(dec, d, mode) THEN 1 ELSE 0
    <3>1. /\ phase = "decoding" /\ phase' = phase /\ ~SameTopByte(dec)
          /\ dec' = Narrow(dec, bit, d, mode) /\ bits' = Append(bits, bit)
          /\ used' = used /\ x' = x
      BY <2>4 DEF DecodeBit
    <3>2. Underway(dec, used, bits, x, Memory, d, mode)
      BY <3>1 DEF DecoderInv
    <3>3. d \in 1..64
      BY <1>3
    <3>4. bit = IF x <= XMid(dec, d, mode) THEN 1 ELSE 0
      OBVIOUS
    <3> HIDE DEF d, mode, bit
    <3>5. Underway(Narrow(dec, bit, d, mode), used, Append(bits, bit), x, Memory, d, mode)
      BY <1>2, <3>1, <3>2, <3>3, <3>4, UnderwayBit
    <3>6. Underway(dec', used', bits', x', Memory', call'.datumBit, call'.mode)
      BY <2>1, <2>2, <3>1, <3>5 DEF d, mode
    <3> QED
      BY <3>1, <3>6 DEF DecoderInv
  <2>5. CASE UseByte
    <3> DEFINE d == call.datumBit
               mode == call.mode
    <3>1. /\ phase = "decoding" /\ phase' = phase /\ SameTopByte(dec)
          /\ dec' = Renorm(dec) /\ bits' = bits
          /\ used' = used + 1 /\ x' = ShiftIn(x, ByteAt(used + 5))
      BY <2>5 DEF UseByte
    <3>2. Underway(dec, used, bits, x, Memory, d, mode)
      BY <3>1 DEF DecoderInv
    <3>3. x' = WindowOf(Memory, used + 1)
      <4>1. x = Window(used)
        BY <1>2, <1>4, <3>2 DEF Underway
      <4>2. used + 1 \in Nat
        BY <1>2
      <4> QED
        BY <1>2, <1>4, <3>1, <4>1, <4>2
    <3> HIDE DEF d, mode
    <3>4. Underway(Renorm(dec), used + 1, bits, WindowOf(Memory, used + 1), Memory, d, mode)
      BY <1>2, <3>1, <3>2, UnderwayByte
    <3>5. Underway(dec', used', bits', x', Memory', call'.datumBit, call'.mode)
      BY <2>1, <2>2, <3>1, <3>3, <3>4 DEF d, mode
    <3> QED
      BY <3>1, <3>5 DEF DecoderInv
  <2>6. CASE DecodeFinal
    <3> DEFINE d == call.datumBit
               mode == call.mode
    <3>1. /\ phase = "decoding" /\ phase' = "decoded" /\ ~SameTopByte(dec) /\ dec.i = d
          /\ dec' = dec /\ bits' = bits /\ used' = used + FinalLength(dec)
      BY <2>6 DEF DecodeFinal
    <3>2. Underway(dec, used, bits, x, Memory, d, mode)
      BY <3>1 DEF DecoderInv
    <3>3. d = call'.datumBit /\ mode = call'.mode
      BY <2>1
    <3> HIDE DEF d, mode
    <3>4. Finished(used + FinalLength(dec), bits, Memory, d, mode)
      BY <1>2, <3>1, <3>2, UnderwayEnds
    <3>5. dec'.i = call'.datumBit /\ Finished(used', bits', Memory', call'.datumBit, call'.mode)
      BY <2>2, <3>1, <3>3, <3>4
    <3> QED
      BY <3>1, <3>5 DEF DecoderInv
  <2>7. CASE UNCHANGED vars
    <3>1. dec' = dec /\ used' = used /\ bits' = bits /\ x' = x /\ phase' = phase
      BY <2>7 DEF vars, decVars
    <3> QED
      BY <2>1, <2>2, <3>1 DEF DecoderInv
  <2> QED
    BY <1>6, <2>3, <2>4, <2>5, <2>6, <2>7
<1> QED
  BY <1>5, <1>6 DEF Next

----------------------------------------------------------------------------
(* What the whole calls return. *)

LEMMA EncodingAgrees ==
  ASSUME IInv, EncoderInv, returned
  PROVE  AthEncoding(ValueOf(call.value), call.datumBit, call.mode) = output
<1> DEFINE value == call.value
           d == call.datumBit
           mode == call.mode
           v == ValueOf(value)
<1>1. d \in 1..64 /\ value \in [1..d -> {0, 1}]
  BY CallType DEF IInv
<1>2. PICK E \in Traces(value, d, d, mode) : E[d].coder = enc /\ output = E[d].output \o FinalBytes(enc)
  BY DEF EncoderInv
<1> HIDE DEF value, d, mode
<1>3. d \in Nat
  BY <1>1
<1>4. v \in Nat /\ BitsOf(v, d) = value
  BY <1>1, <1>3, BitsAreBack
<1> HIDE DEF v
<1>5. PICK F \in Paths(v, d, mode) : EncodedBits(v, d, mode) = F[d]
  BY <1>1, <1>4, EncoderPath
<1>6. F \in Traces(value, d, d, mode)
  BY <1>4 DEF Paths
<1>7. F = E
  BY <1>2, <1>3, <1>6, OneTrace
<1> QED
  BY <1>2, <1>5, <1>7 DEF AthEncoding, v, value, d, mode

LEMMA DecodingAgrees ==
  ASSUME IInv, BitsCounted, DecoderInv, phase = "decoded"
  PROVE  AthDecoding([k \in 1..(used + 4) |-> ByteAt(k)], call.datumBit, call.mode)
           = [value |-> ValueOf(bits), usedLength |-> used]
<1> DEFINE d == call.datumBit
           mode == call.mode
           memory == [k \in 1..(used + 4) |-> ByteAt(k)]
<1>1. Typed /\ used \in Nat /\ bits \in Seq({0, 1})
  BY DEF IInv, Typed, TypeOK
<1>2. d \in 1..64 /\ d \in Nat
  <2>1. d \in 1..64
    BY <1>1, CallType
  <2> HIDE DEF d
  <2> QED
    BY <2>1
<1>3. Len(bits) = d
  BY DEF DecoderInv, BitsCounted
<1>4. bits \in [1..d -> {0, 1}]
  BY <1>1, <1>3
<1>5. Stream(Memory)
  BY <1>1, MemoryStream DEF Extended, Stream
<1>6. \A k \in 1..(used + 4) : memory[k] = Memory[k]
  BY <1>1 DEF Memory
<1>7. Finished(used, bits, Memory, d, mode)
  BY DEF DecoderInv
<1> HIDE DEF d, mode, memory
<1>8. PICK E \in Traces(bits, d, d, mode) :
        /\ Deciding(E, bits, d, Memory, d, mode)
        /\ used = Place(E[d]) + FinalLength(E[d].coder)
  BY <1>7 DEF Finished
<1>9. E[d] \in Ready
  <2>1. E \in [0..d -> Ready] /\ d \in 0..d
    BY <1>2 DEF Traces
  <2> QED
    BY <2>1
<1>10. Place(E[d]) \in Nat /\ FinalLength(E[d].coder) \in Nat
  <2>1. E[d].coder \in Coder /\ E[d].output \in Seq(Byte) /\ E[d].coder.x1 <= E[d].coder.x2
    BY <1>9 DEF Ready, Sound, Encoders
  <2> QED
    BY <2>1, FinalBytesType DEF Place
<1>11. Holds(memory, Memory, Place(E[d]) + 4)
  <2>1. \A a \in Nat : \A f \in Nat : \A k \in 1..(a + 4) : k \in 1..((a + f) + 4)
    OBVIOUS
  <2>2. \A k \in 1..(Place(E[d]) + 4) : k \in 1..(used + 4)
    BY <1>8, <1>10, <2>1
  <2> QED
    BY <1>6, <2>2 DEF Holds
<1>12. AthDecoding(memory, d, mode)
         = [value |-> ValueOf(bits), usedLength |-> Place(E[d]) + FinalLength(E[d].coder)]
  BY <1>2, <1>4, <1>5, <1>8, <1>11, DecodeTraces
<1> QED
  BY <1>8, <1>12 DEF d, mode, memory

(* AthEncoding and AthDecoding as whole calls are the loops that AthCodec takes step by  *)
(* step: the same codeword, and the same value and length out of the same memory, even   *)
(* where the codeword was not ended and the value is not the one encoded.                *)
THEOREM CallsAreTheLoops == Spec => []CallsAgree
<1>1. CodecInit => EncoderInv /\ DecoderInv
  BY AgreeInit
<1>2. IInv /\ BitsCounted /\ EncoderInv /\ DecoderInv /\ [Next]_vars => EncoderInv' /\ DecoderInv'
  BY EncoderStep, DecoderStep
<1>3. IInv /\ BitsCounted /\ EncoderInv /\ DecoderInv => CallsAgree
  <2> SUFFICES ASSUME IInv, BitsCounted, EncoderInv, DecoderInv, phase = "decoded"
               PROVE  LET memory == [k \in 1..(used + 4) |-> ByteAt(k)]
                      IN  /\ AthEncoding(ValueOf(call.value), call.datumBit, call.mode) = output
                          /\ AthDecoding(memory, call.datumBit, call.mode)
                               = [value |-> ValueOf(bits), usedLength |-> used]
    BY DEF CallsAgree
  <2>1. returned
    BY DEF IInv, Follows
  <2> QED
    BY <2>1, EncodingAgrees, DecodingAgrees
<1> QED
  BY <1>1, <1>2, <1>3, Invariance, BitsCountedInv, PTL DEF Spec
=============================================================================
