------------------------------ MODULE AthCodec ------------------------------
(***************************************************************************)
(* AthEncoding followed by AthDecoding (src/AthEncoding.h), the way main   *)
(* of src/IntegerConvertor.cpp runs them: the decoder is given a pointer   *)
(* to the codeword, not its length, and reads four bytes ahead of those it *)
(* has used, so what lies behind the codeword in memory is part of its     *)
(* input: the next codeword of the batch, or whatever follows the last.    *)
(***************************************************************************)
EXTENDS AthEncoder, AthCalls

CONSTANT Tails   \* what may lie behind the codeword: sequences, repeated for ever

ASSUME TailsAssumption == Tails \subseteq Seq(Byte) \ {<< >>}

VARIABLES
  tail,     \* what lies behind the codeword
  dec,      \* the decoder's x1, x2, pr and i
  x,        \* the four bytes of the codeword under comparison
  used,     \* usedLength
  bits,     \* DecodeOutput: the bits written so far
  phase     \* "idle", "decoding" or "decoded"

decVars == <<tail, dec, x, used, bits, phase>>
vars == <<encVars, decVars>>

----------------------------------------------------------------------------
\* output[k - 1] of the decoder's argument.
ByteAt(k) == IF k <= Len(output) THEN output[k]
             ELSE tail[((k - Len(output) - 1) % Len(tail)) + 1]

\* The four bytes of memory from output[n] on.
Window(n) == WindowOf([k \in (n + 1)..(n + 4) |-> ByteAt(k)], n)

CodecInit == /\ Init
             /\ tail \in Tails
             /\ dec = NewCoder
             /\ x = 0
             /\ used = 0
             /\ bits = << >>
             /\ phase = "idle"

DecodeStart ==
  /\ returned
  /\ phase = "idle"
  /\ x' = Window(0)
  /\ phase' = "decoding"
  /\ UNCHANGED <<encVars, tail, dec, used, bits>>

\* The body of the for loops: "bit = (x <= xmid)".
DecodeBit ==
  /\ phase = "decoding"
  /\ ~SameTopByte(dec)
  /\ dec.i < call.datumBit
  /\ LET bit == IF x <= XMid(dec, call.datumBit, call.mode) THEN 1 ELSE 0
     IN  /\ dec' = Narrow(dec, bit, call.datumBit, call.mode)
         /\ bits' = Append(bits, bit)
  /\ UNCHANGED <<encVars, tail, x, used, phase>>

\* Mutant of UseByte: the byte is read one place too early.
UseByte_Early ==
  /\ phase = "decoding"
  /\ SameTopByte(dec)
  /\ dec' = Renorm(dec)
  /\ x' = ShiftIn(x, ByteAt(used + 4))
  /\ used' = used + 1
  /\ UNCHANGED <<encVars, tail, bits, phase>>

\* The body of the while loop: pos is usedLength + 4.
UseByte ==
  /\ phase = "decoding"
  /\ SameTopByte(dec)
  /\ dec' = Renorm(dec)
  /\ x' = ShiftIn(x, ByteAt(used + 5))
  /\ used' = used + 1
  /\ UNCHANGED <<encVars, tail, bits, phase>>

\* After the last bit: the final bytes of the codeword are counted.
DecodeFinal ==
  /\ phase = "decoding"
  /\ ~SameTopByte(dec)
  /\ dec.i = call.datumBit
  /\ used' = used + FinalLength(dec)
  /\ phase' = "decoded"
  /\ UNCHANGED <<encVars, tail, dec, x, bits>>

Next == \/ Encode /\ UNCHANGED decVars
        \/ DecodeStart
        \/ DecodeBit
        \/ UseByte
        \/ DecodeFinal

Spec == CodecInit /\ [][Next]_vars

\* Both functions are loops of one thread that nothing blocks: they keep running.
FairSpec == Spec /\ WF_vars(Next)

----------------------------------------------------------------------------
(* Properties *)

\* The variables have the types of the code's, and no register overflows its 32 bits.
TypeOK == /\ call \in Arguments
          /\ enc \in Coder /\ dec \in Coder
          /\ output \in Seq(Byte)
          /\ returned \in BOOLEAN
          /\ path \in Seq([coder : Coder, written : Nat])
          /\ tail \in Tails
          /\ x \in Word
          /\ used \in Nat
          /\ bits \in Seq({0, 1})
          /\ phase \in {"idle", "decoding", "decoded"}

\* Whatever the bits, the interval of the encoder and that of the decoder stay
\* non-empty: no bit gets an empty share of the interval, so none is lost.
IntervalsNonEmpty == enc.x1 <= enc.x2 /\ dec.x1 <= dec.x2

\* Ratio::update never leaves the 22 bits of a ratio: its mask changes nothing.  (Its
\* "assert(update + ratio >= 0)" compares an unsigned number and cannot fail.)
RatioNeedsNoMask ==
  enc.i < call.datumBit =>
    LET pr  == Predictor(enc, call.datumBit, call.mode)
        new == UpdatedRatio(pr, call.value[enc.i + 1])
    IN  0 <= new /\ new < MaxRatio

\* The encoder's interval has some number of leading bytes that are settled.
Terminable == Settled(enc) # {}

\* AthEncoding ends a codeword without a single final byte only when the interval has
\* shrunk to two points, one on each side of a boundary between two values of the top
\* byte: a wider interval always has leading bytes that are settled.
EndsUnlessTwoPoints ==
  (returned /\ ~Terminable) => /\ enc.x2 = enc.x1 + 1
                              /\ TopByte(enc.x1) # TopByte(enc.x2)

\* The decoder retraces the encoder: at every moment its coder is one the encoder
\* went through, when it had written exactly the bytes the decoder has used, and
\* the bits decoded so far are the first bits of the value.
Retraces ==
  (phase = "decoding" /\ Terminable) =>
    /\ \E j \in DOMAIN path : path[j] = [coder |-> dec, written |-> used]
    /\ bits = SubSeq(call.value, 1, dec.i)

\* The four bytes under comparison lie in the decoder's interval, even where the codeword
\* was not ended and the bytes are another's: the comparison "x <= xmid" never decides
\* about a point outside [x1, x2].
WindowInside ==
  phase = "decoding" => dec.x1 <= x /\ x <= dec.x2

\* The decoder looks at no more than three bytes behind the codeword: main hands it a
\* pointer into a string without saying where the string ends.
ReadAhead ==
  (phase = "decoding" /\ Terminable) => used + 4 <= Len(output) + 3

\* Whatever lies behind the codeword, the decoder returns the value encoded and
\* advances the caller's pointer by exactly the codeword
\* ("ptr += decodeOutput.usedLength" in src/IntegerConvertor.cpp).
RoundTrip ==
  phase = "decoded" => bits = call.value /\ used = Len(output)

\* The same for the values whose codeword the encoder could end.
RoundTripIfTerminable == Terminable => RoundTrip

\* The whole calls of AthCalls return what the loops produce step by step: the codeword
\* AthEncoding wrote, and the value and the length AthDecoding found in the same memory.
CallsAgree ==
  phase = "decoded" =>
    LET memory == [k \in 1..(used + 4) |-> ByteAt(k)]
    IN  /\ AthEncoding(ValueOf(call.value), call.datumBit, call.mode) = output
        /\ AthDecoding(memory, call.datumBit, call.mode)
             = [value |-> ValueOf(bits), usedLength |-> used]

\* Encoder and decoder are a channel that loses a value only where the codeword could not
\* be ended; both calls return, for neither inner while loop shifts for ever.
Channel == INSTANCE AthChannel WITH
  Values <- {a.value : a \in Arguments},
  value  <- call.value,
  state  <- IF phase = "decoded" THEN "received"
            ELSE IF ~returned THEN "sending"
            ELSE IF Terminable THEN "sent" ELSE "lost",
  got    <- bits

ImplementsChannel == Channel!Spec
=============================================================================
