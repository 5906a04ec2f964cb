----------------------------- MODULE AthEncoder -----------------------------
(***************************************************************************)
(* AthEncoding (src/AthEncoding.h): one value of datumBit bits becomes a   *)
(* codeword of a few bytes.  One action per data bit, one per code byte    *)
(* that the inner while loop writes, one for the bytes that end the        *)
(* codeword.  A value is the sequence of its bits, lowest first: the order *)
(* in which "value & 0x01; value >> 1" takes them.                         *)
(***************************************************************************)
EXTENDS AthArith

CONSTANT Arguments   \* the calls explored: records of a width, a mode and a value

ASSUME ArgumentsAssumption ==
  \A a \in Arguments : /\ a.datumBit \in 1..64
                       /\ a.mode \in 0..7
                       /\ a.value \in [1..a.datumBit -> {0, 1}]

VARIABLES
  call,     \* the arguments of the call
  enc,      \* x1, x2, pr and i
  output,   \* EncodeOutput: the bytes written so far
  returned, \* the call has returned
  path      \* history: the coders gone through, each with the bytes written by then

encVars == <<call, enc, output, returned, path>>

----------------------------------------------------------------------------
Init == /\ call \in Arguments
        /\ enc = NewCoder
        /\ output = << >>
        /\ returned = FALSE
        /\ path = <<[coder |-> NewCoder, written |-> 0]>>

Recorded == path' = Append(path, [coder |-> enc', written |-> Len(output')])

\* Mutant of EncodeBit: the last bit is left out.
EncodeBit_Short ==
  /\ ~returned
  /\ ~SameTopByte(enc)
  /\ enc.i < call.datumBit - 1
  /\ enc' = Narrow(enc, call.value[enc.i + 1], call.datumBit, call.mode)
  /\ UNCHANGED <<call, output, returned>>
  /\ Recorded

\* The body of the for loops: one bit of the value narrows the interval.
EncodeBit ==
  /\ ~returned
  /\ ~SameTopByte(enc)
  /\ enc.i < call.datumBit
  /\ enc' = Narrow(enc, call.value[enc.i + 1], call.datumBit, call.mode)
  /\ UNCHANGED <<call, output, returned>>
  /\ Recorded

\* The body of the while loop: the byte x1 and x2 agree on is written.
WriteByte ==
  /\ ~returned
  /\ SameTopByte(enc)
  /\ output' = Append(output, TopByte(enc.x1))
  /\ enc' = Renorm(enc)
  /\ UNCHANGED <<call, returned>>
  /\ Recorded

\* After the last bit: the bytes of a point strictly inside the interval.
WriteFinal ==
  /\ ~returned
  /\ ~SameTopByte(enc)
  /\ enc.i = call.datumBit
  /\ output' = output \o FinalBytes(enc)
  /\ returned' = TRUE
  /\ UNCHANGED <<call, enc, path>>

Encode == EncodeBit \/ WriteByte \/ WriteFinal
=============================================================================
