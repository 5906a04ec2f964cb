------------------------------ MODULE AthCalls ------------------------------
(***************************************************************************)
(* The functions of src/AthEncoding.h as whole calls: what AthEncoding,    *)
(* AthDecoding, AthDecoding_prebuild and AthDecoding_fast return for their *)
(* arguments.  AthCodec has the first two step by step; the programs that  *)
(* use them (DecodingTest, main) see only what they return.                *)
(*                                                                         *)
(* A decoder is given memory: the sequence of bytes from its pointer on.   *)
(***************************************************************************)
EXTENDS AthArith

\* The value of a sequence of bits, lowest first.
ValueOf(bits) ==
  LET from[k \in 1..(Len(bits) + 1)] == IF k = Len(bits) + 1 THEN 0 ELSE bits[k] + 2 * from[k + 1]
  IN  from[1]

\* The d lowest bits of a value: "value & 0x01; value >> 1".
BitsOf(v, d) ==
  LET rest[k \in 0..d] == IF k = 0 THEN v ELSE rest[k - 1] \div 2
  IN  [k \in 1..d |-> rest[k - 1] % 2]

----------------------------------------------------------------------------
(* AthEncoding *)

\* The bytes a narrowed interval has settled are written; four shifts renew a register.
Written(e) ==
  LET shifted[n \in 0..4] ==
        IF n = 0 THEN e
        ELSE LET p == shifted[n - 1]
             IN  IF SameTopByte(p.coder)
                   THEN [coder |-> Renorm(p.coder), output |-> Append(p.output, TopByte(p.coder.x1))]
                   ELSE p
  IN  shifted[4]

\* The coder after the last bit, and what is written by then.
EncodedBits(v, d, mode) ==
  LET value == BitsOf(v, d)
      after[n \in 0..d] ==
        IF n = 0 THEN [coder |-> NewCoder, output |-> << >>]
        ELSE Written([after[n - 1] EXCEPT !.coder = Narrow(@, value[n], d, mode)])
  IN  after[d]

\* The codeword of a call can be ended: a beginning of its last interval is settled.
Ends(v, d, mode) == Settled(EncodedBits(v, d, mode).coder) # {}

AthEncoding(v, d, mode) ==
  LET done == EncodedBits(v, d, mode) IN done.output \o FinalBytes(done.coder)

----------------------------------------------------------------------------
(* The decoders.  A record r holds their locals: the coder, the window x,   *)
(* pos (the bytes of memory read), usedLength and the bits produced.        *)

Reading(coder, memory, usedLength, bits) ==
  [coder |-> coder, x |-> WindowOf(memory, 0), pos |-> 4,
   usedLength |-> usedLength, bits |-> bits]

\* "bit = (x <= xmid)", the update, and the write of the bit.
OneBit(r, pr) ==
  LET xmid == SplitPoint(r.coder.x1, r.coder.x2, GetRatio(pr))
      bit  == IF r.x <= xmid THEN 1 ELSE 0
  IN  [coder |-> NarrowBy(r.coder, bit, pr), x |-> r.x, pos |-> r.pos,
       usedLength |-> r.usedLength, bits |-> Append(r.bits, bit)]

\* Mutant of OneShift: "pos" is not moved on.
OneShift_Still(r, memory) ==
  [r EXCEPT !.coder = Renorm(@), !.x = ShiftIn(@, memory[r.pos + 1]), !.usedLength = @ + 1]

\* The body of the while loop.
OneShift(r, memory) ==
  [coder |-> Renorm(r.coder), x |-> ShiftIn(r.x, memory[r.pos + 1]), pos |-> r.pos + 1,
   usedLength |-> r.usedLength + 1, bits |-> r.bits]

\* Mutant of ShiftedUpTo: "if" instead of "while".
ShiftedUpTo_Once(r, memory, outputLimit) ==
  IF SameTopByte(r.coder) THEN OneShift(r, memory) ELSE r

\* The while loop, left when the top bytes differ or when outputLimit bytes are used.
ShiftedUpTo(r, memory, outputLimit) ==
  LET shifted[n \in 0..4] ==
        IF n = 0 THEN r
        ELSE LET p == shifted[n - 1]
             IN  IF SameTopByte(p.coder) /\ ~(p.pos > r.pos /\ p.usedLength = outputLimit)
                   THEN OneShift(p, memory) ELSE p
  IN  shifted[4]

Shifted(r, memory) == ShiftedUpTo(r, memory, -1)

\* The bits from r.coder.i on, the first of them predicted by pr, and the final count.
DecodeFrom(r, pr, memory, d, mode) ==
  LET after[n \in r.coder.i..d] ==
        IF n = r.coder.i THEN r
        ELSE LET p == after[n - 1]
             IN  Shifted(OneBit(p, IF n = r.coder.i + 1 THEN pr ELSE Predictor(p.coder, d, mode)),
                         memory)
      done == after[d]
  IN  [value |-> ValueOf(done.bits), usedLength |-> done.usedLength + FinalLength(done.coder)]

AthDecoding(memory, d, mode) ==
  DecodeFrom(Reading(NewCoder, memory, 0, << >>), Predictor(NewCoder, d, mode), memory, d, mode)

----------------------------------------------------------------------------
(* AthDecoding_prebuild: the decoder stopped before bit inputLimit, or as   *)
(* soon as it has used outputLimit bytes, which may be between two shifts.  *)

\* What a PrebuildState keeps: the Ratio without its count.
Saved(r, ratio) ==
  [x1 |-> r.coder.x1, x2 |-> r.coder.x2, ratio |-> ratio, bits |-> r.bits,
   usedLength |-> r.usedLength]

\* One turn of the for loops: the locals it leaves, and the state it returns, if it does.
PrebuildBit(r, memory, d, outputLimit, inputLimit, mode) ==
  LET pr == Predictor(r.coder, d, mode)
      s  == ShiftedUpTo(OneBit(r, pr), memory, outputLimit)
  IN  IF r.coder.i = inputLimit THEN [r |-> r, saved |-> {Saved(r, pr.ratio)}]
      ELSE IF s.pos > r.pos /\ s.usedLength = outputLimit
        THEN [r |-> s, saved |-> {Saved(s, s.coder.pr.ratio)}]
      ELSE [r |-> s, saved |-> {}]

\* The state returned; {} stands for "assert(0)" after the last bit.
AthDecoding_prebuild(memory, d, outputLimit, inputLimit, mode) ==
  LET after[n \in 0..d] ==
        IF n = 0 THEN [r |-> Reading(NewCoder, memory, 0, << >>), saved |-> {}]
        ELSE LET p == after[n - 1]
             IN  IF p.saved # {} THEN p
                 ELSE PrebuildBit(p.r, memory, d, outputLimit, inputLimit, mode)
  IN  after[d].saved

----------------------------------------------------------------------------
(* AthDecoding_fast: memory starts where the PrebuildState had used it up;  *)
(* the count of the Ratio is recovered from the bits produced, and at the   *)
(* start of the second and the third segment the Ratio is a new one.  At    *)
(* the start of the first it is the one saved: a State that operator[] has  *)
(* just made is all zeros.                                                  *)

ZeroState == [x1 |-> 0, x2 |-> 0, ratio |-> 0, bits |-> << >>, usedLength |-> 0]

\* Mutant of Resumed: the count is that of a new Ratio.
Resumed_FreshCount(state, d) ==
  LET i == Len(state.bits)
  IN  [x1 |-> state.x1, x2 |-> state.x2, i |-> i, pr |-> [ratio |-> state.ratio, count |-> 0]]

Resumed(state, d) ==
  LET i == Len(state.bits)
  IN  [x1 |-> state.x1, x2 |-> state.x2, i |-> i,
       pr |-> [ratio |-> state.ratio, count |-> i - Segment(d, i) * SegSize(d)]]

\* The result; {} stands for "assert(0)": no bit is left to decode.
AthDecoding_fast(memory, d, state, mode) ==
  LET r  == Reading(Resumed(state, d), memory, state.usedLength, state.bits)
      pr == IF r.coder.i = 0 THEN r.coder.pr ELSE Predictor(r.coder, d, mode)
  IN  IF r.coder.i >= d THEN {} ELSE {DecodeFrom(r, pr, memory, d, mode)}
=============================================================================
