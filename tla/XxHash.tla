------------------------------- MODULE XxHash -------------------------------
(***************************************************************************)
(* XXH32 and XXH64 of lz4-1.9.4/lib/xxhash.c: the hash of an input that is   *)
(* there at once, and the state that takes the same input in pieces.  The     *)
(* number of accumulators, the bytes of a word and the bits of both are       *)
(* constants; rotations and shifts are the code's, in proportion to the bits. *)
(***************************************************************************)
EXTENDS Integers, Sequences, SequencesExt, Bitwise

CONSTANTS LANES,    \* accumulators: v1 to v4 (4)
          WORD,     \* bytes of a word (4)
          BITS,     \* bits of a word (32)
          PRIME     \* PRIME32_1 to PRIME32_5

ASSUME HashAssumption ==
  /\ LANES \in 3 .. 4 /\ WORD \in 1 .. BITS /\ BITS % WORD = 0 /\ PRIME \in [1 .. 5 -> 1 .. 2^BITS]

STRIPE_BYTES == LANES * WORD
Mod(x) == x % 2^BITS
Part(n) == (n * BITS) \div 32
Rotl(x, n) == Mod(x * 2^Part(n)) + (x \div 2^(BITS - Part(n)))
Folded(x, n) == x ^^ (x \div 2^Part(n))

(* The little-endian word that follows the first `at' bytes. *)
Word(bytes, at) ==
  LET value[k \in 0 .. WORD] ==
        IF k = 0 THEN 0 ELSE value[k - 1] + bytes[at + k] * 2^((k - 1) * (BITS \div WORD))
  IN value[WORD]

Round(seed, input) == Mod(Rotl(Mod(seed + input * PRIME[2]), 13) * PRIME[1])

Avalanche(h) ==
  Folded(Mod(Folded(Mod(Folded(h, 15) * PRIME[2]), 13) * PRIME[3]), 16)

Seeded(seed) ==
  SubSeq(<<Mod(seed + PRIME[1] + PRIME[2]), Mod(seed + PRIME[2]), Mod(seed), Mod(seed - PRIME[1])>>,
         1, LANES)

(* The accumulators after the whole stripes of bytes. *)
Stripes(v, bytes) ==
  LET after[k \in 0 .. Len(bytes) \div STRIPE_BYTES] ==
        IF k = 0 THEN v
        ELSE [l \in 1 .. LANES |->
                Round(after[k - 1][l], Word(bytes, (k - 1) * STRIPE_BYTES + (l - 1) * WORD))]
  IN after[Len(bytes) \div STRIPE_BYTES]

Merged(v) == Mod(FoldLeft(+, 0, [l \in 1 .. LANES |-> Rotl(v[l], <<1, 7, 12, 18>>[l])]))

(* XXH32_finalize: what is left, words first. *)
Finalize(h, bytes) ==
  LET words == Len(bytes) \div WORD
      by4[k \in 0 .. words] ==
        IF k = 0 THEN h
        ELSE Mod(Rotl(Mod(by4[k - 1] + Word(bytes, (k - 1) * WORD) * PRIME[3]), 17) * PRIME[4])
      by1[k \in words * WORD .. Len(bytes)] ==
        IF k = words * WORD THEN by4[words]
        ELSE Mod(Rotl(Mod(by1[k - 1] + bytes[k] * PRIME[5]), 11) * PRIME[1])
  IN Avalanche(by1[Len(bytes)])

Remainder(bytes) == SubSeq(bytes, Len(bytes) - (Len(bytes) % STRIPE_BYTES) + 1, Len(bytes))

XXH32(bytes, seed) ==
  LET h == IF Len(bytes) >= STRIPE_BYTES THEN Merged(Stripes(Seeded(seed), bytes))
           ELSE Mod(seed + PRIME[5])
  IN Finalize(Mod(h + Len(bytes)), Remainder(bytes))

(* The state: mem is mem32 up to memsize. *)
XXH32_reset(seed) == [total |-> 0, large |-> FALSE, v |-> Seeded(seed), mem |-> <<>>]

(* Mutant of XXH32_update: only a single input can be large. *)
XXH32_update_Single(state, input) ==
  LET taken == IF state.mem = <<>> THEN 0 ELSE STRIPE_BYTES - Len(state.mem)
      rest == SubSeq(input, taken + 1, Len(input))
      counted == [state EXCEPT !.total = Mod(@ + Len(input)),
                               !.large = @ \/ Len(input) >= STRIPE_BYTES]
  IN IF Len(state.mem) + Len(input) < STRIPE_BYTES
     THEN [counted EXCEPT !.mem = @ \o input]
     ELSE [counted EXCEPT !.v = Stripes(IF taken = 0 THEN @
                                        ELSE Stripes(@, state.mem \o SubSeq(input, 1, taken)), rest),
                          !.mem = Remainder(rest)]

XXH32_update(state, input) ==
  LET total == Mod(state.total + Len(input))
      counted == [state EXCEPT !.total = total,
                               !.large = @ \/ Len(input) >= STRIPE_BYTES \/ total >= STRIPE_BYTES]
      taken == IF state.mem = <<>> THEN 0 ELSE STRIPE_BYTES - Len(state.mem)
      rest == SubSeq(input, taken + 1, Len(input))
  IN IF Len(state.mem) + Len(input) < STRIPE_BYTES
     THEN [counted EXCEPT !.mem = @ \o input]
     ELSE [counted EXCEPT !.v = Stripes(IF taken = 0 THEN @
                                        ELSE Stripes(@, state.mem \o SubSeq(input, 1, taken)), rest),
                          !.mem = Remainder(rest)]

XXH32_digest(state) ==
  LET h == IF state.large THEN Merged(state.v) ELSE Mod(state.v[3] + PRIME[5])
  IN Finalize(Mod(h + state.total), state.mem)

(***************************************************************************)
(* XXH64: words of twice the bytes, which WORD and BITS stand for here too, a *)
(* mixing round for each accumulator, and a half word and bytes at the end.   *)
(***************************************************************************)
HALF == WORD \div 2
Part64(n) == (n * BITS) \div 64
Rotl64(x, n) == Mod(x * 2^Part64(n)) + (x \div 2^(BITS - Part64(n)))
Folded64(x, n) == x ^^ (x \div 2^Part64(n))

(* The little-endian half word that follows the first `at' bytes. *)
HalfWord(bytes, at) ==
  LET value[k \in 0 .. HALF] ==
        IF k = 0 THEN 0 ELSE value[k - 1] + bytes[at + k] * 2^((k - 1) * (BITS \div WORD))
  IN value[HALF]

Round64(acc, input) == Mod(Rotl64(Mod(acc + input * PRIME[2]), 31) * PRIME[1])
MergeRound64(acc, val) == Mod((acc ^^ Round64(0, val)) * PRIME[1] + PRIME[4])

Avalanche64(h) ==
  Folded64(Mod(Folded64(Mod(Folded64(h, 33) * PRIME[2]), 29) * PRIME[3]), 32)

(* The accumulators after the whole stripes of bytes. *)
Stripes64(v, bytes) ==
  LET after[k \in 0 .. Len(bytes) \div STRIPE_BYTES] ==
        IF k = 0 THEN v
        ELSE [l \in 1 .. LANES |->
                Round64(after[k - 1][l], Word(bytes, (k - 1) * STRIPE_BYTES + (l - 1) * WORD))]
  IN after[Len(bytes) \div STRIPE_BYTES]

Merged64(v) ==
  LET sum == Mod(FoldLeft(+, 0, [l \in 1 .. LANES |-> Rotl64(v[l], <<1, 7, 12, 18>>[l])]))
      mixed[l \in 0 .. LANES] == IF l = 0 THEN sum ELSE MergeRound64(mixed[l - 1], v[l])
  IN mixed[LANES]

(* XXH64_finalize: the words, a half word, the bytes of what is left. *)
Finalize64(h, bytes) ==
  LET words == Len(bytes) \div WORD
      by8[k \in 0 .. words] ==
        IF k = 0 THEN h
        ELSE Mod(Rotl64(by8[k - 1] ^^ Round64(0, Word(bytes, (k - 1) * WORD)), 27) * PRIME[1] + PRIME[4])
      start == words * WORD
      half == Len(bytes) - start >= HALF
      by4 == IF half
             THEN Mod(Rotl64(by8[words] ^^ Mod(HalfWord(bytes, start) * PRIME[1]), 23) * PRIME[2] + PRIME[3])
             ELSE by8[words]
      single == start + IF half THEN HALF ELSE 0
      by1[k \in single .. Len(bytes)] ==
        IF k = single THEN by4 ELSE Mod(Rotl64(by1[k - 1] ^^ Mod(bytes[k] * PRIME[5]), 11) * PRIME[1])
  IN Avalanche64(by1[Len(bytes)])

XXH64(bytes, seed) ==
  LET h == IF Len(bytes) >= STRIPE_BYTES THEN Merged64(Stripes64(Seeded(seed), bytes))
           ELSE Mod(seed + PRIME[5])
  IN Finalize64(Mod(h + Len(bytes)), Remainder(bytes))

(* The state counts the whole input: no flag says that it was large. *)
XXH64_reset(seed) == [total_len |-> 0, v |-> Seeded(seed), mem |-> <<>>]

XXH64_update(state, input) ==
  LET counted == [state EXCEPT !.total_len = @ + Len(input)]
      taken == IF state.mem = <<>> THEN 0 ELSE STRIPE_BYTES - Len(state.mem)
      rest == SubSeq(input, taken + 1, Len(input))
  IN IF Len(state.mem) + Len(input) < STRIPE_BYTES
     THEN [counted EXCEPT !.mem = @ \o input]
     ELSE [counted EXCEPT !.v = Stripes64(IF taken = 0 THEN @
                                          ELSE Stripes64(@, state.mem \o SubSeq(input, 1, taken)), rest),
                          !.mem = Remainder(rest)]

XXH64_digest(state) ==
  LET h == IF state.total_len >= STRIPE_BYTES THEN Merged64(state.v) ELSE Mod(state.v[3] + PRIME[5])
  IN Finalize64(Mod(h + state.total_len), state.mem)
=============================================================================
