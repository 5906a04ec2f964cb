----------------------------- MODULE LzDecoder -----------------------------
(***************************************************************************)
(* The block decoders of lz4-1.9.4/lib/lz4.c: LZ4_decompress_generic, whole *)
(* or partial, and LZ4_decompress_unsafe_generic.  Copies run in stripes,   *)
(* so that bytes past the end of a copy, up to the end of the output        *)
(* buffer, no longer hold what they held: they become Garbage.              *)
(***************************************************************************)
EXTENDS LzBlock

SequenceSize(s) == 1 + Extra(Len(s.lit)) + Len(s.lit) + 2 + Extra(s.match - MINMATCH)

RECURSIVE SizeFrom(_, _)
SizeFrom(b, i) ==
  IF i > Len(b.seqs) THEN 1 + Extra(Len(b.last)) + Len(b.last)
  ELSE SequenceSize(b.seqs[i]) + SizeFrom(b, i + 1)
BlockSize(b) == SizeFrom(b, 1)

(* How far the copies of n literals, and of a match of n bytes, may run past *)
(* their end: a whole stripe only in the fast loop, which runs as long as    *)
(* 64 bytes of output are left.                                             *)
RoundUp(n, k) == ((n + k - 1) \div k) * k
LiteralPast(D, op, n) ==
  LET fast == D.oend - op >= 2 * STRIPE /\ op + n <= D.oend - STRIPE
  IN IF n <= MASK - 1 THEN MASK + 1 - n
     ELSE RoundUp(n, IF fast THEN STRIPE ELSE WILDCOPYLENGTH) - n

(* What a match of n bytes writes: the shortcuts the longest match that a    *)
(* token holds, the other copies two steps of 8 bytes at least; in the slow  *)
(* loop near the end of the output (MFLIMIT is MATCH_SAFEGUARD_DISTANCE)     *)
(* steps up to the last place where one may begin.  Which slow copy it is    *)
(* depends on the literals before: the longest counts.                      *)
Shortcut == MASK - 1 + MINMATCH
Steps(length) == WILDCOPYLENGTH + RoundUp(Max({length - WILDCOPYLENGTH, 0}), WILDCOPYLENGTH)
FastMatch(n, offset) ==
  CASE n <= Shortcut /\ offset >= WILDCOPYLENGTH -> Shortcut
    [] n > Shortcut /\ offset > MASK -> RoundUp(n, STRIPE)
    [] OTHER -> Max({2 * WILDCOPYLENGTH, Steps(n)})
SlowMatch(D, op, n) ==
  Max({Shortcut, IF op + n > D.oend - MFLIMIT THEN Max({n, Steps(D.oend - (WILDCOPYLENGTH - 1) - op)})
                 ELSE Max({2 * WILDCOPYLENGTH, Steps(n)})})
MatchPast(D, op, n, offset) ==
  (IF op + n < D.oend - 2 * STRIPE THEN FastMatch(n, offset) ELSE SlowMatch(D, op, n)) - n

Spilled(D, mem, end, n) ==
  [a \in DOMAIN mem |-> IF a >= end /\ a < end + n /\ a < D.oend THEN Garbage ELSE mem[a]]

Literals(mem, op, lit, n) ==
  [a \in DOMAIN mem |-> IF a >= op /\ a < op + n THEN lit[a - op + 1] ELSE mem[a]]

(* Copies n bytes one after the other; an address below lowPrefix is taken  *)
(* from the end of the external dictionary.                                 *)
RECURSIVE CopyMatch(_, _, _, _, _)
CopyMatch(D, mem, op, match, n) ==
  LET from == IF D.mode = "usingExtDict" /\ match < D.lowPrefix
              THEN D.dictEnd - (D.lowPrefix - match) ELSE match
  IN IF n = 0 THEN mem
     ELSE CopyMatch(D, [mem EXCEPT ![op] = mem[from]], op + 1, match + 1, n - 1)

(***************************************************************************)
(* LZ4_decompress_generic from sequence i of block b on.  D holds what is   *)
(* fixed during the call: dst, oend, partial, mode, lowPrefix, dictEnd and  *)
(* dictSize.                                                                *)
(***************************************************************************)
Done(D, mem, op) == [n |-> op - D.dst, out |-> mem]
OutputError(mem) == [n |-> -1, out |-> mem]

(* Mutant of Reach: a partial decoding writes whole literals and matches. *)
Reach_Whole(D, op, n) == n
(* As many of n bytes as a partial decoding still has to write. *)
Reach(D, op, n) == IF D.partial THEN Min({n, D.oend - op}) ELSE n

RECURSIVE DecodeLiterals(_, _, _, _, _), DecodeMatch(_, _, _, _, _)

DecodeLiterals(D, b, i, mem, op) ==
  LET final == i > Len(b.seqs)
      lit == IF final THEN b.last ELSE b.seqs[i].lit
      rest == IF final THEN 0
              ELSE 2 + Extra(b.seqs[i].match - MINMATCH) + SizeFrom(b, i + 1)
      near == op + Len(lit) > D.oend - MFLIMIT \/ rest < 2 + 1 + LASTLITERALS
      n == Reach(D, op, Len(lit))
      written == Literals(mem, op, lit, n)
  IN IF near /\ ~D.partial
     THEN IF rest = 0 /\ op + n <= D.oend THEN Done(D, written, op + n) ELSE OutputError(mem)
     ELSE IF near
     THEN IF op + n = D.oend \/ rest <= 2 THEN Done(D, written, op + n)
          ELSE DecodeMatch(D, b, i, written, op + n)
     ELSE DecodeMatch(D, b, i, Spilled(D, written, op + n, LiteralPast(D, op, n)), op + n)

DecodeMatch(D, b, i, mem, op) ==
  LET s == b.seqs[i]
      match == op - s.offset
      external == D.mode = "usingExtDict" /\ match < D.lowPrefix
      n == Reach(D, op, s.match)
      copied == CopyMatch(D, mem, op, match, n)
      past == IF external \/ (D.partial /\ op + s.match > D.oend - MFLIMIT) THEN 0
              ELSE MatchPast(D, op, n, s.offset)
  IN IF D.dictSize < KB64 /\ match + D.dictSize < D.lowPrefix THEN OutputError(mem)
     ELSE IF ~D.partial /\ op + n > D.oend - LASTLITERALS THEN OutputError(mem)
     ELSE IF D.partial /\ op + n = D.oend THEN Done(D, copied, op + n)
     ELSE DecodeLiterals(D, b, i + 1, Spilled(D, copied, op + n, past), op + n)

DecompressGeneric(mem, b, dst, outputSize, partial, mode, lowPrefix, dictEnd, dictSize) ==
  IF outputSize = 0
  THEN [n |-> IF partial \/ b = [seqs |-> <<>>, last |-> <<>>] THEN 0 ELSE -1, out |-> mem]
  ELSE DecodeLiterals([dst |-> dst, oend |-> dst + outputSize, partial |-> partial, mode |-> mode,
                       lowPrefix |-> lowPrefix, dictEnd |-> dictEnd, dictSize |-> dictSize],
                      b, 1, mem, dst)

DecompressSafe(mem, b, dst, outputSize) ==
  DecompressGeneric(mem, b, dst, outputSize, FALSE, "noDict", dst, NULL, 0)

DecompressSafePartial(mem, b, dst, target, capacity) ==
  DecompressGeneric(mem, b, dst, Min({target, capacity}), TRUE, "noDict", dst, NULL, 0)

(* The forms of *_usingDict: a dictionary of dictSize bytes before dictEnd. *)
UsingDict(mem, b, dst, outputSize, partial, dictEnd, dictSize) ==
  CASE dictSize = 0 -> DecompressGeneric(mem, b, dst, outputSize, partial, "noDict", dst, NULL, 0)
    [] dictSize # 0 /\ dictEnd = dst ->
         IF dictSize >= KB64 - 1
         THEN DecompressGeneric(mem, b, dst, outputSize, partial, "withPrefix64k", dst - KB64, NULL, 0)
         ELSE DecompressGeneric(mem, b, dst, outputSize, partial, "noDict", dst - dictSize, NULL, 0)
    [] OTHER -> DecompressGeneric(mem, b, dst, outputSize, partial, "usingExtDict", dst, dictEnd, dictSize)

(***************************************************************************)
(* LZ4_decompress_unsafe_generic, which is told the exact size to produce.   *)
(***************************************************************************)
RECURSIVE UnsafeFrom(_, _, _, _, _)
UnsafeFrom(D, b, i, mem, op) ==
  LET final == i > Len(b.seqs)
      lit == IF final THEN b.last ELSE b.seqs[i].lit
      here == op + Len(lit)
      written == Literals(mem, op, lit, Len(lit))
      s == b.seqs[i]
  IN CASE here > D.oend -> OutputError(mem)
       [] here = D.oend -> Done(D, written, here)
       [] here < D.oend /\ here > D.oend - MFLIMIT -> OutputError(written)
       [] OTHER ->
            IF \/ final \/ here + s.match > D.oend - LASTLITERALS
               \/ s.offset > here - D.lowPrefix + D.dictSize
            THEN OutputError(written)
            ELSE UnsafeFrom(D, b, i + 1,
                            CopyMatch(D, written, here, here - s.offset, s.match), here + s.match)

DecompressUnsafe(mem, b, dst, size, prefixSize, dictEnd, dictSize) ==
  UnsafeFrom([dst |-> dst, oend |-> dst + size, mode |-> "usingExtDict",
              lowPrefix |-> dst - prefixSize, dictEnd |-> dictEnd, dictSize |-> dictSize],
             b, 1, mem, dst)
=============================================================================
