------------------------------ MODULE LzBlock ------------------------------
(***************************************************************************)
(* The LZ4 block compressor of lz4-1.9.4/lib/lz4.c, as operators           *)
(* over memories, which are functions from addresses to bytes.  A          *)
(* compressed block is kept as the sequences that it encodes, with the     *)
(* number of bytes each of them takes.  The sizes that the format and the   *)
(* code fix are constants, so that small instances reach every branch.      *)
(* Builds of 64 bits: the tables of pointers (byPtr) do not occur in them.  *)
(***************************************************************************)
EXTENDS Integers, Sequences, FiniteSetsExt

CONSTANTS MINMATCH,        \* the shortest match (4)
          LASTLITERALS,    \* bytes at the end of a block that are literals (5)
          MFLIMIT,         \* distance of the last match from the end (12)
          MASK,            \* ML_MASK and RUN_MASK, the lengths a token holds (15)
          BYTE,            \* the largest byte, one unit of a longer length (255)
          KB64, KB4, GB1,  \* 64 KB, 4 KB and 1 GB
          WILDCOPYLENGTH,  \* bytes that wildCopy8 writes at once (8)
          STRIPE,          \* bytes that wildCopy32 writes at once (32)
          SKIP_TRIGGER,    \* LZ4_skipTrigger (6)
          HASH_UNIT,       \* sizeof(reg_t), the least dictionary (8)
          Hash             \* from MINMATCH and from MINMATCH + 1 bytes to slots

ASSUME FormatAssumption ==
  /\ MINMATCH \in 2 .. HASH_UNIT /\ LASTLITERALS \in Nat \ {0} /\ BYTE > MASK /\ MASK > 2
  /\ MFLIMIT >= MINMATCH + LASTLITERALS
  /\ KB4 < KB64 /\ KB64 < GB1 /\ STRIPE > MASK + 1 /\ HASH_UNIT > MINMATCH

NULL == -1
Garbage == -1                        \* a byte that a copy has run over
Slots == {Hash[b] : b \in DOMAIN Hash}
ZeroTable == [h \in Slots |-> 0]
DISTANCE_MAX == KB64 - 1
Limit64K == KB64 + MFLIMIT - 1

Bytes(mem, from, n) == [k \in 1 .. n |-> mem[from + k - 1]]

(* The bytes that follow a token for a length n, literal or match. *)
Extra(n) == IF n < MASK THEN 0 ELSE ((n - MASK) \div BYTE) + 1
CompressBound(n) == n + (n \div BYTE) + MASK + 1

(* A context as LZ4_initStream leaves it; dictCtx is <<>> for NULL. *)
InitStream == [hashTable |-> ZeroTable, currentOffset |-> 0, tableType |-> "cleared",
               dictCtx |-> <<>>, dictionary |-> NULL, dictSize |-> 0]

HashPosition(mem, p, tableType) ==
  Hash[Bytes(mem, p, IF tableType = "byU16" THEN MINMATCH ELSE MINMATCH + 1)]

RECURSIVE Count(_, _, _, _)
Count(mem, p, m, limit) ==
  IF p < limit /\ mem[p] = mem[m] THEN 1 + Count(mem, p + 1, m + 1, limit) ELSE 0

(* What is left of the context's tables when a new input starts. *)
PrepareTable(ctx, inputSize, tableType) ==
  LET reset == /\ ctx.tableType # "cleared"
               /\ \/ ctx.tableType # tableType
                  \/ tableType = "byU16" /\ ctx.currentOffset + inputSize >= DISTANCE_MAX
                  \/ tableType = "byU32" /\ ctx.currentOffset > GB1
                  \/ inputSize >= KB4
      kept == IF reset THEN InitStream ELSE ctx
      gap == IF kept.currentOffset # 0 /\ tableType = "byU32" THEN KB64 ELSE 0
  IN [kept EXCEPT !.currentOffset = @ + gap,
                  !.dictCtx = <<>>, !.dictionary = NULL, !.dictSize = 0]

(***************************************************************************)
(* LZ4_compress_generic.  E holds what does not change during a call:       *)
(* mem, source, iend, olimit, directive, tableType, mode, small, accel and  *)
(* the constants that the function derives from the context.                *)
(***************************************************************************)
Environment(ctx, mem, source, size, cap, directive, tableType, mode, small, accel) ==
  LET dict == IF mode = "usingDictCtx" THEN ctx.dictCtx[1] ELSE ctx
      start == ctx.currentOffset
  IN [mem |-> mem, source |-> source, iend |-> source + size, olimit |-> cap,
      directive |-> directive, tableType |-> tableType, mode |-> mode, small |-> small,
      accel |-> accel, startIndex |-> start,
      dictionary |-> dict.dictionary, dictSize |-> dict.dictSize, dictTable |-> dict.hashTable,
      dictEnd |-> dict.dictionary + dict.dictSize,
      dictDelta |-> IF mode = "usingDictCtx" THEN start - dict.currentOffset ELSE 0]

mflimitPlusOne(E) == E.iend - MFLIMIT + 1
matchlimit(E) == E.iend - LASTLITERALS
Index(E, p) == p - E.source + E.startIndex
HashAt(E, p) == HashPosition(E.mem, p, E.tableType)
Put(E, table, p) == [table EXCEPT ![HashAt(E, p)] = Index(E, p)]

(* The earlier position that slot h proposes: its index, its address and the *)
(* lowest address a match may begin at.                                     *)
Candidate(E, table, h) ==
  LET i == table[h]
      di == E.dictTable[h] + E.dictDelta
      outside(j) == [index |-> j, addr |-> E.dictEnd - E.startIndex + j, low |-> E.dictionary]
      prefix == IF E.mode = "withPrefix64k" THEN E.dictSize ELSE 0
  IN CASE E.mode = "usingDictCtx" /\ i < E.startIndex -> outside(di)
       [] E.mode = "usingExtDict" /\ i < E.startIndex -> outside(i)
       [] OTHER -> [index |-> i, addr |-> E.source - E.startIndex + i, low |-> E.source - prefix]

Accepted(E, c, p) ==
  /\ E.small => c.index >= E.startIndex - E.dictSize
  /\ E.tableType # "byU16" => c.index + DISTANCE_MAX >= Index(E, p)
  /\ Bytes(E.mem, c.addr, MINMATCH) = Bytes(E.mem, p, MINMATCH)

RECURSIVE Search(_, _, _, _, _)
Search(E, table, p, step, searchMatchNb) ==
  LET h == HashAt(E, p)
      c == Candidate(E, table, h)
      put == [table EXCEPT ![h] = Index(E, p)]
  IN IF p + step > mflimitPlusOne(E) THEN [found |-> FALSE, table |-> table]
     ELSE IF Accepted(E, c, p) THEN [found |-> TRUE, table |-> put, at |-> p, match |-> c]
     ELSE Search(E, put, p + step, searchMatchNb \div (2 ^ SKIP_TRIGGER), searchMatchNb + 1)

RECURSIVE CatchUp(_, _, _, _, _)
CatchUp(E, anchor, ip, match, low) ==
  IF ip > anchor /\ match > low /\ E.mem[ip - 1] = E.mem[match - 1]
  THEN 1 + CatchUp(E, anchor, ip - 1, match - 1, low) ELSE 0

(* The end of a call: its result, 0 for failure, and what it wrote. *)
Failed(table) == [size |-> 0, consumed |-> 0, table |-> table, block |-> [seqs |-> <<>>, last |-> <<>>]]

(* Mutant of LastRun: the bytes of its length are left out of the room.     *)
LastRun_Tight(E, S) ==
  LET run == E.iend - S.anchor
      over == E.directive # "notLimited" /\ S.op + run + 1 > E.olimit
      lastRun == IF over THEN E.olimit - S.op - 1 ELSE run
  IN IF over /\ E.directive = "limitedOutput" THEN Failed(S.table)
     ELSE [size |-> S.op + 1 + Extra(lastRun) + lastRun,
           consumed |-> S.anchor + lastRun - E.source, table |-> S.table,
           block |-> [seqs |-> S.seqs, last |-> Bytes(E.mem, S.anchor, lastRun)]]

(* _last_literals.  S is the state of the loop: where the literals begin,   *)
(* the bytes written, the sequences and the table.                          *)
LastRun(E, S) ==
  LET run == E.iend - S.anchor
      over == /\ E.directive # "notLimited"
              /\ S.op + run + 1 + ((run + BYTE - MASK) \div BYTE) > E.olimit
      room == E.olimit - S.op - 1
      lastRun == IF over THEN room - ((room + BYTE + 1 - MASK) \div (BYTE + 1)) ELSE run
  IN IF over /\ E.directive = "limitedOutput" THEN Failed(S.table)
     ELSE [size |-> S.op + 1 + Extra(lastRun) + lastRun,
           consumed |-> S.anchor + lastRun - E.source, table |-> S.table,
           block |-> [seqs |-> S.seqs, last |-> Bytes(E.mem, S.anchor, lastRun)]]

(* The length of a match after its first MINMATCH bytes; one that starts in *)
(* an external dictionary goes on at the start of the source.               *)
MatchCode(E, ip, match, low) ==
  LET limit == Min({ip + (E.dictEnd - match), matchlimit(E)})
      code == Count(E.mem, ip + MINMATCH, match + MINMATCH, limit)
  IN IF E.mode \in {"usingExtDict", "usingDictCtx"} /\ low = E.dictionary
     THEN code + IF ip + code + MINMATCH = limit
                 THEN Count(E.mem, limit, E.source, matchlimit(E)) ELSE 0
     ELSE Count(E.mem, ip + MINMATCH, match + MINMATCH, matchlimit(E))

RECURSIVE ClearHash(_, _, _, _)
ClearHash(E, table, from, to) ==
  IF from > to THEN table
  ELSE ClearHash(E, [table EXCEPT ![HashAt(E, from)] = 0], from + 1, to)

RECURSIVE MainLoop(_, _, _), NextMatch(_, _, _)

(* The literals before the match that the search f has found; `back' is how   *)
(* far the match is extended backwards.                                      *)
WithLiterals(E, S, f, back) ==
  LET litLength == f.at - back - S.anchor
      op == S.op + 1
  IN CASE /\ E.directive = "limitedOutput"
          /\ op + litLength + (2 + 1 + LASTLITERALS) + (litLength \div BYTE) > E.olimit -> Failed(f.table)
       [] /\ E.directive = "fillOutput"
          /\ op + ((litLength + BYTE - MASK) \div BYTE) + litLength
                + 2 + 1 + MFLIMIT - MINMATCH > E.olimit -> LastRun(E, S)
       [] OTHER -> NextMatch(E, [S EXCEPT !.op = op + Extra(litLength) + litLength],
                     [token |-> S.op, ip |-> f.at - back, match |-> f.match.addr - back,
                      low |-> f.match.low, offset |-> Index(E, f.at) - f.match.index,
                      filledIp |-> f.at])

Searched(E, S, f) ==
  IF ~f.found THEN LastRun(E, S)
  ELSE WithLiterals(E, S, f, CatchUp(E, S.anchor, f.at, f.match.addr, f.match.low))

SearchedWith(E, S, f) == Searched(E, [S EXCEPT !.table = f.table], f)

(* One turn of the main loop: the next match from address `from' on and the *)
(* literals before it.                                                      *)
MainLoop(E, S, from) ==
  SearchedWith(E, S, Search(E, S.table, from, 1, E.accel * (2 ^ SKIP_TRIGGER)))

(* The test of the position ip after a match: `filled' is the table with the  *)
(* end of the match, `next' what it proposes for ip.                         *)
TestNext(E, T, m, filled, next) ==
  LET ip == T.anchor
      U == [T EXCEPT !.table = Put(E, filled, ip)]
  IN IF Accepted(E, next, ip)
     THEN NextMatch(E, [U EXCEPT !.op = @ + 1],
                    [token |-> T.op, ip |-> ip, match |-> next.addr, low |-> next.low,
                     offset |-> Index(E, ip) - next.index, filledIp |-> m.filledIp])
     ELSE MainLoop(E, U, ip + 1)

TestWith(E, T, m, filled) ==
  TestNext(E, T, m, filled, Candidate(E, filled, HashAt(E, T.anchor)))

(* The state after the match m of code + MINMATCH bytes. *)
Emitted(E, S, m, code, table) ==
  LET ip == m.ip + MINMATCH + code
  IN [anchor |-> ip, op |-> S.op + 2 + Extra(code), table |-> table,
      seqs |-> Append(S.seqs, [lit |-> Bytes(E.mem, S.anchor, m.ip - S.anchor),
                               offset |-> m.offset, match |-> code + MINMATCH])]

AfterMatch(E, T, m) ==
  IF T.anchor >= mflimitPlusOne(E) THEN LastRun(E, T)
  ELSE TestWith(E, T, m, Put(E, T.table, T.anchor - 2))

(* A match whose length has no room: none of it, or as much as fits. *)
Shortened(E, S, m, code) ==
  LET ip == m.ip + MINMATCH + code
  IN AfterMatch(E, Emitted(E, S, m, code, IF ip <= m.filledIp THEN ClearHash(E, S.table, ip, m.filledIp)
                                          ELSE S.table), m)

Measured(E, S, m, code) ==
  LET op == S.op + 2
      over == /\ E.directive # "notLimited"
              /\ op + 1 + LASTLITERALS + ((code + BYTE - MASK) \div BYTE) > E.olimit
  IN CASE ~over -> AfterMatch(E, Emitted(E, S, m, code, S.table), m)
       [] over /\ E.directive = "limitedOutput" -> Failed(S.table)
       [] OTHER -> Shortened(E, S, m, MASK - 1 + ((E.olimit - op - 1 - LASTLITERALS) * BYTE))

(* _next_match: the match m after the literals from S.anchor to m.ip, then   *)
(* the table's entries for its end and the test of the next position.        *)
NextMatch(E, S, m) ==
  IF E.directive = "fillOutput" /\ S.op + 2 + 1 + MFLIMIT - MINMATCH > E.olimit
  THEN LastRun(E, [S EXCEPT !.op = m.token])
  ELSE Measured(E, S, m, MatchCode(E, m.ip, m.match, m.low))

(* The call as a whole: its result and the context that it leaves. *)
Returned(r, ctx) == [size |-> r.size, consumed |-> r.consumed, block |-> r.block, ctx |-> ctx]

(* The context of a call for E that has written r. *)
LeftBy(E, ctx, size, r) ==
  LET used == IF E.mode = "usingDictCtx" THEN [ctx EXCEPT !.dictCtx = <<>>, !.dictSize = size]
              ELSE [ctx EXCEPT !.dictSize = @ + size]
  IN Returned(r, [used EXCEPT !.currentOffset = @ + size, !.tableType = E.tableType,
                              !.hashTable = r.table])

Run(E, S, size) == IF size < MFLIMIT + 1 THEN LastRun(E, S)
                   ELSE MainLoop(E, [S EXCEPT !.table = Put(E, @, E.source)], E.source + 1)

CompressIn(E, ctx, size) ==
  LeftBy(E, ctx, size,
         Run(E, [anchor |-> E.source, op |-> 0, seqs |-> <<>>, table |-> ctx.hashTable], size))

CompressGeneric(ctx, mem, source, size, cap, directive, tableType, mode, small, accel) ==
  IF \/ size = 0 /\ directive # "notLimited" /\ cap <= 0
     \/ directive = "fillOutput" /\ cap < 1
     \/ tableType = "byU16" /\ size >= Limit64K
  THEN Returned(Failed(ctx.hashTable), ctx)
  ELSE IF size = 0 THEN Returned([Failed(ctx.hashTable) EXCEPT !.size = 1], ctx)
  ELSE CompressIn(Environment(ctx, mem, source, size, cap, directive, tableType, mode, small, accel),
                  ctx, size)

(* LZ4_compress_fast_extState (on a fresh context) and its _fastReset form. *)
TypeFor(size) == IF size < Limit64K THEN "byU16" ELSE "byU32"
Directive(size, cap) == IF cap >= CompressBound(size) THEN "notLimited" ELSE "limitedOutput"

CompressExtState(ctx, mem, source, size, cap, accel) ==
  CompressGeneric(ctx, mem, source, size, cap, Directive(size, cap), TypeFor(size), "noDict",
                  FALSE, accel)

CompressFastReset(ctx, mem, source, size, cap, accel) ==
  LET ready == PrepareTable(ctx, size, TypeFor(size))
  IN CompressGeneric(ready, mem, source, size, cap, Directive(size, cap), TypeFor(size), "noDict",
                     TypeFor(size) = "byU16" /\ ready.currentOffset # 0, accel)

(* LZ4_compress_destSize: as much of the source as fits into cap bytes. *)
CompressDestSize(mem, source, size, cap) ==
  IF cap >= CompressBound(size)
  THEN [CompressExtState(InitStream, mem, source, size, cap, 1) EXCEPT !.consumed = size]
  ELSE CompressGeneric(InitStream, mem, source, size, cap, "fillOutput", TypeFor(size), "noDict",
                       FALSE, 1)
=============================================================================
