------------------------------- MODULE LzHigh -------------------------------
(***************************************************************************)
(* The compressor of lz4-1.9.4/lib/lz4hc.c: a context whose tables chain     *)
(* the positions of one hash, a search along these chains for a wider match,  *)
(* and two parsers, one that weighs three matches against each other and one  *)
(* that prices every way to write what lies ahead.  It writes the blocks of    *)
(* LzBlock, whose memories, limits and end of a block are used here.          *)
(***************************************************************************)
EXTENDS LzBlock

CONSTANTS clTable,    \* of a level: optimal parser or not, nbSearches, targetLength
          OPT_NUM,    \* LZ4_OPT_NUM (4096)
          PATTERN,    \* more attempts than this analyse patterns (128)
          TRIGGER,    \* 2^kTrigger (16)
          GB2         \* 2 GB

ASSUME HighAssumption ==
  /\ OPT_NUM > MASK + MINMATCH /\ TRIGGER \in Nat \ {0} /\ GB2 > KB64
  /\ \A l \in DOMAIN clTable : clTable[l].nbSearches > 0 /\ clTable[l].targetLength > 0

OPTIMAL_ML == MASK - 1 + MINMATCH
TRAILING_LITERALS == MINMATCH - 1

(***************************************************************************)
(* The context.                                                            *)
(***************************************************************************)
InitStreamHC(level) ==
  [hashTable |-> ZeroTable, chainTable |-> [k \in 0 .. KB64 - 1 |-> 0], end |-> NULL,
   prefixStart |-> NULL, dictStart |-> NULL, dictLimit |-> 0, lowLimit |-> 0, nextToUpdate |-> 0,
   compressionLevel |-> level, favorDecSpeed |-> FALSE, dirty |-> FALSE, dictCtx |-> <<>>]

clearTables(c) == [c EXCEPT !.hashTable = ZeroTable, !.chainTable = [k \in 0 .. KB64 - 1 |-> DISTANCE_MAX]]

init_internal(c, start) ==
  LET grown == c.end - c.prefixStart + c.dictLimit
      offset == KB64 + IF grown > GB1 THEN 0 ELSE grown
  IN [IF grown > GB1 THEN clearTables(c) ELSE c EXCEPT
        !.nextToUpdate = offset, !.prefixStart = start, !.end = start, !.dictStart = start,
        !.dictLimit = offset, !.lowLimit = offset]

HashPtr(mem, p) == Hash[Bytes(mem, p, MINMATCH)]
Delta(c, index) == c.chainTable[index % KB64]

(* The chains up to ip: each position leads to the one before it of its hash. *)
Insert(c, mem, ip) ==
  LET target == ip - c.prefixStart + c.dictLimit
      after[idx \in c.nextToUpdate .. Max({target, c.nextToUpdate})] ==
        IF idx = c.nextToUpdate THEN [hash |-> c.hashTable, chain |-> c.chainTable]
        ELSE LET t == after[idx - 1]
                 h == HashPtr(mem, c.prefixStart + idx - 1 - c.dictLimit)
             IN [hash |-> [t.hash EXCEPT ![h] = idx - 1],
                 chain |-> [t.chain EXCEPT ![(idx - 1) % KB64] = Min({idx - 1 - t.hash[h], DISTANCE_MAX})]]
      last == after[Max({target, c.nextToUpdate})]
  IN [c EXCEPT !.hashTable = last.hash, !.chainTable = last.chain, !.nextToUpdate = target]

(***************************************************************************)
(* LZ4HC_InsertAndGetWiderMatch.  Q is the query: the context c, mem, the     *)
(* position ip, the lowest and highest addresses low and high that a match    *)
(* may cover, and how to search.  L is the state of the loop: the index i,     *)
(* the attempts left, and the match so far, len bytes from start on.          *)
(***************************************************************************)
Address(c, i) == IF i >= c.dictLimit THEN c.prefixStart + i - c.dictLimit
                 ELSE c.dictStart + i - c.lowLimit
Virtual(c, i) == c.prefixStart - c.dictLimit + i
HCDictEnd(c) == c.dictStart + c.dictLimit - c.lowLimit

RECURSIVE countBack(_, _, _, _, _)
countBack(mem, ip, match, iMin, mMin) ==
  IF ip > iMin /\ match > mMin /\ mem[ip - 1] = mem[match - 1]
  THEN 1 + countBack(mem, ip - 1, match - 1, iMin, mMin) ELSE 0

RECURSIVE countPattern(_, _, _, _), reverseCountPattern(_, _, _, _)
countPattern(mem, p, limit, byte) ==
  IF p < limit /\ mem[p] = byte THEN 1 + countPattern(mem, p + 1, limit, byte) ELSE 0
reverseCountPattern(mem, p, low, byte) ==
  IF p > low /\ mem[p - 1] = byte THEN 1 + reverseCountPattern(mem, p - 1, low, byte) ELSE 0

protectDictEnd(dictLimit, i) == i >= dictLimit \/ dictLimit - 1 - i >= MINMATCH - 1

Same(mem, p, q, n) == Bytes(mem, p, n) = Bytes(mem, q, n)
NoMatch == [len |-> 0, back |-> 0]
Reached(n, back) == [len |-> n + back, back |-> back]

(* What a candidate at address m gives: in the prefix, in the external          *)
(* dictionary, which the prefix continues, or in the dictionary context.        *)
InPrefix(Q, m, longest) ==
  IF /\ Same(Q.mem, Q.low + longest - 1, m - (Q.ip - Q.low) + longest - 1, 2)
     /\ Same(Q.mem, m, Q.ip, MINMATCH)
  THEN Reached(MINMATCH + Count(Q.mem, Q.ip + MINMATCH, m + MINMATCH, Q.high),
               countBack(Q.mem, Q.ip, m, Q.low, Q.c.prefixStart))
  ELSE NoMatch

InDictionary(Q, m, start, left) ==
  LET limit == Min({Q.ip + left, Q.high})
      n == MINMATCH + Count(Q.mem, Q.ip + MINMATCH, m + MINMATCH, limit)
  IN Reached(n, countBack(Q.mem, Q.ip, m, Q.low, start))

InExtDict(Q, m, i) ==
  IF i <= Q.c.dictLimit - MINMATCH /\ Same(Q.mem, m, Q.ip, MINMATCH)
  THEN LET r == InDictionary(Q, m, Q.c.dictStart, Q.c.dictLimit - i)
           limit == Q.ip + r.len - r.back
       IN IF limit = Q.ip + Q.c.dictLimit - i /\ limit < Q.high
          THEN [r EXCEPT !.len = @ + Count(Q.mem, limit, Q.c.prefixStart, Q.high)] ELSE r
  ELSE NoMatch

Tried(Q, L) ==
  CASE Q.favor /\ Q.ipIndex - L.i < WILDCOPYLENGTH -> NoMatch
    [] ~(Q.favor /\ Q.ipIndex - L.i < WILDCOPYLENGTH) /\ L.i >= Q.c.dictLimit -> InPrefix(Q, Address(Q.c, L.i), L.len)
    [] OTHER -> InExtDict(Q, Address(Q.c, L.i), L.i)

Better(Q, L, r) ==
  IF r.len > L.len THEN [L EXCEPT !.len = r.len, !.match = Virtual(Q.c, L.i) - r.back,
                                  !.start = Q.ip - r.back]
  ELSE L

(* The chain of another of the match's positions that leads further back.       *)
RECURSIVE BestChain(_, _, _, _, _, _)
BestChain(Q, L, pos, accel, dist, at) ==
  LET next == Delta(Q.c, L.i + pos)
  IN IF pos > L.len - MINMATCH THEN [dist |-> dist, pos |-> at]
     ELSE IF next > dist THEN BestChain(Q, L, pos + (accel \div TRIGGER), TRIGGER, next, pos)
     ELSE BestChain(Q, L, pos + (accel \div TRIGGER), accel + 1, dist, at)

(* A candidate before the index i within a run of the byte at ip: how far the   *)
(* run goes on from it, and how far it goes back.                              *)
RunForward(Q, p, ext) ==
  LET n == MINMATCH + countPattern(Q.mem, p + MINMATCH, IF ext THEN HCDictEnd(Q.c) ELSE Q.high, Q.mem[Q.ip])
  IN n + IF ext /\ p + n = HCDictEnd(Q.c)
         THEN countPattern(Q.mem, Q.c.prefixStart, Q.high, Q.mem[Q.ip]) ELSE 0
RunBack(Q, p, ext, i) ==
  LET b == reverseCountPattern(Q.mem, p, IF ext THEN Q.c.dictStart ELSE Q.c.prefixStart, Q.mem[Q.ip])
      all == b + IF ~ext /\ p - b = Q.c.prefixStart /\ Q.c.lowLimit < Q.c.dictLimit
                 THEN reverseCountPattern(Q.mem, HCDictEnd(Q.c), Q.c.dictStart, Q.mem[Q.ip]) ELSE 0
  IN i - Max({i - all, Q.lowest})

Stop(L) == [L EXCEPT !.i = NULL]
Farther(Q, L) == IF Delta(Q.c, L.i) > L.i THEN Stop(L) ELSE [L EXCEPT !.i = @ - Delta(Q.c, L.i)]

(* Mutant of AlongRun: the run ahead of ip is not a limit. *)
AlongRun_Unlimited(Q, L, i, forward, back) ==
  LET to(n) == IF protectDictEnd(Q.c.dictLimit, n) THEN n ELSE Q.c.dictLimit
      first == i - back
      found == [L EXCEPT !.i = first, !.len = Max({@, back + forward}),
                         !.match = IF L.len < back + forward THEN Virtual(Q.c, first) ELSE @,
                         !.start = IF L.len < back + forward THEN Q.ip ELSE @]
  IN CASE back + forward >= L.n /\ forward <= L.n -> [L EXCEPT !.i = to(i + forward - L.n)]
       [] ~(back + forward >= L.n /\ forward <= L.n) /\ (to(first) # first \/ Q.low < Q.ip) -> [L EXCEPT !.i = to(first)]
       [] OTHER -> Farther(Q, found)
(* Of that run, the place where the run at ip ends as it does, or its          *)
(* beginning, which is a match of as many bytes as both have.                  *)
AlongRun(Q, L, i, forward, back) ==
  LET to(n) == IF protectDictEnd(Q.c.dictLimit, n) THEN n ELSE Q.c.dictLimit
      first == i - back
      maxML == Min({back + forward, L.n})
      found == [L EXCEPT !.i = first, !.len = maxML, !.match = Virtual(Q.c, first), !.start = Q.ip]
  IN CASE back + forward >= L.n /\ forward <= L.n -> [L EXCEPT !.i = to(i + forward - L.n)]
       [] ~(back + forward >= L.n /\ forward <= L.n) /\ (to(first) # first \/ Q.low < Q.ip) -> [L EXCEPT !.i = to(first)]
       [] OTHER -> IF L.len >= maxML THEN Farther(Q, [L EXCEPT !.i = first])
                   ELSE IF Q.ipIndex - first > DISTANCE_MAX THEN Stop(L)
                   ELSE Farther(Q, found)

(* Where the loop goes on after the candidate L.i was tried.                   *)
IsRun(Q) == \A k \in 1 .. MINMATCH - 1 : Q.mem[Q.ip + k] = Q.mem[Q.ip]
Measure(Q, L) ==
  [L EXCEPT !.repeat = IF IsRun(Q) THEN "confirmed" ELSE "not",
            !.n = IF IsRun(Q) THEN MINMATCH + countPattern(Q.mem, Q.ip + MINMATCH, Q.high, Q.mem[Q.ip]) ELSE 0]
ChainOn(Q, L) == [L EXCEPT !.i = @ - Delta(Q.c, @ + L.chainPos)]
FollowChain(Q, L) ==
  LET K == IF L.repeat = "untested" THEN Measure(Q, L) ELSE L
      i == L.i - 1
      ext == i < Q.c.dictLimit
      p == Address(Q.c, i)
  IN IF ~(Q.pattern /\ Delta(Q.c, L.i) = 1 /\ L.chainPos = 0) THEN ChainOn(Q, L)
     ELSE IF /\ K.repeat = "confirmed" /\ i >= Q.lowest /\ protectDictEnd(Q.c.dictLimit, i)
             /\ Same(Q.mem, p, Q.ip, MINMATCH)
     THEN AlongRun(Q, K, i, RunForward(Q, p, ext), RunBack(Q, p, ext, i))
     ELSE ChainOn(Q, K)

Swapped(Q, L, chain) ==
  IF chain.dist = 1 THEN FollowChain(Q, L)
  ELSE IF chain.dist > L.i THEN Stop(L)
  ELSE [L EXCEPT !.i = @ - chain.dist, !.chainPos = chain.pos]
Onward(Q, L, r) ==
  IF Q.swap /\ r.len = L.len /\ L.i + L.len <= Q.ipIndex
  THEN Swapped(Q, L, BestChain(Q, L, 0, TRIGGER, 1, L.chainPos)) ELSE FollowChain(Q, L)

RECURSIVE Chain(_, _), DictChain(_, _, _, _)
Turn(Q, L, r) == Onward(Q, Better(Q, L, r), r)
Chain(Q, L) ==
  IF L.i < Q.lowest \/ L.left = 0 THEN L
  ELSE Chain(Q, Turn(Q, [L EXCEPT !.left = @ - 1], Tried(Q, L)))

(* The chain of the attached context d, at its index i; its end lies where the   *)
(* current context begins.                                                   *)
DictChain(Q, d, L, i) ==
  LET m == d.prefixStart - d.dictLimit + i
      end == d.end - d.prefixStart + d.dictLimit
      K == [L EXCEPT !.i = i + Q.lowest - end, !.left = @ - 1]
  IN IF Q.ipIndex - (i + Q.lowest - end) > DISTANCE_MAX \/ L.left = 0 THEN L
     ELSE DictChain(Q, d, IF Same(Q.mem, m, Q.ip, MINMATCH)
                          THEN Better(Q, K, InDictionary(Q, m, d.prefixStart, end - i)) ELSE K,
                    i - Delta(d, i))

Query(E, c, ip, low) ==
  LET ipIndex == ip - c.prefixStart + c.dictLimit
  IN [c |-> c, mem |-> E.mem, ip |-> ip, low |-> low, high |-> matchlimit(E), ipIndex |-> ipIndex,
      lowest |-> IF c.lowLimit + DISTANCE_MAX + 1 > ipIndex THEN c.lowLimit ELSE ipIndex - DISTANCE_MAX,
      pattern |-> E.optimal \/ E.attempts > PATTERN, swap |-> E.optimal, favor |-> E.favor]

Searching(E, Q, longest) ==
  LET L == Chain(Q, [i |-> Q.c.hashTable[HashPtr(Q.mem, Q.ip)], left |-> E.attempts, chainPos |-> 0,
                     repeat |-> "untested", n |-> 0, len |-> longest, match |-> NULL, start |-> NULL])
  IN IF E.usesDictCtx /\ L.left > 0 /\ Q.ipIndex - Q.lowest < DISTANCE_MAX
     THEN DictChain(Q, Q.c.dictCtx[1], L, Q.c.dictCtx[1].hashTable[HashPtr(Q.mem, Q.ip)]) ELSE L

(* The context and a match of more than `longest' bytes, if one was found. *)
WithContext(c, L) == [c |-> c, len |-> L.len, match |-> L.match, start |-> L.start]
SearchIn(E, c, ip, low, longest) == WithContext(c, Searching(E, Query(E, c, ip, low), longest))
InsertAndGetWiderMatch(E, c, ip, low, longest) == SearchIn(E, Insert(c, E.mem, ip), ip, low, longest)
=============================================================================
