---------------------------- MODULE LzHighParser ----------------------------
(***************************************************************************)
(* The two parsers of lz4-1.9.4/lib/lz4hc.c and the calls that use them: the  *)
(* hash chain compressor, which holds back up to three overlapping matches,    *)
(* the optimal one, and streams with a dictionary that is loaded, attached or   *)
(* saved.  E holds what does not change during a call.  S is the state of a     *)
(* parser: anchor, op and seqs as in LzBlock, as its table the whole context,   *)
(* the step that comes next, ip, the matches m0 to m2 of the first parser and    *)
(* the prices opt, cur and last of the second.                                 *)
(***************************************************************************)
EXTENDS LzHigh

(***************************************************************************)
(* LZ4HC_encodeSequence, for a match m.                                      *)
(***************************************************************************)
End(m) == m.start + m.len
FillEnd(E) == E.olimit - IF E.directive = "fillOutput" THEN LASTLITERALS ELSE 0
AfterLiterals(S, m) == S.op + 1 + Extra(m.start - S.anchor) + m.start - S.anchor

Fits(E, S, m) ==
  LET n == m.start - S.anchor
      code == m.len - MINMATCH
  IN E.directive = "notLimited" \/
       /\ S.op + 1 + (n \div BYTE) + n + 2 + 1 + LASTLITERALS <= FillEnd(E)
       /\ AfterLiterals(S, m) + 2 + (code \div BYTE) + 1 + LASTLITERALS <= FillEnd(E)

Encoded(E, S, m) ==
  [S EXCEPT !.anchor = End(m), !.ip = End(m),
            !.op = AfterLiterals(S, m) + 2 + Extra(m.len - MINMATCH),
            !.seqs = Append(@, [lit |-> Bytes(E.mem, S.anchor, m.start - S.anchor),
                                offset |-> m.start - m.match, match |-> m.len])]

Then(S, step) == [S EXCEPT !.step = step]
Encode(E, S, m, step) ==
  IF Fits(E, S, m) THEN Then(Encoded(E, S, m), step) ELSE Then([S EXCEPT !.m1 = m], "overflow")

(* _dest_overflow: of the match m1 as much as there is room for, or none.     *)
DestOverflow(E, S) ==
  LET m == S.m1
      ll == m.start - S.anchor
      cost == 1 + ((ll + BYTE - MASK) \div BYTE) + ll
      left == FillEnd(E) - 3 - (S.op + cost)
      ml == Min({m.len, MINMATCH + MASK - 1 + (left * BYTE)})
  IN IF E.directive # "fillOutput" THEN [Then(S, "done") EXCEPT !.r = Failed(S.table)]
     ELSE IF left >= 0 /\ E.olimit - (S.op + cost + 2) - 1 + ml >= MFLIMIT
     THEN Then(Encoded(E, S, [m EXCEPT !.len = ml]), "last") ELSE Then(S, "last")

LastLiterals(E, S) == [Then(S, "done") EXCEPT !.r = LastRun(E, S)]

(***************************************************************************)
(* LZ4HC_compress_hashChain.  m1 is the match held back, m0 what it was before *)
(* a longer one replaced it, m2 a wider match that begins behind m1.          *)
(***************************************************************************)
Later(m, n) == [m EXCEPT !.start = @ + n, !.match = @ + n, !.len = @ - n]

(* The length left of m1, and m2 behind it, if both are worth a sequence.      *)
Short(m1, m2) == Min({m1.len, OPTIMAL_ML, m2.start - m1.start + m2.len - MINMATCH})
Behind(m1, m2) ==
  LET gap == m2.start - m1.start
  IN IF gap < OPTIMAL_ML /\ Short(m1, m2) > gap THEN Later(m2, Short(m1, m2) - gap) ELSE m2
Before(m1, m2) ==
  LET gap == m2.start - m1.start
  IN IF gap >= m1.len THEN m1
     ELSE [m1 EXCEPT !.len = IF gap < OPTIMAL_ML THEN Short(m1, m2) ELSE gap]

Search2(S, m0, m1) == [Then(S, "second") EXCEPT !.m0 = m0, !.m1 = m1]
Search3(S, m1, m2) == [Then(S, "third") EXCEPT !.m1 = m1, !.m2 = Behind(m1, m2)]

FirstMatch(S, w) ==
  IF w.len < MINMATCH THEN [S EXCEPT !.ip = @ + 1] ELSE Search2(S, w, w)

Second(E, S, w) ==
  LET m1 == IF S.m0.start < S.m1.start /\ w.start < S.m1.start + S.m0.len THEN S.m0 ELSE S.m1
  IN IF w.len = S.m1.len THEN Encode(E, S, S.m1, "first")
     ELSE IF w.start - m1.start < MINMATCH - 1 THEN Search2(S, S.m0, w)
     ELSE Search3(S, m1, w)

(* m1 and m2 are all there is: m1 as far as m2, then m2. *)
EncodeBoth(E, S, m1, m2) ==
  LET first == IF m2.start < End(m1) THEN [m1 EXCEPT !.len = m2.start - m1.start] ELSE m1
  IN IF Fits(E, S, first) THEN Encode(E, Encoded(E, S, first), m2, "first")
     ELSE Encode(E, S, first, "first")

(* m3 begins close behind m1, which can be written; m2 may come back. *)
Remains(m1, m2, m3) ==
  LET n == End(m1) - m2.start
  IN IF n <= 0 THEN m2 ELSE IF m2.len - n < MINMATCH THEN m3 ELSE Later(m2, n)

(* Three matches that are worth a sequence each: the first is written.         *)
Ascending(E, S, m1, m2, m3) ==
  IF Fits(E, S, Before(m1, m2))
  THEN Search3(Encoded(E, S, Before(m1, m2)), IF m2.start < End(m1) THEN Behind(m1, m2) ELSE m2, m3)
  ELSE Encode(E, S, Before(m1, m2), "first")

Third(E, S, w) ==
  CASE w.len = S.m2.len -> EncodeBoth(E, S, S.m1, S.m2)
    [] w.len # S.m2.len /\ w.start >= End(S.m1) + MINMATCH - 1 -> Ascending(E, S, S.m1, S.m2, w)
    [] w.len # S.m2.len /\ w.start < End(S.m1) -> Search3(S, S.m1, w)
    [] OTHER -> IF Fits(E, S, S.m1)
                THEN Search2(Encoded(E, S, S.m1), Remains(S.m1, S.m2, w), w) ELSE Encode(E, S, S.m1, "first")

(***************************************************************************)
(* LZ4HC_compress_optimal.  opt[p] is the best way found to reach position p   *)
(* from ip: by a literal (mlen 1) or a match, behind litlen literals.         *)
(***************************************************************************)
LiteralsPrice(litlen) == litlen + Extra(litlen)
SequencePrice(litlen, mlen) == 1 + 2 + LiteralsPrice(litlen) + Extra(mlen - MINMATCH)
Literal(litlen, price) == [mlen |-> 1, off |-> 0, litlen |-> litlen, price |-> price]
Way(mlen, off, litlen, price) == [mlen |-> mlen, off |-> off, litlen |-> litlen, price |-> price]

(* What LZ4HC_FindLongerMatch makes of a wider match than `longest' bytes. *)
Longer(E, w, longest) ==
  LET short == E.favor /\ w.len > OPTIMAL_ML /\ w.len <= 2 * OPTIMAL_ML
  IN [off |-> w.start - w.match,
      len |-> IF w.len <= longest THEN 0 ELSE IF short THEN OPTIMAL_ML ELSE w.len]
Sufficient(E) == Min({E.targetLength, OPT_NUM - 1})

(* Behind the last position that a match reaches, literals. *)
Trailed(opt, last) ==
  [p \in DOMAIN opt |-> IF p \in last + 1 .. last + TRAILING_LITERALS
                        THEN Literal(p - last, opt[last].price + LiteralsPrice(p - last)) ELSE opt[p]]

FirstPrices(llen, m) ==
  Trailed([p \in 0 .. OPT_NUM + TRAILING_LITERALS - 1 |->
             IF p >= MINMATCH /\ p <= m.len THEN Way(p, m.off, llen, SequencePrice(llen, p))
             ELSE Literal(llen + p, LiteralsPrice(llen + p))], m.len)

(* The prices behind cur, if literals follow it, or a part of the match m.     *)
WithMatch(E, S, m) ==
  LET o == S.opt[S.cur]
      lits == IF o.mlen = 1 THEN o.litlen ELSE 0
      base == IF o.mlen # 1 THEN o.price ELSE IF S.cur > lits THEN S.opt[S.cur - lits].price ELSE 0
      way(n) == Literal(o.litlen + n, o.price - LiteralsPrice(o.litlen) + LiteralsPrice(o.litlen + n))
      near == [p \in DOMAIN S.opt |-> IF p - S.cur \in 1 .. MINMATCH - 1 /\ way(p - S.cur).price < S.opt[p].price
                                      THEN way(p - S.cur) ELSE S.opt[p]]
      cost(p) == base + SequencePrice(lits, p - S.cur)
      better(p) == p > S.last + TRAILING_LITERALS \/ cost(p) <= near[p].price - IF E.favor THEN 1 ELSE 0
      end == IF better(S.cur + m.len) THEN Max({S.last, S.cur + m.len}) ELSE S.last
      far == [p \in DOMAIN S.opt |-> IF p - S.cur \in MINMATCH .. m.len /\ better(p)
                                     THEN Way(p - S.cur, m.off, lits, cost(p)) ELSE near[p]]
  IN [S EXCEPT !.last = end, !.opt = Trailed(far, end)]

(* The next position from p on where a search may pay, or the end of them.     *)
NoUse(E, S, p) ==
  /\ S.opt[p + 1].price <= S.opt[p].price
  /\ E.ultra => S.opt[p + MINMATCH].price < S.opt[p].price + 3
NextUseful(E, S, from) ==
  [S EXCEPT !.cur = Min({p \in from .. Max({from, S.last}) :
                           p >= S.last \/ S.ip + p >= mflimitPlusOne(E) \/ ~NoUse(E, S, p)})]

(* The steps of the way that ends in the step m from position p. *)
RECURSIVE Path(_, _, _), EncodePath(_, _, _, _)
Path(opt, p, m) ==
  IF opt[p].mlen > p THEN <<m>> ELSE Append(Path(opt, p - opt[p].mlen, opt[p]), m)
EncodePath(E, S, path, k) ==
  IF k > Len(path) \/ S.step = "overflow" THEN S
  ELSE EncodePath(E, IF path[k].mlen = 1 THEN [S EXCEPT !.ip = @ + 1]
                     ELSE Encode(E, S, [start |-> S.ip, match |-> S.ip - path[k].off, len |-> path[k].mlen],
                                 "optimal"), path, k + 1)
EncodeTo(E, S, p, mlen, off) == EncodePath(E, Then(S, "optimal"), Path(S.opt, p, Way(mlen, off, 0, 0)), 1)

FirstOptimal(E, S, m) ==
  IF m.len = 0 THEN [S EXCEPT !.ip = @ + 1]
  ELSE IF m.len > Sufficient(E)
  THEN Encode(E, S, [start |-> S.ip, match |-> S.ip - m.off, len |-> m.len], "optimal")
  ELSE NextUseful(E, [Then(S, "price") EXCEPT !.opt = FirstPrices(S.ip - S.anchor, m), !.last = m.len], 1)

Price(E, S, m) ==
  CASE S.cur >= S.last \/ S.ip + S.cur >= mflimitPlusOne(E) ->
         EncodeTo(E, S, S.last - S.opt[S.last].mlen, S.opt[S.last].mlen, S.opt[S.last].off)
    [] S.cur < S.last /\ S.ip + S.cur < mflimitPlusOne(E)
         /\ (m.len > Sufficient(E) \/ m.len + S.cur >= OPT_NUM) -> EncodeTo(E, S, S.cur, m.len, m.off)
    [] OTHER -> NextUseful(E, IF m.len = 0 THEN S ELSE WithMatch(E, S, m), S.cur + 1)

(***************************************************************************)
(* One turn of either parser: the search that the step asks for, and then      *)
(* what it does with what was found.                                         *)
(***************************************************************************)
Asked(E, S) ==
  LET wider(m, back) == [at |-> End(m) - back, low |-> m.start, longest |-> m.len,
                         any |-> End(m) < mflimitPlusOne(E)]
      from(ip, longest) == [at |-> ip, low |-> ip, longest |-> longest, any |-> ip < mflimitPlusOne(E)]
  IN CASE S.step \in {"first", "optimal"} -> from(S.ip, MINMATCH - 1)
       [] S.step = "second" -> wider(S.m1, MINMATCH \div 2)
       [] S.step = "third" -> wider(S.m2, MINMATCH - 1)
       [] S.step = "price" /\ S.cur < S.last ->
            from(S.ip + S.cur, IF E.ultra THEN MINMATCH - 1 ELSE S.last - S.cur)
       [] OTHER -> [from(S.ip, MINMATCH - 1) EXCEPT !.any = FALSE]

Wider(E, S, q) ==
  IF q.any THEN InsertAndGetWiderMatch(E, S.table, q.at, q.low, q.longest)
  ELSE [c |-> S.table, len |-> q.longest, match |-> NULL, start |-> NULL]

Stepped(E, S, q, w) ==
  CASE S.step \in {"first", "optimal"} /\ ~q.any -> Then(S, "last")
    [] S.step = "first" /\ q.any -> FirstMatch(S, w)
    [] S.step = "second" -> Second(E, S, w)
    [] S.step = "third" -> Third(E, S, w)
    [] S.step = "optimal" /\ q.any -> FirstOptimal(E, S, Longer(E, w, q.longest))
    [] S.step = "price" -> Price(E, S, Longer(E, w, q.longest))
    [] S.step = "overflow" -> DestOverflow(E, S)
    [] S.step = "last" -> LastLiterals(E, S)

SteppedWith(E, S, q, w) == Stepped(E, [S EXCEPT !.table = w.c], q, w)
ParserTurn(E, S, q) == SteppedWith(E, S, q, Wider(E, S, q))
RECURSIVE Parse(_, _)
Parse(E, S) == IF S.step = "done" THEN S.r ELSE Parse(E, ParserTurn(E, S, Asked(E, S)))

(***************************************************************************)
(* The calls.                                                              *)
(***************************************************************************)
LeftHC(r) == Returned(r, [r.table EXCEPT !.dirty = @ \/ r.size <= 0])
GenericInternal(c, mem, source, size, cap, level, directive, usesDictCtx) ==
  LET E == [mem |-> mem, source |-> source, iend |-> source + size, olimit |-> cap,
            directive |-> directive, usesDictCtx |-> usesDictCtx,
            optimal |-> clTable[level].optimal, favor |-> clTable[level].optimal /\ c.favorDecSpeed,
            attempts |-> clTable[level].nbSearches, targetLength |-> clTable[level].targetLength,
            ultra |-> level = Len(clTable)]
      m == [c |-> c, start |-> source, match |-> NULL, len |-> 0]
      S == [anchor |-> source, op |-> 0, seqs |-> <<>>, table |-> [c EXCEPT !.end = @ + size],
            step |-> IF E.optimal THEN "optimal" ELSE IF size < MFLIMIT + 1 THEN "last" ELSE "first",
            ip |-> source, m0 |-> m, m1 |-> m, m2 |-> m, opt |-> <<>>, cur |-> 0, last |-> 0, r |-> <<>>]
  IN IF directive = "fillOutput" /\ cap < 1 THEN Returned(Failed(c), c) ELSE LeftHC(Parse(E, S))

SetExternalDict(c0, mem, newBlock) ==
  LET c == IF c0.end >= c0.prefixStart + MINMATCH THEN Insert(c0, mem, c0.end - (MINMATCH - 1)) ELSE c0
      limit == c.dictLimit + c.end - c.prefixStart
  IN [c EXCEPT !.lowLimit = c.dictLimit, !.dictStart = c.prefixStart, !.dictLimit = limit,
               !.prefixStart = newBlock, !.end = newBlock, !.nextToUpdate = limit, !.dictCtx = <<>>]

(* The context of a call that has an attached dictionary, or has none.        *)
Position(c) == c.end - c.prefixStart + c.dictLimit - c.lowLimit
ReadyFor(c, mem, source, size, level) ==
  CASE c.dictCtx = <<>> \/ Position(c) >= KB64 -> [c EXCEPT !.dictCtx = <<>>]
    [] c.dictCtx # <<>> /\ Position(c) = 0 /\ size > KB4 ->
         [SetExternalDict(c.dictCtx[1], mem, source) EXCEPT !.compressionLevel = level]
    [] OTHER -> c
InContext(c, mem, source, size, cap, level, directive) ==
  GenericInternal(c, mem, source, size, cap, level, directive, c.dictCtx # <<>>)
CompressGenericHC(c, mem, source, size, cap, level, directive) ==
  InContext(ReadyFor(c, mem, source, size, level), mem, source, size, cap, level, directive)

ResetStreamHCFast(c, level) ==
  IF c.dirty THEN InitStreamHC(level)
  ELSE [c EXCEPT !.end = NULL + @ - c.prefixStart, !.prefixStart = NULL, !.dictCtx = <<>>,
                 !.compressionLevel = level]

CompressHCFastReset(c, mem, source, size, cap, level) ==
  CompressGenericHC(init_internal(ResetStreamHCFast(c, level), source), mem, source, size, cap, level,
                    Directive(size, cap))

CompressHCDestSize(mem, source, size, cap, level) ==
  CompressGenericHC(init_internal(InitStreamHC(level), source), mem, source, size, cap, level, "fillOutput")

LoadDictHC(level, mem, dictionary, dictSize) ==
  LET n == Min({dictSize, KB64})
      start == dictionary + dictSize - n
      c == [init_internal(InitStreamHC(level), start) EXCEPT !.end = start + n]
  IN IF n >= MINMATCH THEN Insert(c, mem, c.end - (MINMATCH - 1)) ELSE c

AttachHC(c, dictionaryStream) == [c EXCEPT !.dictCtx = <<dictionaryStream>>]

(* What is left of an external dictionary that the source runs over. *)
OverlapCut(c, source, size) ==
  LET cut == Min({source + size, HCDictEnd(c)}) - c.dictStart
      left == c.dictLimit - c.lowLimit - cut
  IN IF ~(source + size > c.dictStart /\ source < HCDictEnd(c)) THEN c
     ELSE IF left < MINMATCH THEN [c EXCEPT !.lowLimit = c.dictLimit, !.dictStart = c.prefixStart]
     ELSE [c EXCEPT !.lowLimit = @ + cut, !.dictStart = @ + cut]

ReadyHC(c, mem, source) ==
  LET started == IF c.prefixStart = NULL THEN init_internal(c, source) ELSE c
      n == Min({started.end - started.prefixStart, KB64})
      renewed == IF started.end - started.prefixStart + started.dictLimit > GB2
                 THEN LoadDictHC(c.compressionLevel, mem, started.end - n, n) ELSE started
  IN IF source # renewed.end THEN SetExternalDict(renewed, mem, source) ELSE renewed

ContinueHC(c, mem, source, size, cap, directive) ==
  CompressGenericHC(OverlapCut(ReadyHC(c, mem, source), source, size), mem, source, size, cap,
                    c.compressionLevel, directive)

SaveDictHC(c, mem, to, dictSize) ==
  LET asked == Min({dictSize, KB64})
      n == Min({IF asked < MINMATCH THEN 0 ELSE asked, c.end - c.prefixStart})
      limit == c.end - c.prefixStart + c.dictLimit - n
  IN [bytes |-> Bytes(mem, c.end - n, n),
      ctx |-> [c EXCEPT !.end = to + n, !.prefixStart = to, !.dictStart = to, !.dictLimit = limit,
                        !.lowLimit = limit, !.nextToUpdate = Max({@, limit})]]
=============================================================================
