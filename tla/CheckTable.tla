----------------------------- MODULE CheckTable -----------------------------
(***************************************************************************)
(* The table of one width and mode (a DST): what DecodingTest generates    *)
(* and what main looks codewords up in.  It maps the first byte of a       *)
(* codeword to a HeadNode: a value, if the codeword is that byte, or else  *)
(* a table that maps the second byte to a State: a value, if no other      *)
(* codeword starts with these two bytes, or a decoder that has read them.  *)
(***************************************************************************)
EXTENDS AthCalls, SequencesExt, FiniteSetsExt

Empty == [k \in {} |-> k]
Put(f, k, v) == [x \in DOMAIN f \cup {k} |-> IF x = k THEN v ELSE f[x]]
Get(f, k, default) == IF k \in DOMAIN f THEN f[k] ELSE default

\* What operator[] makes of a key that is missing: a node, a State of zeros.
NewNode   == [end |-> FALSE, value |-> 0, table |-> Empty]
ZeroEntry == [end |-> FALSE, prebuildState |-> ZeroState]

\* Mutant of CommonLength: the last bit that two of the values differ in.
CommonLength_Last(values, d) ==
  LET differing == {i \in 1..(d - 1) : \E v, w \in values : (v \div 2^i) % 2 # (w \div 2^i) % 2}
  IN  IF differing = {} THEN 0 ELSE Max(differing)

\* The first bit other than bit 0 that two of the values differ in; 0 when there is none.
CommonLength(values, d) ==
  LET differing == {i \in 1..(d - 1) : \E v, w \in values : (v \div 2^i) % 2 # (w \div 2^i) % 2}
  IN  IF differing = {} THEN 0 ELSE Min(differing)

\* The State of the results, whose codewords start with the same two bytes.
EntryOf(results, d, mode) ==
  LET r == CHOOSE q \in results : TRUE
      prebuildStates == AthDecoding_prebuild(r.code \o <<0, 0, 0, 0>>, d, 2,
                                             CommonLength({q.value : q \in results}, d), mode)
  IN  IF results = {r} THEN [end |-> TRUE, value |-> r.value, length |-> Len(r.code)]
      ELSE [end |-> FALSE, prebuildState |-> CHOOSE p \in prebuildStates : TRUE]

\* The results whose codewords have the byte b in place n.
WithByte(results, n, b) == {r \in results : r.code[n] = b}

\* The HeadNode of the results, whose codewords start with the same byte.
NodeOf(results, d, mode) ==
  IF \E r \in results : Len(r.code) = 1
    THEN [NewNode EXCEPT !.end = TRUE, !.value = (CHOOSE r \in results : TRUE).value]
    ELSE [NewNode EXCEPT !.table =
            [s \in {r.code[2] : r \in results} |-> EntryOf(WithByte(results, 2, s), d, mode)]]

\* The values of a width, each with its codeword.
Results(d, mode) == {[value |-> v, code |-> AthEncoding(v, d, mode)] : v \in 0..(2^d - 1)}

\* The table of a width and mode, as one function of them: every codeword is in it.
TableOf(d, mode) ==
  LET results == Results(d, mode)
  IN  [h \in {r.code[1] : r \in results} |-> NodeOf(WithByte(results, 1, h), d, mode)]

----------------------------------------------------------------------------
(* The lookup of DecodingTest's check and of main: the value and the bytes *)
(* of memory that its codeword takes; {} when AthDecoding_fast asserts.    *)

EntryFor(node, memory) == Get(node.table, memory[2], ZeroEntry)

\* Mutant of Lookup: the length of a State that ends is taken for two bytes.
Lookup_TwoBytes(table, memory, d, mode) ==
  LET node  == Get(table, memory[1], NewNode)
      state == EntryFor(node, memory)
  IN  IF node.end THEN {[value |-> node.value, usedLength |-> 1]}
      ELSE IF state.end THEN {[value |-> state.value, usedLength |-> 2]}
      ELSE AthDecoding_fast(SubSeq(memory, state.prebuildState.usedLength + 1, Len(memory)),
                            d, state.prebuildState, mode)

Lookup(table, memory, d, mode) ==
  LET node  == Get(table, memory[1], NewNode)
      state == EntryFor(node, memory)
  IN  IF node.end THEN {[value |-> node.value, usedLength |-> 1]}
      ELSE IF state.end THEN {[value |-> state.value, usedLength |-> state.length]}
      ELSE AthDecoding_fast(SubSeq(memory, state.prebuildState.usedLength + 1, Len(memory)),
                            d, state.prebuildState, mode)
----------------------------------------------------------------------------
(* What the lookup relies on, and nothing in the code makes sure of: every  *)
(* codeword can be ended, and the decoder of a cell has stopped where no    *)
(* byte is left to settle, having seen no bit that the values of the cell   *)
(* differ in (the lowest one is not looked at).                             *)

Serves(cell, d, mode) ==
  LET entry == EntryOf(cell, d, mode)
  IN  ~entry.end => /\ ~SameTopByte(entry.prebuildState)
                    /\ \A q, r \in cell : q.value % 2 = r.value % 2

Usable(d, mode) ==
  LET results == Results(d, mode)
  IN  /\ \A v \in 0..(2^d - 1) : Ends(v, d, mode)
      /\ \A h \in {r.code[1] : r \in results} :
           LET head == WithByte(results, 1, h)
           IN  (\A r \in head : Len(r.code) # 1) =>
                 \A s \in {r.code[2] : r \in head} : Serves(WithByte(head, 2, s), d, mode)
=============================================================================
