# Ath integer compression: models, checks and proofs

The repository compresses columns of integers, batch by batch, with an adaptive
binary entropy coder ("Ath") that gives every value a codeword of whole bytes, and
decodes single values quickly with generated tables. It carries rapidcsv, gflags and
LZ4 with it: for reading data, for its flags, and to compare with. This directory
holds TLA+ modules of both, the TLC runs that check them on small instances, and
proofs, checked by TLAPS, of what the repository's own code promises, for every
size of a byte, probability table, width, mode, value, data set and failure.

    tlc -workers 2 -config MCAthCodec.cfg MCAthCodec     # a run
    tlapm AthCodecProofs.tla                             # the proofs of a module

`PROJECT.json` lists components, runs, hazards, findings and theorems, and maps every
definition to the lines it models.

## Inventory

| component | source | state it keeps | operations | modules |
|---|---|---|---|---|
| entropy coder | `AthEncoding.h` 8-300 | locals: interval `x1, x2`, a `Ratio`, the bytes or bits so far; the decoder's window `x` and `usedLength` | `AthEncoding`, `AthDecoding` | `AthArith`, `AthEncoder`, `AthCodec`, `AthChannel` (abstract), `AthCalls` (whole calls) |
| resumable decoder | `AthEncoding.h` 302-636 | `PrebuildState`: the decoder after a few bits | `AthDecoding_prebuild`, `AthDecoding_fast` | `AthCalls` |
| table generator | `DecodingTest.cpp` | `tables`, `valueList`, `checkTable`, `checkTable2` | encode all, group, build, save, load, check | `CheckTable`, `DecodingTest` |
| table files | `DecodingTest.cpp` 43-122, `IntegerConvertor.cpp` 48-92, `FileOperator.h` | the buffer of stdio, the file, the disk | `SaveCheckTable`, `LoadCheckTable` | `TableFile`, `TableStore` |
| batch compressor | `AthCompressor.h`, `getMode` | one object: differences, width, mode, codewords | `addData`, `compress`, `compress2` | `AthCompressor`, `CompressorObject` |
| experiment | `IntegerConvertor.cpp` | position in the data, `ptr` in the string, totals, times | start, compress a batch, decode a value twice, report | `Startup`, `IntegerConvertor` |
| linear compressor | class `IntegerConvertor` | reference points and differences | `addData`, `convert`, `toString`, `toData` | `LinearConvertor` |
| CSV | `rapidcsv.h` | a `Document`: cells, labels, name maps | parse, write, get, set, insert, remove | `CsvText`, `CsvDocument` |
| flags | `gflags-2.2.2` | the registry; the parser's errors | parse, set by three modes, validate, read flags from strings, files, environment | `FlagRegistry`, `FlagParser` |
| LZ4 block and stream | `lz4.c` | hash table, dictionary, prefix; the decoder's prefix and external dictionary | compress and decompress, `_continue`, dictionaries, rings | `LzBlock`, `LzDecoder`, `LzStream` |
| LZ4 high compression | `lz4hc.c` | hash and chain tables, `dictLimit`, `lowLimit` | hash-chain and optimal parsers, streams | `LzHigh`, `LzHighParser` |
| LZ4 frames | `lz4frame.c` | writer: `tmpIn`, saved dictionary; reader: stage, `tmpIn`, `tmpOut` | begin, update, flush, end; decompress, reset | `LzFormat`, `LzFrameWriter`, `LzFrameReader`, `LzFrame` |
| LZ4 file interface | `lz4file.c` | a context and a buffer per handle | open, read, write, close | `LzFile` |
| LZ4 command | `lz4io.c` | source, sparse destination, preferences | compress, decompress streams one behind the other | `LzCommand` |
| xxHash | `xxhash.c` | accumulators, a stripe of input | one-shot, update, digest | `XxHash` |
| scripts, data, tables | `run.py`, `CMakeLists.txt`, `datasets`, `DST` | | | not modelled |

How they interact. `DecodingTest` encodes every value of one width and mode, and
builds from the codewords a table: first byte -> value, or second byte -> value or
a `PrebuildState`. It writes the table to a file, which `main` of `IntegerConvertor`
loads at its start for widths 9 to 26 and all modes, after gflags has parsed its
arguments and rapidcsv the data. `main` cuts each column into batches; an
`AthCompressor` reduces a batch to differences from its smallest value, chooses width
and mode from their bits, and calls `AthEncoding` on each; if the codewords are not
longer than the bytes they stand for, `main` decodes the string at once, each value
by `AthDecoding` and by the table, asserts that both agree, and moves a pointer on by
the length found. Nothing is stored in the string but the codewords. LZ4 is a
library below and a command beside: blocks below streams below frames below files
below the command, with xxHash for the checksums of frames.

Everything runs in one thread. What is hard here is not concurrency but

* arithmetic: 32-bit intervals that are narrowed, shifted and rounded a bit at a
  time in five copies of the same loop;
* self-delimitation: lengths are not stored, the decoder reads into the next
  codeword, and one byte too many ruins the rest of a batch;
* state saved in one program, in the middle of a loop, and resumed in another;
* tables filled by overwriting, from buffers with uninitialised bytes, and files of
  them that a crash leaves torn;
* history: LZ4's blocks refer to bytes that both sides must still hold, in buffers
  that wrap, move, are overrun by fast copies, or are renamed to dictionaries;
* input in portions: frames and archives arrive cut anywhere;
* nesting: flagfiles and environment variables that lead to each other;
* boundaries: widths without a table, overflow of the differences, data that does
  not compress, rows left over, ragged rows.

What makes each component correct: the coder returns every value and its length
whatever follows in memory; the resumable decoder agrees with it from every state
saved; the generator's table holds exactly the codewords, and a table that loads is
the table that was saved; the compressor never loses a bit, nor makes a batch longer
than its bytes, and answers the same when asked again; `main` recovers the rows and
uses each string to its end; a document that is saved is read back, and a call
changes only what it names; the last text for a flag wins; a block, a frame, an
archive decodes to what was compressed, within the bounds promised for it.

## Modules and code

The Ath coder and its programs:

* **`AthArith`** - the arithmetic all five loops share. `NarrowBy` is one data bit,
  `Renorm` one settled byte, `SplitPoint` is `xMid`, `Update` is `Ratio::update`,
  `Settled`, `FinalBytes` and `FinalLength` are the end of a codeword. Unsigned
  arithmetic wraps (`% Reg`), division rounds as in C (`Truncate`). The three
  copies of a loop, one per segment, are one operator: `Predictor` is a new `Ratio`
  where a segment starts. The five loops were compared with it line by line; the
  properties are about this one translation, so that a copy changed later has to be
  translated anew before they can say anything of it.
* **`AthEncoder`** - `AthEncoding` as a machine: `EncodeBit`, `WriteByte` (the inner
  while), `WriteFinal`. A value is the sequence of its bits, lowest first. `path`
  is a history variable: the coders gone through.
* **`AthCodec`** - the encoder, then `AthDecoding` on the codeword followed by
  arbitrary memory (`tail`): `DecodeStart`, `DecodeBit`, `UseByte`, `DecodeFinal`.
* **`AthChannel`** - what the two promise together: a call goes in, its value and
  length come out, or it is lost while it is sent. `AthCodec` implements it.
* **`AthCalls`** - the four functions as operators, for the programs that see only
  what they return. A while loop becomes at most four shifts: four bytes renew a
  register, after which the top bytes differ (`FourShifts`, proved).
* **`CheckTable`** - `HeadNode`, `State` and `Lookup`, the lookup both programs
  perform; `CommonLength`; and `TableOf`, the whole table as one function of width
  and mode. `ZeroEntry` and `NewNode` are what `operator[]` makes of a missing key.
* **`DecodingTest`** - the generator: one action per turn of its loops
  (`EncodeValue`, `Group`, `BuildItem`, `CheckValue`) and `SaveAndLoad`. A failed
  assertion is the phase "aborted". `garbage` stands for the uninitialised bytes of
  `Result::encode`.
* **`TableFile`** - the file as a sequence of fields. **`TableStore`** - the same as
  a machine. `OpenToSave` (`fopen("wb+")`) truncates; `Write` passes on to the file
  what the buffer of stdio does not hold, and less when the disk is full;
  `SyncAndReport` (`fsync`) comes before the rest of it, `Close` (`fclose`) after, and
  may meet the full disk too. `Crash` and `PowerFailure` happen between any two steps.
  The load is `OpenToLoad`, `ReadCount`, `ReadHead`, `ReadNode`, `ReadEntry`, `Loaded`;
  `Restart` starts another program.
* **`AthCompressor`** - `compress` and `compress2` as functions from the rows of a
  batch to the record the object then is; integers of `IntBits` bits that wrap. The
  helpers that count bits per position (`getBitDistribution`, `getBitPos`) are left
  out: nothing calls them.
  **`CompressorObject`** - the object over several calls, whose differences pile up.
* **`Startup`** - the flags, `--Columns`, the columns read and counted.
  **`IntegerConvertor`** - `main`'s loops: `CompressBatch`, `DecodeValue` (one
  value, with its assertions), `Report`. A division by zero is the phase "killed";
  times are abstracted to 0 and "at least 1".
* **`LinearConvertor`** - the class of that name, its line in exact fractions.

The libraries:

* **`CsvText`**, **`CsvDocument`** - the parser and writer over characters; and a
  document under every call that changes it.
* **`FlagRegistry`**, **`FlagParser`** - flags with their current and default text,
  validators, the three ways to set one; the parser with the stack of places it
  reads from.
* **`LzBlock`**, **`LzDecoder`**, **`LzStream`** - a compressor into sequences of
  literals and matches, decoders that execute them with the same copies as the code
  (stripes and overruns included, because they write past their end), and the two
  sides of a stream in buffers with addresses.
* **`LzHigh`**, **`LzHighParser`** - hash chains, search, patterns, both parsers.
* **`LzFormat`**, **`LzFrameWriter`**, **`LzFrameReader`**, **`LzFrame`** - headers
  and their fields; the writer's calls; the reader, one stage at a time, fed in any
  portions; the two against each other. **`LzFile`** and **`LzCommand`** use them.
* **`XxHash`** - both hashes, at once and in pieces.

**`MC...`** hold the instances, **`...Proofs`** the theorems (below), `FoldFacts` what
those need of folds, sequences and recursive functions.

Operators commented "Mutant of ..." are deliberate faults, one or more for every
property, named in `PROJECT.json`: each property is violated when its mutant takes
the place of the definition, so none holds whatever the code does. No action and
no property uses them.

Abstractions. Bytes of a register have `Base` values. Printing and the compression
ratios in floating point are left out. The lookups of `main` insert default nodes
for missing keys; a later lookup reads the same defaults, so the insertion is not
kept. Memory behind a string is a few fixed patterns in the runs and arbitrary in the
proofs. A block inside a frame is its bytes and what it refers to, since `block`
checks how bytes come about. Every note of a component in `PROJECT.json` says what
is left out of it.

## Runs

| run | module, cfg | states | shows |
|---|---|---|---|
| `codec` | `MCAthCodec` | 339,568 | every 10-bit value, 64 24-bit values and the 15-bit values around 20789, modes 0, 2, 5, three tails: the decoder retraces the encoder, its window stays in its interval, it reads at most three bytes too far, returns value and length, and so do the whole calls; under `FairSpec` the pair implements `AthChannel` |
| `lost` (violation) | `MCAthCodec`, `MCAthLost.cfg` | | 20789 is lost |
| `tables` | `MCDecodingTest` | 512,444 | all 11-bit values, modes 0, 2, 5, two contents of uninitialised bytes: the generator's assertions, its table, its file, and the lookup with three tails; and two tables saved and loaded in any order with up to two failures |
| `durable` (violation) | `MCDecodingTest`, `MCTableDurable.cfg` | | a size is reported that is not yet written |
| `column` | `MCColumn` | 112,930 | objects of `AthCompressor` used repeatedly; the linear compressor on sequences of up to four of six integers; `main` on two columns of seven rows in batches of three |
| `document` | `MCCsvDocument` | 343,674 | every text of up to four characters under four settings, saved and loaded again; and three tables, empty, square and ragged, with labels in every place and changed by every two calls |
| `startup` | `MCStartup` | 78,272 | arguments, flagfiles and environment variables nested and in circles; a second client of the flags; the columns asked for |
| `block` | `MCBlock` | 250,587 | streams of up to four calls in twelve arrangements of buffers, both compressors, dictionaries, saved histories, rescaled indexes, one-shot calls |
| `ring` (violation) | `MCRing` | | the ring size that is promised to be enough is not |
| `frame` | `MCFrame` | 585,860 | five uses of the frame interface, one of the file interface, six of the command |
| `reset` (violation) | `MCFrame`, `MCReset.cfg` | | a frame given up spoils the next |
| `concatenated` (violation) | `MCFrame`, `MCConcatenated.cfg` | | the second of two archives is lost |

A run that covers several components starts in a state of one of them
(`SpecOne`, `SpecColumn`, `CommandSpec`): the components do not step together, they
only share a model checker.

What the properties say, where the name does not:

* `Retraces`: after as many bits, encoder and decoder have the same interval and
  ratio. `EndsUnlessTwoPoints`: final bytes are written unless the interval is two
  points on the two sides of a byte boundary. `RoundTripIfTerminable`: everything
  else comes back. `CallsAgree`: the operators that stand for whole calls return
  what the loops return.
* `LookupIsDecoding`: the generator's table gives value and length as `AthDecoding`
  does. `EntriesAreStable`: an entry once built is not overwritten by another.
  `SavedStatesAreSettled`: no state is saved inside the inner loop.
  `LoadsWholeTables`: a load that stays inside its memory got the whole file.
  `CleanSaveIsWhole`: an undisturbed save repairs whatever was there.
* `ShortIsDecodable`: codewords shortened by `compress2` can be decoded with a table.
  `Repeatable`: the same call again answers the same. `ReferenceLeft`: the linear
  compressor keeps one reference (one put back at place -1, before the vector, is a
  write that the model ignores). `RoundTrip` of the linear compressor: what fits its
  fields comes back in the order of addition; a base beyond 32 bits, or a width beyond
  its field, is outside its premise `Representable`. `RecoversTheRows`, `NeverLarger`:
  `main` gets its rows back and is never longer than naive coding. `LookupAgrees`: its
  assertions hold where the width has a table, and fail at the first codeword where it
  has none - a decoder that starts from a `State` of zeros does not happen to be right.
* `NamesFind`: a name leads to the row or column that carries it. `outdated` holds
  the names that the calls excuse: overwritten in place by `SetColumnName` or
  `SetRowName`; those of a call that threw halfway; and, whenever `UpdateRowNames`
  reads the names of rows anew, the ones behind a row too short to hold a name, which
  it counts past (`BehindShort`, a fact about the table). Which places
  `UpdateRowNames` gives is not used: a miscount of labels or rows violates the property.
* `OverflowsOnlyOnCycles`: the recursion of the parser ends unless files lead to each
  other. `AllOrNothing`: an unsuccessful `ReadFlagsFromString` leaves no trace.
* `FitsOrFails`: a compressor that reports success stayed in its output, and one that
  was given `LZ4_compressBound` succeeds. `KeepsHistory`: wherever the writer's context
  keeps them, the bytes that the next linked block may refer to are the last ones of
  the content. `DigestIsOneShot`: a checksum kept up is the checksum of the whole.
  `ZeroMeansDone`: a hint of 0 comes exactly at the end of a frame. `GoesOn`: a call
  that is given input and room does something, and what is buffered still fits the room that `LZ4F_writeOpen` has
  allocated for the handle, which counts no buffered bytes when blocks are flushed at
  once (`autoFlush`). `WithinBound`: no call writes more than `LZ4F_compressBound` said.

### Bounds, and why they are enough

Registers of four bytes of 256 values do not fit TLC's integers; the runs use bytes
of 64 values (`Base = 64`, 24-bit registers) with the code's own probabilities and
ratios (`ratioList`, `Prec = 4096`, `Extra = 1024`). A register is still four bytes
of which the code looks at the first, and `Base^2` is still a multiple of `Prec`,
so that a shift by two bytes leaves the 12-bit parts that `xMid` is computed from
aligned as in the code; codewords are longer in bytes than in the code for the same
width. The proofs do not depend on the choice.

The coder's control depends on the segment of a bit, on its value, and on how many
bytes a bit settles; at 10 bits all segments have several bits and the three modes
mirror each of them; codewords end with one, two or three final bytes, single bits
settle none, one or two bytes, and the 24-bit values make codewords longer than the
decoder's first four bytes. In `tables` every kind of entry occurs: a value for one
byte, a value for two bytes of a longer codeword, states saved at the input limit in
each of the three segments, also where a segment starts, and at the output limit
(states of the first segment need 11 bits here, 13 with the code's bytes); a buffer
of four fields makes writes end inside every part of an entry. In `column` the
differences take 1 bit (stored), 9 and 10 bits, 11 bits, for which there is no table as
in the program from 27 bits on, or overflow the 12 of an integer; coded batches are
shorter than, as long as, and longer than their bytes; all three ways of the lookup
are taken, and that of a missing table; the seventh row is left over. No cell of these
tables has values that differ in bit 0 first, the case that `commonLength` cannot tell
from none: the theorems exclude it by their premise `Usable`, and no run shows it.

LZ4's constants are scaled together so that every comparison between them keeps its
outcome: `MINMATCH` 2 for 4, `LASTLITERALS` 1 for 5, `MFLIMIT` 4 for 12, length field
`MASK` 4 for 15, `BYTE` 5 for 255, the window `KB64` 32 for 65536, stripes of 6 for
32, `WILDCOPYLENGTH` 3 for 8, the skip trigger 2 for 6, rescaling beyond 60 for 2^31,
and for the high compressor `OPT_NUM` 16 for 4096, patterns of 8 for 128; frames have
windows of two bytes, blocks of two and four, a hash of three lanes of two bits'
words (`XxHash` is checked at lanes 3, words 2 and 8 bits; the loop of single bytes of
XXH64 is not reached with words of two). Streams over two letters make matches of
every kind: near, overlapping, in the external dictionary, across its end, too far.
Branches that the instance cannot reach: in `LzHighParser` the ones that need a third
match shorter than `MINMATCH`, or an index near 2^32; in `LzBlock` the refusal of
inputs above `LZ4_MAX_INPUT_SIZE`.

`CHECK_DEADLOCK FALSE` everywhere: all the programs end. Bounds that are not the
code's are constants: `MaxCalls`, `MaxFaults`, `MaxAlone`, `MaxData`, `MaxIndex`,
`MaxLength`, and `MaxDepth`, the depth at which the parser's stack overflows.

Fairness. `FairSpec` of the codec: `WF_vars(Next)`, both functions are loops of one
thread in which nothing blocks. `Converts` (the linear compressor's loop ends):
weak fairness of its step, for the same reason. Nothing else assumes any.

## Findings

1. **A value without a codeword of its own** (`lost`). When the last interval is two
   points on the two sides of a byte boundary, `AthEncoding` writes no final bytes.
   With the code's bytes it happens for 0x2dc06a, 22 bits, mode 2 - the only case
   between 9 and 26 bits - and `DecodingTest --DatumSize=22 --Mode=2` stops at
   `assert(result == testValue)`. `EndsAllButTwoPoints` proves that there is no
   other kind of case, `DecodesTheValue` that nothing else is lost.
2. **A table reported before it is written** (`durable`). `SaveCheckTable` syncs the
   descriptor while the end of the table is in the buffer of the `FILE`.
3. **A ring too small** (`ring`). `LZ4_decoderRingBufferSize` leaves no room for the
   stripes of the fast copy; 16 bytes more do.
4. **A decoder that does not forget** (`reset`). `LZ4F_resetDecompressionContext`
   keeps the size that the frame given up had declared.
5. **A lost archive** (`concatenated`). The reader's hint counts a block's checksum
   twice, so that `lz4` reads into the next frame and drops it; with `--rm` the
   archive goes too.

Seen while modelling, with no run of their own:

* `getMode` puts the first segment's bit at 0x04, `AthEncoding` reads it at 0x01
  (`AthEncoding.h:132`): lossless, but not what was meant. The generator's search for
  `commonLength` starts at bit 1 and never looks at bit 0.
* Widths of 27 bits and more have no table, and `main`'s assertion fails at the first
  codeword (`LookupAgrees`); rows
  beyond the last whole batch are dropped (`IntegerConvertor.cpp:128`); `main`'s last
  divisions are by times that may be 0; `--BatchSize=0` divides by zero.
* `convert` of class `IntegerConvertor` returns no value.
* gflags' guard against infinite recursion (`gflags.cc:1244`) misses lists such as
  `--fromenv=x,fromenv`, and flagfiles; `SET_FLAG_IF_DEFAULT` re-expands a nested
  flagfile for ever.
* rapidcsv: names can be left pointing at other rows or columns, cells with line
  breaks are not quoted, empty cells read as 0 (`rapidcsv.h:177`), ragged rows are cut.
* LZ4: an encoder's ring smaller than two blocks is not noticed (`lz4.c:1660`);
  `LZ4_compress_HC_continue_destSize` keeps all of its input as history though it
  used a part (`lz4hc.c:839`); `LZ4_loadDictHC` forgets `favorDecSpeed`;
  `LZ4F_compressBound` does not cover the flush when a writer changes between
  `LZ4F_compressUpdate` and `LZ4F_uncompressedUpdate`; `LZ4F_readOpen` refuses files
  of fewer than 19 bytes; `lz4 -B4 -BX` fails on files of 65529 to 65535 bytes. The
  models exclude these calls by guards that say so.

## Proofs

`AthCallsProofs` begins with the lemmas of the arithmetic: a split point leaves both bits a
share of the interval (`SplitInside`), narrowing stays inside, a shift keeps the order
and the points of an interval (`RenormInside`, `ShiftInside`), a `Ratio` stays in its
range (`UpdateInRange`), windows of memory move by a byte (`WindowShift`,
`WindowBack`), and the final bytes, whatever follows them, are a point of the interval
(`FinalInside`). `FoldFacts` has induction on numbers from the least-element principle,
the existence of functions defined by recursion and of folds over finite sets, and
where the parts of a flattened sequence lie; `TableStoreProofs` begins with the proof
that a load inverts a save, for every table.

| theorem | module | property |
|---|---|---|
| `TypeCorrect` | `AthCodecProofs` | `TypeOK` |
| `IntervalsStayNonEmpty`, `MaskIsIdle` | | no interval is empty; the mask of `Ratio` does nothing |
| `DecoderRetraces` | | `Retraces` |
| `WindowStaysInside` | | `WindowInside` |
| `ReadAheadIsBounded` | | `ReadAhead` |
| `EndsAllButTwoPoints` | | `EndsUnlessTwoPoints` |
| `DecodesTheValue` | | `RoundTripIfTerminable` |
| `CodecIsChannel` | | the safety part of `ImplementsChannel` |
| `CallsAreTheLoops` | | `CallsAgree` |
| `CallsRoundTrip` | `AthCallsProofs` | whole calls return value and length |
| `ResumedDecoding` | | so does a decoder resumed from another value's state |
| `PrefixFree` | `AthCallsProofs` | no codeword begins with another |
| `TableDecodes` | | a usable table finds what `AthDecoding` returns |
| `TypeCorrect` | `TableStoreProofs` | types of the machine |
| `TablesReload` | | `LoadsWholeTables` |
| `CleanSaves` | | `CleanSaveIsWhole` |
| `MainTypeCorrect` | `ColumnProofs` | types of `main` |
| `CodingNeverLengthens` | | `NeverLarger` |
| `RowsComeBack` | | `RecoversTheRows` |
| `AnswersRepeat` | | `Repeatable` |
| `LookupsAgree` | | `LookupAgrees`, for a usable table: no assertion fails |
| `ShortStringsDecode` | | `ShortIsDecodable`, for a usable table and data that fit |
| `GeneratorInvariant` | `DecodingTestProofs` | the table is at every turn what the values so far make of it |
| `AssertionsHold` | | `NeverAborts` |
| `LoadedTableIsWhole` | | `LoadsTheTable` |
| `LoadedTableDecodes` | | `LookupIsDecoding` |
| `EntriesStay` | | `EntriesAreStable`; all five for usable tables |
| `TypeCorrect` | `CsvDocumentProofs` | types of a document |
| `NamesAreFound` | | `NamesFind` |
| `SavedIsLoaded` | | `RoundTrip` of `CsvDocument` |
| `ChangesWhatIsNamed` | | `OnlyWhatIsNamed` |
| `FlagsAreTyped` | `StartupProofs` | types of the flags; the parser is at rest while `main` reads |
| `ReadsWhatIsAsked` | | `StartsAsAsked` |
| `ErrorsAreUndone` | | `UndoneOnError`: a `ReadFlagsFromString` that fails changes no flag |

They assume what the modules assume of their constants: a byte has at least two
values; a probability is a number of `Prec`-ths below one; a call has 1 to 64 bits;
memory holds bytes; a batch has rows; the texts, cells and names of documents are
sequences, their labels positions or -1 (`DocumentAssumption`). `^` has no definition
in the prover, so `PowersAssumption` of `AthCompressor` and of `DecodingTest` states
the powers of two and of `Base` that the module uses by their recursion; TLC evaluates
them. Theorems about tables say in their statements that the table is `Usable`.

**The coder as a machine** (`AthCodecProofs`). That the decoder returns the value is
not inductive: it depends on bytes that are written later. The invariant `IInv`
therefore speaks of the encoder's whole path. `PathInv`: the path is linked, each
coder leading to the next by one bit or one byte. `Cells`: whatever sequence of bytes
extends the output, if its window lies in the encoder's present interval, its windows
lay in every interval of the path; narrowing only shrinks intervals, and a byte is
written only when the whole interval agrees on it. Once the final bytes are written
(`FinalInside`) every extension satisfies the premise, so memory does, whatever the
tail. `Follows`: the decoder is at a coder of the path with exactly the bytes that had
been written there; since its window lies in the next interval too, the comparison
with `xMid` goes the encoder's way. `WindowInside` alone needs no more than the types:
it holds even where the codeword could not be ended. `CodecIsChannel` maps the steps
to `AthChannel`, one by one, with the same invariant.

**The coder as calls** (`AthCallsProofs`). A call is a recursive function of the bits
done. `Traces` are the sequences of encoders and of decoders that the functions
compute; `EncoderPath` lays an encoder's trace out as a path, so that `FinalInside`
and the cells serve here as well, and `CallsRetrieve` follows a decoder along it from
any position (`DecodeRest`). The same lemma carries `ResumedDecoding`: a state that
`AthDecoding_prebuild` saved holds the encoder's position, interval and byte count;
the ratio is not saved but counted again from the bits (`PredictorCounts`,
`CountsLearnt`: the two counts of a segment determine the ratio), and everything up to
there is shared by all values with the same bits (`SharedStates`). So one entry of a
table, made from one value, decodes every value of its cell.

**Both are the same** (at the end of `AthCodecProofs`). `EncoderInv` and `DecoderInv` say where in
the call's trace the machine is: at a whole bit, or in the middle of its bytes
(`Underway`), with the rest of the inner loop still to be computed.

**Tables** (the end of `AthCallsProofs`). `PrefixFree` needs no new induction: if one codeword
begins with another, the same memory begins with both, and by `CallsRoundTrip` it
decodes to both values. So a first byte that is a codeword belongs to one value, and
an entry with one value keeps the right one. Otherwise the entry keeps a decoder that
`AthDecoding_prebuild` stopped, inside the renewal of the registers or else at most
`CommonLength` bits deep (`PrebuildStops`); that many bits the values of the cell have
in common (`CommonBits`), and `ResumedDecoding` does the rest. This takes three things
the code does not make sure of, and `Usable` says which: every codeword could be ended;
the state of a cell was not saved inside the renewal; and the values of a cell agree in
bit 0, since the loop that computes `commonLength` cannot tell a difference there from
none. They are facts about a width, a mode and a table of probabilities, and the first
is false for some (the first finding). `MCColumn` assumes them of every width and mode
of its instance (`TablesUsable`), so the run evaluates the premise of the theorem. For
bytes of eight bits TLC's integers are too small.

**The generator** (`DecodingTestProofs`). The program puts its table together entry by
entry and looks at what is already there; `TableOf` is the same table as one function.
`BuildInv` (theorem `GeneratorInvariant`) relates them at every turn: the results of the
first `testValue` values are filed under the first bytes of their codewords (`FiledIn`),
and `checkTable` is what the values handled so far make of it (`TableWith(Handled, mode)`:
all values of the heads that are done and, of the present head, those up to `item`). That a turn of
the loop leads from one such table to the next (`Grown`) needs that a value of a
one-byte codeword has its head to itself (`PrefixFree`), and that the value that comes
second to a cell leads `AthDecoding_prebuild` to the `State` that the first one left
(`PrebuildShared`). The same two facts give `EntriesStay`; the saved and loaded table
is the built one by `LoadInvertsSave` (`TableStoreProofs`) and `TableReloads`; and then
`TableDecodes` gives `LoadedTableDecodes` and the assertions. The premise `AllUsable` is `Usable` of
the width and every mode. For the instance of `MCDecodingTest` it is evaluated by
`GeneratedUsable` in `MCColumn`, which has the same bytes and probabilities; not in
`MCDecodingTest` itself, where a fault in the coder would break the assumption and
not the property.

**Files** (`TableStoreProofs`). `SaveInv`: buffer and file together are a beginning of
the fields of the table being saved, and what an earlier save left is one too.
`LoadInv`: what has been read so far is the part of that table whose fields come
before the position. The fields of a table are a flattened sequence of sequences of
fields, and where the parts lie (`EntryFieldsLaid`, `WholeLaid`) comes from
`FoldFacts`; that reading them in order gives the table back is `EntriesReload` and
`HeadsReload`. `TablesReload` then is: a load that never left its memory had the whole
file, since the counts in it ask for every field.

**Batches** (`ColumnProofs`). `compress` is measured once: the
smallest and largest difference, the width that holds it, the integers wrap and wrap
back (`Differences`), raw bytes and codewords lie in the string where they belong
(`RawBytes`, `CodewordsLaid`, `BytesBack`, `CodewordReturns`). `MainInv` has `ptr` at
the beginning of the codeword of the next row and every earlier row recovered.
`ObjectInv`: the `output` an object piles up is its differences repeated, which leaves
every ratio of counts unchanged. `LookupsAgree`: `ptr` is
at the beginning of a codeword (`MainInv`), with three bytes behind it
(`CodewordStarts`), which is what `TableDecodes` asks of the memory. `compress2` keeps
only two bytes of a codeword whose cell has one value. `WordTells`: with a usable
table these two bytes, whatever follows, are looked up as that value, and the lookup
moves on by what was kept; `FindsAll` carries the pointer over the whole string.
`CutInv` says that the string of the last call is these words, when no other call's
differences are in the object. Premises: the table is usable (`Served`) and the
differences fit the integers (`Fits`), otherwise they wrap.

**Documents** (`CsvDocumentProofs`). The parser is a fold over characters, so first the
folds become functions of the position, with the state after each character. Then a
written text is followed cell by cell and row by row (`WrittenIsRead`): within a
quoted cell every quote comes twice and nothing else ends the cell, between cells
stands one separator, between rows a line end.
`SavedIsLoaded` needs of the machine no more than its types, and of the table
`Writable`, whose cases are those that a text cannot represent. `NamesAreFound`:
`NamesFind` is inductive with the types. A name leads to the row or column it was put
at; every operation keeps or moves the cells of the label's row and column as it
keeps or moves the positions of the names (`KeepsColumns`, `KeepsRows`), writes a
name that it makes findable, makes the old one `outdated`, or reads the names anew. Of
names read anew, `RowNamesFind` says that every one not behind a short row is put at a
row that carries it: before the first short row, the count that `UpdateRowNames` keeps
is the number of the row.
`ChangesWhatIsNamed`: what `Sized`, `Written`, `PutInto` and the insertions and
removals of a row and a column do to each cell is said once (`SizedHolds`,
`WrittenIs`, `IsPutInto`), and each action's lemma (`...Named`) draws from it where a
cell went (`MovesTo`), that what was given is read back, and that an access outside a
row, which is undefined in the code, comes of a position outside the rectangle. The names of rows
in `UpdateRowNames` are given by counting the rows that are long enough, since the
prover cannot follow `SelectSeq`.

**Flags and columns** (`StartupProofs`). `ParserInv`: the registry holds values of its
flags' types (`IsRegistry`), every frame of the parser's stack has items of its kind
(`FrameSet`), and there are frames only within a call. Each step of the parser sets a
flag to a text that suits it (`SplitIs`, `SetFlagKeeps`) and pushes or pops frames.
`MainInv`: from `document` on the parser is at rest, so that the flags `main` reads
several times are the same each time; the columns left are the rest of the order of
the numbers asked for, and those read are columns of the file in that order.
`Ascending` gives a `std::set` in order by counting; that each number stands where
its rank says (`AscendingIs`) is a bijection of finite sets. A column that is not
empty has a cell of every row below the names (`ColumnIs`), and whole batches fit
(`BatchesFit`). `ErrorsAreUndone`: what `ReadFlagsFromString` saved is `before` as long
as its call lasts (`SavedInv`). The assumptions, `FlagsAssumption` and
`TextsAssumption`, say that flags, default values and texts are of the kinds the code
declares, and that the tables of texts know those that occur.

### What stays with TLC

* Liveness: that a call returns (`ImplementsChannel`'s fairness), `Converts`.
* `SavedStatesAreSettled` is one of the three conditions of `Usable`, which for some
  parameters is false (22 bits, mode 2, by the first finding): it is a fact about an
  instance, and a theorem would only repeat its premise.
* `ReferenceLeft` and `RoundTrip` of the linear compressor, whose line of truncated
  fractions is a sum over the data; not attempted.
* `LastWins` and `AllOrNothing` compare the flags with what nested texts mean, a
  recursive definition (in `MCStartup`); `OverflowsOnlyOnCycles` depends on `MaxDepth`
  and the number of files.
* LZ4 blocks, streams and the high compressor are written with recursive
  operators, frames reach `Bitwise` through `XxHash`: the prover cannot work in
  modules that use these.
* That the lookup without a table never agrees (the other half of `LookupAgrees`): a
  fact about the probabilities, checked at 11 bits.
* `SavedIsDurable` and the other violated properties are violated.

## Not modelled

Scripts and data; `--list` and the tests of `lz4io.c`, `bench.c` and `lz4cli.c`,
handling of names, permissions and failures to open; canonical forms and big-endian
paths of xxHash; 32-bit builds; the completions and help texts of gflags; UTF-16 files
and floating-point cells of rapidcsv; ratios printed in floating point. The archive
formats have no end mark of their own in legacy mode: a legacy stream cut between
blocks is accepted, by the model as by the code.

## Plan

What is left, in order of what it would say:

1. `ReferenceLeft` and `RoundTrip` of the linear compressor, from an invariant over the
   turns of `convert`.
2. The frame's `KeepsHistory` and `WithinBound`, once its arithmetic is apart from
   the hash.
