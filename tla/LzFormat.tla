------------------------------ MODULE LzFormat ------------------------------
(***************************************************************************)
(* What lz4-1.9.4/lib/lz4frame.c writes and reads: a frame is a header,      *)
(* blocks with their headers and checksums, an end mark and a checksum of    *)
(* the content.  Every field is as many bytes as the constants say; a byte   *)
(* knows its field and its place in it, so that a reader that mixes up two   *)
(* fields is seen to.  Bytes of content are what they are.                   *)
(***************************************************************************)
EXTENDS XxHash, FiniteSetsExt

CONSTANTS KB64,        \* 64 KB, how far back a block may refer
          BlockSizes,  \* of block size IDs 4 to 7
          MINFH,       \* minFHSize (7)
          CONTENTSIZE, \* bytes of the content size (8)
          DICTID,      \* bytes of a dictionary ID (4)
          SKIPHEAD,    \* bytes of the header of a skippable frame (8)
          BHSize,      \* of a block header, and of the end mark (4)
          BFSize,      \* of a checksum (4)
          Dictionary   \* the bytes of the dictionary

ASSUME FrameAssumption ==
  /\ KB64 \in Nat \ {0} /\ BlockSizes \in Seq(Nat) /\ BlockSizes # <<>>
  /\ \A k \in DOMAIN BlockSizes : BlockSizes[k] >= KB64
  /\ {CONTENTSIZE, DICTID, BHSize, BFSize} \subseteq Nat \ {0}
  /\ MINFH > SKIPHEAD - BHSize /\ SKIPHEAD > MINFH /\ SKIPHEAD > BHSize

NULL == -1
Garbage == 0
maxFHSize == MINFH + CONTENTSIZE + DICTID

Bytes(mem, from, n) == [k \in 1 .. n |-> mem[from + k - 1]]
Write(mem, to, bytes) ==
  [a \in DOMAIN mem |-> IF a >= to /\ a < to + Len(bytes) THEN bytes[a - to + 1] ELSE mem[a]]
LastOf(bytes, n) == SubSeq(bytes, Max({1, Len(bytes) - n + 1}), Len(bytes))

(* LZ4F_getBlockSize and LZ4F_optimalBSID; 0 is the default, the smallest. *)
getBlockSize(id) == BlockSizes[IF id = 0 THEN 1 ELSE id - 3]
optimalBSID(requested, srcSize) ==
  Min({requested} \cup {id \in 4 .. requested - 1 : srcSize <= getBlockSize(id)})

(* The bytes of a field; id tells it from the other fields of the wire. *)
Field(kind, id, n, value) ==
  [k \in 1 .. n |-> [kind |-> kind, id |-> id, at |-> k, of |-> n, value |-> value]]
Raw(id, bytes) ==
  [k \in DOMAIN bytes |-> [kind |-> "raw", id |-> id, at |-> 1, of |-> 1, value |-> <<bytes[k]>>]]

Whole(bytes, kind) ==
  /\ bytes # <<>> /\ Len(bytes) = bytes[1].of
  /\ \A k \in DOMAIN bytes : bytes[k].kind = kind /\ bytes[k].id = bytes[1].id /\ bytes[k].at = k

(* What a checksum of a block is of: everything in it, in its order. *)
Checked(bytes) == FlattenSeq([k \in DOMAIN bytes |-> bytes[k].value])

(* The fields of a frame header. *)
HeaderValue(p) ==
  [linked |-> p.linked, blockChecksum |-> p.blockChecksum, contentChecksum |-> p.contentChecksum,
   contentSize |-> p.contentSize, dictID |-> p.dictID, blockSizeID |-> p.blockSizeID]
HeaderSize(v) ==
  MINFH + (IF v.contentSize > 0 THEN CONTENTSIZE ELSE 0) + (IF v.dictID > 0 THEN DICTID ELSE 0)
=============================================================================
