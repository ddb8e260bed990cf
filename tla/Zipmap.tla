------------------------------- MODULE Zipmap -------------------------------
(***************************************************************************)
(* The zipmap of Redis 1.3.6 (zipmap.c): the compact string -> string map *)
(* small hashes are stored in.  The buffer is                              *)
(*                                                                         *)
(*   <status> (<len>key<len><free>value | <empty><len>...)* <end>          *)
(*                                                                         *)
(* and is modelled as the sequence of its blocks: an entry (key, value and *)
(* <free> trailing bytes) or an empty block of a given length.  Strings    *)
(* are model values whose byte length is StrLen[s]; every length that the  *)
(* code computes (<len> fields of 1 or 5 bytes, required lengths, entry    *)
(* lengths, the leftover of a reused block) is computed from them.         *)
(*                                                                         *)
(* The status byte (ZIPMAP_STATUS_FRAGMENTED) is written by the lookup,    *)
(* set and delete and never read, so it is left out.                      *)
(***************************************************************************)
EXTENDS Naturals, Sequences, SequencesExt

CONSTANT StrLen    \* StrLen[s]: sdslen of a field or value string

BigLen == 253          \* ZIPMAP_BIGLEN
ValueMaxFree == 5      \* ZIPMAP_VALUE_MAX_FREE

\* ZIPMAP_LEN_BYTES / zipmapEncodeLength(NULL, l)
LenBytes(l) == IF l < BigLen THEN 1 ELSE 5

Entry(k, v, free) == [kind |-> "entry", key |-> k, val |-> v, free |-> free]
EmptyBlock(l) == [kind |-> "empty", len |-> l]

\* zipmapNew: status and end bytes only
ZipmapNew == <<>>

\* zipmapRequiredLength
RequiredLength(k, v) ==
  StrLen[k] + StrLen[v] + 3
    + (IF StrLen[k] >= BigLen THEN 4 ELSE 0)
    + (IF StrLen[v] >= BigLen THEN 4 ELSE 0)

\* zipmapRawEntryLength (zipmapRawKeyLength + zipmapRawValueLength) of an
\* entry; the <len> of an empty block counts the whole block.
RawLength(b) ==
  IF b.kind = "empty" THEN b.len
  ELSE LenBytes(StrLen[b.key]) + StrLen[b.key]
         + LenBytes(StrLen[b.val]) + 1 + b.free + StrLen[b.val]

\* the size of the buffer: <status>, the blocks and <end>
ZipmapBytes(zm) == 2 + FoldLeft(LAMBDA acc, b : acc + RawLength(b), 0, zm)

\* The key test of zipmapLookupRaw: l == klen && !memcmp(p+1,key,l).  The
\* compare starts one byte after <len> whatever the size of <len>, so for a
\* key of ZIPMAP_BIGLEN bytes or more it compares the last four bytes of the
\* length and a key shifted by four bytes: with keys as opaque strings it
\* never matches.
KeyMatches(b, k) == b.kind = "entry" /\ b.key = k /\ LenBytes(StrLen[k]) = 1

\* zipmapLookupRaw: the block of the key, or 0
LookupRaw(zm, k) == SelectInSeq(zm, LAMBDA b : KeyMatches(b, k))

\* zipmapLookupRaw's free space report when the key is absent: the first
\* empty block of at least reqfreelen bytes, or 0
FreeOffset(zm, req) == SelectInSeq(zm, LAMBDA b : b.kind = "empty" /\ b.len >= req)

\* Seeded defect: the whole leftover is kept as <free> bytes of the value.
WrittenNoSplit(k, v, freelen) == <<Entry(k, v, freelen - RequiredLength(k, v))>>

\* the blocks written into freelen bytes: the entry, then the leftover as a
\* new empty block if it is over ZIPMAP_VALUE_MAX_FREE, or as <free> bytes
Written(k, v, freelen) ==
  LET empty == freelen - RequiredLength(k, v)
  IN IF empty > ValueMaxFree
       THEN <<Entry(k, v, 0), EmptyBlock(empty)>>
       ELSE <<Entry(k, v, empty)>>

ReplaceBlock(zm, i, bs) == SubSeq(zm, 1, i - 1) \o bs \o SubSeq(zm, i + 1, Len(zm))

\* Seeded defect: a grown entry is written at the end without marking its
\* old entry empty.
ZipmapSetStaleEntry(zm, k, v) ==
  LET req == RequiredLength(k, v)
      p == LookupRaw(zm, k)
      free == FreeOffset(zm, req)
  IN IF p = 0 /\ free = 0
       THEN [zm |-> zm \o Written(k, v, req), update |-> FALSE]
     ELSE IF p = 0
       THEN [zm |-> ReplaceBlock(zm, free, Written(k, v, zm[free].len)), update |-> FALSE]
     ELSE IF RawLength(zm[p]) < req
       THEN [zm |-> zm \o Written(k, v, req), update |-> TRUE]
     ELSE [zm |-> ReplaceBlock(zm, p, Written(k, v, RawLength(zm[p]))), update |-> TRUE]

\* zipmapSet: [zm, update].  An absent key goes to the first empty block
\* that fits, or the buffer is enlarged by reqlen; a present key is
\* rewritten in place when its entry is large enough, otherwise its entry
\* becomes an empty block and zipmapSet recurses (with update NULL).
RECURSIVE ZipmapSet(_, _, _)
ZipmapSet(zm, k, v) ==
  LET req == RequiredLength(k, v)
      p == LookupRaw(zm, k)
      free == FreeOffset(zm, req)
  IN IF p = 0 /\ free = 0
       THEN [zm |-> zm \o Written(k, v, req), update |-> FALSE]
     ELSE IF p = 0
       THEN [zm |-> ReplaceBlock(zm, free, Written(k, v, zm[free].len)), update |-> FALSE]
     ELSE IF RawLength(zm[p]) < req
       THEN [zm |-> ZipmapSet(ReplaceBlock(zm, p, <<EmptyBlock(RawLength(zm[p]))>>), k, v).zm,
             update |-> TRUE]
     ELSE [zm |-> ReplaceBlock(zm, p, Written(k, v, RawLength(zm[p]))), update |-> TRUE]

\* zipmapDel: the entry becomes an empty block of its whole length
ZipmapDel(zm, k) ==
  LET p == LookupRaw(zm, k)
  IN IF p = 0 THEN [zm |-> zm, deleted |-> FALSE]
     ELSE [zm |-> ReplaceBlock(zm, p, <<EmptyBlock(RawLength(zm[p]))>>), deleted |-> TRUE]

\* zipmapRewind/zipmapNext: the entries in buffer order, empty blocks skipped
ZipmapEntries(zm) == SelectSeq(zm, LAMBDA b : b.kind = "entry")

\* zipmapGet: {value} or {} when the key is not found
ZipmapGet(zm, k) == LET p == LookupRaw(zm, k) IN IF p = 0 THEN {} ELSE {zm[p].val}

\* zipmapExists
ZipmapExists(zm, k) == LookupRaw(zm, k) # 0

\* zipmapLen: the number of zipmapNext steps
ZipmapLen(zm) == Len(ZipmapEntries(zm))
=============================================================================
