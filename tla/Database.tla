------------------------------ MODULE Database ------------------------------
(***************************************************************************)
(* One database of Redis 1.3.6 with key expiry, the hash type and the    *)
(* sorted set type (redis.c "Expire", "Hashes", "ZSets", the type-agnostic *)
(* commands, and the active expire of serverCron), over the zipmap of      *)
(* module Zipmap and the skip list of module ZSkiplist.                    *)
(*                                                                         *)
(* A value is a string (its content does not matter here), a hash that is  *)
(* encoded as a zipmap or as a hash table, or a sorted set (its dict of    *)
(* member -> score and its skip list).  hval is a history variable:        *)
(* the field -> value map each HSET and HDEL promises the hash holds, kept *)
(* for the keys that hold a hash.  Time is the integer time(NULL).         *)
(***************************************************************************)
EXTENDS Zipmap, ZSkiplist, Integers, FiniteSets, TLC

CONSTANTS
  Keys,             \* key names
  Fields,           \* hash field strings
  Values,           \* hash value strings
  IntValues,        \* the values tryObjectEncoding turns into integers
  HashMaxEntries,   \* server.hash_max_zipmap_entries
  HashMaxValue,     \* server.hash_max_zipmap_value
  ExpireSeconds,    \* EXPIRE arguments
  ExpireLookups,    \* REDIS_EXPIRELOOKUPS_PER_CRON
  MaxTime,          \* the last second the model runs to
  Members,          \* sorted set members (naturals, in byte order)
  Scores,           \* the doubles strtod makes of ZADD and range arguments
  Incrs,            \* ZINCRBY increments
  RankArgs,         \* start and end arguments of ZREMRANGEBYRANK and ZRANGE
  Weights,          \* the doubles strtod makes of ZUNION/ZINTER WEIGHTS arguments
  Ops               \* the command families clients send

ASSUME IntValues \subseteq Values /\ StrLen \in [Fields \cup Values -> Nat]
ASSUME HashMaxEntries \in Nat /\ HashMaxValue \in Nat /\ ExpireSeconds \subseteq Int
ASSUME ExpireLookups \in Nat \ {0} /\ MaxTime \in Nat
ASSUME Members \subseteq Nat \ {0} /\ RankArgs \subseteq Int /\ MaxLevel \in Nat \ {0}
ASSUME Ops \subseteq {"hash", "string", "expire", "zset"}

VARIABLES
  dict,      \* db->dict: key -> object
  expires,   \* db->expires: key -> absolute unix time
  now,       \* time(NULL)
  hval,      \* history: key -> the fields and values the hash should hold
  crashed    \* a redisAssert failed and the server aborted

vars == <<dict, expires, now, hval, crashed>>

StringObject == [type |-> "string"]
ZipmapObject(zm) == [type |-> "hash", enc |-> "zipmap", zm |-> zm]
HtObject(ht) == [type |-> "hash", enc |-> "ht", ht |-> ht]
ZsetObject(d, zsl) == [type |-> "zset", dict |-> d, zsl |-> zsl]

Drop(f, k) == [x \in DOMAIN f \ {k} |-> f[x]]
Put(f, k, v) == (k :> v) @@ f

\* the database as one record, so that a handler is a chain of the calls
\* it makes; Install writes the result back.
DB == [dict |-> dict, expires |-> expires, hval |-> hval]
Install(R) == dict' = R.dict /\ expires' = R.expires /\ hval' = R.hval

IsHash(R, k) == k \in DOMAIN R.dict /\ R.dict[k].type = "hash"

\* Seeded defect: deleteKey leaves db->expires alone.
DeleteKeyKeepExpire(R, k) == [R EXCEPT !.dict = Drop(@, k), !.hval = Drop(@, k)]

\* deleteKey: the key leaves db->expires and db->dict
DeleteKey(R, k) ==
  [R EXCEPT !.dict = Drop(@, k), !.expires = Drop(@, k), !.hval = Drop(@, k)]

\* expireIfNeeded: a key is deleted once time(NULL) > when
ExpireIfNeeded(R, k) ==
  IF k \in DOMAIN R.expires /\ now > R.expires[k] THEN DeleteKey(R, k) ELSE R

\* deleteIfVolatile: a key with an expire is deleted whatever its time
DeleteIfVolatile(R, k) == IF k \in DOMAIN R.expires THEN DeleteKey(R, k) ELSE R

\* lookupKeyRead / lookupKeyWrite, for their effect on the database
LookupKeyRead(R, k) == ExpireIfNeeded(R, k)
LookupKeyWrite(R, k) == DeleteIfVolatile(R, k)

\* convertToRealHash: dictAdd of every zipmapNext entry, the first of equal
\* fields kept
ConvertToRealHash(zm) ==
  HtObject(FoldLeft(LAMBDA ht, b : IF b.key \in DOMAIN ht THEN ht ELSE Put(ht, b.key, b.val),
                    <<>>, ZipmapEntries(zm)))

\* the first conversion test of hsetCommand: a raw field or value longer
\* than hash_max_zipmap_value (the value, the last bulk argument, is
\* integer encoded when it can be, and then not measured)
TooBig(f, v) ==
  \/ StrLen[f] > HashMaxValue
  \/ v \notin IntValues /\ StrLen[v] > HashMaxValue

\* Seeded defect: no conversion when the zipmap grows past
\* hash_max_zipmap_entries.
HSetObjectNoCountCheck(o, f, v) ==
  LET o1 == IF o.enc = "zipmap" /\ TooBig(f, v) THEN ConvertToRealHash(o.zm) ELSE o
  IN IF o1.enc = "zipmap" THEN ZipmapObject(ZipmapSet(o1.zm, f, v).zm)
     ELSE HtObject(Put(o1.ht, f, v))

\* hsetCommand on a key that holds a hash
HSetObject(o, f, v) ==
  LET o1 == IF o.enc = "zipmap" /\ TooBig(f, v) THEN ConvertToRealHash(o.zm) ELSE o
      r == ZipmapSet(o1.zm, f, v)
  IN IF o1.enc = "zipmap"
       THEN IF ~r.update /\ ZipmapLen(r.zm) > HashMaxEntries
              THEN ConvertToRealHash(r.zm)
              ELSE ZipmapObject(r.zm)
       ELSE HtObject(Put(o1.ht, f, v))

\* hsetCommand: lookupKeyWrite, a new zipmap hash for an absent key, the
\* wrong-type reply for another type
HSet(k, f, v) ==
  LET R1 == LookupKeyWrite(DB, k)
      R2 == IF k \in DOMAIN R1.dict THEN R1
            ELSE [R1 EXCEPT !.dict = Put(@, k, ZipmapObject(ZipmapNew)), !.hval = Put(@, k, <<>>)]
  IN IF ~IsHash(R2, k) THEN Install(R1)
     ELSE Install([R2 EXCEPT !.dict[k] = HSetObject(@, f, v),
                             !.hval[k] = Put(@, f, v)])

\* hdelCommand (the hash stays, even when it has no field left)
HDel(k, f) ==
  LET R1 == LookupKeyWrite(DB, k)
      o == R1.dict[k]
  IN IF ~IsHash(R1, k) THEN Install(R1)
     ELSE Install([R1 EXCEPT
            !.dict[k] = IF o.enc = "zipmap" THEN ZipmapObject(ZipmapDel(o.zm, f).zm)
                        ELSE HtObject(Drop(o.ht, f)),
            !.hval[k] = Drop(@, f)])

\* hget, hexists, hlen, hgetall (and get, exists, type): lookupKeyRead is
\* the only change they make to the database; what they reply is stated
\* by HashAgrees.
Read(k) == Install(LookupKeyRead(DB, k))

\* setGenericCommand(c, 0): dictReplace, then removeExpire
Set(k) ==
  Install([DB EXCEPT !.dict = Put(@, k, StringObject), !.expires = Drop(@, k),
                     !.hval = Drop(@, k)])

\* setGenericCommand(c, 1): deleteIfVolatile, then dictAdd
SetNx(k) ==
  LET R1 == DeleteIfVolatile(DB, k)
  IN IF k \in DOMAIN R1.dict THEN Install(R1)
     ELSE Install([R1 EXCEPT !.dict = Put(@, k, StringObject)])

\* delCommand
Del(k) == Install(DeleteKey(DB, k))

\* expireGenericCommand: dictFind (no expiry check); a negative time
\* deletes the key; setExpire fails when the key already has an expire.
Expire(k, s) ==
  IF k \notin DOMAIN dict THEN UNCHANGED <<dict, expires, hval>>
  ELSE IF s < 0 THEN Install(DeleteKey(DB, k))
  ELSE IF k \in DOMAIN expires THEN UNCHANGED <<dict, expires, hval>>
  ELSE /\ expires' = Put(expires, k, now + s)
       /\ UNCHANGED <<dict, hval>>

\* renameGenericCommand(c, 0): lookupKeyWrite of the source,
\* deleteIfVolatile of the destination, dictAdd or dictReplace, deleteKey
\* of the source
Rename(src, dst) ==
  LET R1 == LookupKeyWrite(DB, src)
      R2 == DeleteIfVolatile(R1, dst)
      R3 == [R2 EXCEPT !.dict = Put(@, dst, R1.dict[src]),
                       !.hval = IF src \in DOMAIN R1.hval THEN Put(@, dst, R1.hval[src])
                                ELSE Drop(@, dst)]
  IN /\ src # dst
     /\ IF src \notin DOMAIN R1.dict THEN Install(R1)
        ELSE Install(DeleteKey(R3, src))

\* redisAssert: _redisAssert logs and exits the process
Abort == crashed' = TRUE /\ UNCHANGED <<dict, expires, hval>>

InstallZset(R, k, d, zsl) ==
  Install([R EXCEPT !.dict[k] = ZsetObject(d, zsl)]) /\ UNCHANGED crashed

\* Seeded defect: the skip list node is looked up under the new score.
ZAddDeleteNewScore(k, m, sc, incr) ==
  LET R1 == LookupKeyWrite(DB, k)
      R2 == IF k \in DOMAIN R1.dict THEN R1
            ELSE [R1 EXCEPT !.dict = Put(@, k, ZsetObject(<<>>, ZslCreate))]
      zs == R2.dict[k]
      score == IF incr /\ m \in DOMAIN zs.dict THEN DAdd(zs.dict[m], sc) ELSE sc
      del == ZslDelete(zs.zsl, score, m)
  IN IF zs.type # "zset" THEN Install(R1) /\ UNCHANGED crashed
     ELSE IF m \notin DOMAIN zs.dict
       THEN \E level \in 1..MaxLevel :
              InstallZset(R2, k, Put(zs.dict, m, score), ZslInsert(zs.zsl, score, m, level))
     ELSE IF DEqual(score, zs.dict[m]) THEN Install(R2) /\ UNCHANGED crashed
     ELSE IF ~del.deleted THEN Abort
     ELSE \E level \in 1..MaxLevel :
            InstallZset(R2, k, Put(zs.dict, m, score), ZslInsert(del.zsl, score, m, level))

\* zaddGenericCommand: ZADD (incr FALSE) and ZINCRBY (incr TRUE).  A new
\* member is inserted with a zslRandomLevel() level; a member whose score
\* changes (*score != *oldscore) is deleted from the skip list with its old
\* score, redisAssert(deleted != 0), and inserted again.
ZAdd(k, m, sc, incr) ==
  LET R1 == LookupKeyWrite(DB, k)
      R2 == IF k \in DOMAIN R1.dict THEN R1
            ELSE [R1 EXCEPT !.dict = Put(@, k, ZsetObject(<<>>, ZslCreate))]
      zs == R2.dict[k]
      score == IF incr /\ m \in DOMAIN zs.dict THEN DAdd(zs.dict[m], sc) ELSE sc
      del == ZslDelete(zs.zsl, zs.dict[m], m)
  IN IF zs.type # "zset" THEN Install(R1) /\ UNCHANGED crashed
     ELSE IF m \notin DOMAIN zs.dict
       THEN \E level \in 1..MaxLevel :
              InstallZset(R2, k, Put(zs.dict, m, score), ZslInsert(zs.zsl, score, m, level))
     ELSE IF DEqual(score, zs.dict[m]) THEN Install(R2) /\ UNCHANGED crashed
     ELSE IF ~del.deleted THEN Abort
     ELSE \E level \in 1..MaxLevel :
            InstallZset(R2, k, Put(zs.dict, m, score), ZslInsert(del.zsl, score, m, level))

\* lookupKeyWriteOrReply and checkType: the sorted set at k, if any
IsZset(R, k) == k \in DOMAIN R.dict /\ R.dict[k].type = "zset"

\* zremCommand (the key stays, even when the set is left empty)
ZRem(k, m) ==
  LET R1 == LookupKeyWrite(DB, k)
      zs == R1.dict[k]
      del == ZslDelete(zs.zsl, zs.dict[m], m)
  IN IF ~IsZset(R1, k) \/ m \notin DOMAIN zs.dict THEN Install(R1) /\ UNCHANGED crashed
     ELSE IF ~del.deleted THEN Abort
     ELSE InstallZset(R1, k, Drop(zs.dict, m), del.zsl)

\* Seeded defect: the removed members stay in the dict.
ZRemRangeByScoreKeepDict(k, min, max) ==
  LET R1 == LookupKeyWrite(DB, k)
      zs == R1.dict[k]
      r == ZslDeleteRangeByScore(zs.zsl, min, max)
  IN IF ~IsZset(R1, k) THEN Install(R1) /\ UNCHANGED crashed
     ELSE InstallZset(R1, k, zs.dict, r.zsl)

\* zremrangebyscoreCommand
ZRemRangeByScore(k, min, max) ==
  LET R1 == LookupKeyWrite(DB, k)
      zs == R1.dict[k]
      r == ZslDeleteRangeByScore(zs.zsl, min, max)
  IN IF ~IsZset(R1, k) THEN Install(R1) /\ UNCHANGED crashed
     ELSE InstallZset(R1, k, [m \in DOMAIN zs.dict \ r.removed |-> zs.dict[m]], r.zsl)

\* zremrangebyrankCommand: negative indexes from the end, then clamped
ZRemRangeByRank(k, start0, end0) ==
  LET R1 == LookupKeyWrite(DB, k)
      zs == R1.dict[k]
      llen == zs.zsl.length
      s1 == IF start0 < 0 THEN llen + start0 ELSE start0
      e1 == IF end0 < 0 THEN llen + end0 ELSE end0
      start == IF s1 < 0 THEN 0 ELSE s1
      e2 == IF e1 < 0 THEN 0 ELSE e1
      end == IF e2 >= llen THEN llen - 1 ELSE e2
      r == ZslDeleteRangeByRank(zs.zsl, start + 1, end + 1)
  IN IF ~IsZset(R1, k) \/ start > e2 \/ start >= llen THEN Install(R1) /\ UNCHANGED crashed
     ELSE InstallZset(R1, k, [m \in DOMAIN zs.dict \ r.removed |-> zs.dict[m]], r.zsl)

\* weight * score, as doubles
DMul(a, b) == IF a = NaN \/ b = NaN THEN NaN ELSE a * b

\* zunionInterAggregate(target, val, aggregate)
ZAggregate(ag, t, v) ==
  CASE ag = "sum" -> DAdd(t, v)
    [] ag = "min" -> IF DLess(v, t) THEN v ELSE t
    [] ag = "max" -> IF DLess(t, v) THEN v ELSE t

\* qsort by qsortCompareZsetopsrcByCardinality: the source indexes, the
\* smaller dicts (a missing key counts 0) first
BySize(ds) ==
  SortSeq([i \in DOMAIN ds |-> i],
          LAMBDA a, b : Cardinality(DOMAIN ds[a]) < Cardinality(DOMAIN ds[b]))

\* Seeded defect: the inner loop starts at the source itself.
AggrFromSelf(ag, s, w, m, i) ==
  FoldLeft(LAMBDA t, j : IF m \in DOMAIN s[j] THEN ZAggregate(ag, t, DMul(w[j], s[j][m])) ELSE t,
           DMul(w[i], s[i][m]), [x \in 1..(Len(s) - i + 1) |-> i + x - 1])

\* the score of member m first met in source i: its weighted score there,
\* aggregated with the weighted score of each later source that holds it
AggrFrom(ag, s, w, m, i) ==
  FoldLeft(LAMBDA t, j : IF m \in DOMAIN s[j] THEN ZAggregate(ag, t, DMul(w[j], s[j][m])) ELSE t,
           DMul(w[i], s[i][m]), [x \in 1..(Len(s) - i) |-> i + x])

\* the member -> score map zunionInterGenericCommand builds from the
\* source dicts ds (<<>> for a missing key) and weights ws, after sorting
\* them by size.  ZINTER iterates the smallest source (nothing if it is
\* empty) and keeps the members every other source holds; ZUNION iterates
\* every source and skips members already added.
ZUnionInterDict(op, ds, ws, ag) ==
  LET o == BySize(ds)
      s == [j \in DOMAIN o |-> ds[o[j]]]
      w == [j \in DOMAIN o |-> ws[o[j]]]
      n == Len(s)
      First(m) == Min({i \in 1..n : m \in DOMAIN s[i]})
  IN IF op = "inter"
       THEN [m \in {m \in DOMAIN s[1] : \A j \in 2..n : m \in DOMAIN s[j]} |->
               AggrFrom(ag, s, w, m, 1)]
       ELSE [m \in UNION {DOMAIN s[i] : i \in 1..n} |-> AggrFrom(ag, s, w, m, First(m))]

\* zunionInterGenericCommand(c, dst, op): every source is looked up with
\* lookupKeyWrite first (a wrong type stops there); an AGGREGATE other
\* than SUM, MIN or MAX ("bad") is a syntax error found after the
\* lookups; then dst is deleted and bound to a new sorted set, whose
\* members are zslInsert'ed in dict order (their levels are taken equal).
\* A ZUNION/ZINTER with fewer than one source replies an error at once.
ZUnionInter(op, dst, srcs, ws, ag) ==
  LET Lookups(q) == FoldLeft(LAMBDA r, k : LookupKeyWrite(r, k), DB, q)
      R == Lookups(srcs)
      bad == {i \in DOMAIN srcs : srcs[i] \in DOMAIN R.dict /\ R.dict[srcs[i]].type # "zset"}
      ds == [i \in DOMAIN srcs |-> IF srcs[i] \in DOMAIN R.dict THEN R.dict[srcs[i]].dict ELSE <<>>]
      res == ZUnionInterDict(op, ds, ws, ag)
      R2 == DeleteKey(R, dst)
  IN IF bad # {} THEN Install(Lookups(SubSeq(srcs, 1, Min(bad)))) /\ UNCHANGED crashed
     ELSE IF ag = "bad" THEN Install(R) /\ UNCHANGED crashed
     ELSE \E level \in 1..MaxLevel :
            LET zsl == FoldLeft(LAMBDA z, m : ZslInsert(z, res[m], m, level),
                                ZslCreate, SetToSeq(DOMAIN res))
            IN Install([R2 EXCEPT !.dict = Put(@, dst, ZsetObject(res, zsl))]) /\ UNCHANGED crashed

\* One round of the active expire loop of serverCron: num =
\* min(dictSize(expires), REDIS_EXPIRELOOKUPS_PER_CRON) draws of
\* dictGetRandomKey; a drawn key with now > t is deleted (and can not be
\* drawn again).  The set of possible [R, expired].
RECURSIVE Draws(_, _, _)
Draws(R, num, expired) ==
  IF num = 0 \/ DOMAIN R.expires = {} THEN {[db |-> R, expired |-> expired]}
  ELSE UNION {IF now > R.expires[k] THEN Draws(DeleteKey(R, k), num - 1, expired + 1)
              ELSE Draws(R, num - 1, expired) : k \in DOMAIN R.expires}

\* the do ... while (expired > REDIS_EXPIRELOOKUPS_PER_CRON/4) loop
RECURSIVE ActiveExpireLoop(_)
ActiveExpireLoop(R) ==
  LET num == IF Cardinality(DOMAIN R.expires) > ExpireLookups THEN ExpireLookups
             ELSE Cardinality(DOMAIN R.expires)
  IN UNION {IF d.expired > ExpireLookups \div 4 THEN ActiveExpireLoop(d.db) ELSE {d.db}
            : d \in Draws(R, num, 0)}

ActiveExpire == \E R \in ActiveExpireLoop(DB) : Install(R) /\ UNCHANGED now

\* time(NULL) moves on
Tick == now < MaxTime /\ now' = now + 1 /\ UNCHANGED <<dict, expires, hval>>

\* the member of node p; 0 stands for a member read through a NULL node
Obj(zsl, p) == IF p \in DOMAIN zsl.nodes THEN zsl.nodes[p].obj ELSE 0

ZRangeReply(zsl, start0, end0, reverse) ==
  LET llen == zsl.length
      s1 == IF start0 < 0 THEN llen + start0 ELSE start0
      e1 == IF end0 < 0 THEN llen + end0 ELSE end0
      start == IF s1 < 0 THEN 0 ELSE s1
      e2 == IF e1 < 0 THEN 0 ELSE e1
      end == IF e2 >= llen THEN llen - 1 ELSE e2
      ln == IF reverse
              THEN IF start = 0 THEN Len(zsl.nodes) ELSE ZslGetElementByRank(zsl, llen - start)
              ELSE IF start = 0 THEN Fwd(zsl, 0, 1) ELSE ZslGetElementByRank(zsl, start + 1)
  IN IF start > e2 \/ start >= llen THEN <<>>
     ELSE [j \in 1..(end - start + 1) |-> Obj(zsl, IF reverse THEN ln - (j - 1) ELSE ln + (j - 1))]

\* the loop of genericZrangebyscoreCommand from node ln: skip offset
\* nodes, stop at limit (-1: none) or past max
RECURSIVE ScoreRangeFrom(_, _, _, _, _, _)
ScoreRangeFrom(zsl, ln, max, maxex, offset, limit) ==
  LET sc == zsl.nodes[ln].score
      next == Fwd(zsl, ln, 1)
  IN IF ln = 0 \/ ~(IF maxex THEN DLess(sc, max) ELSE DLessEq(sc, max)) THEN <<>>
     ELSE IF offset > 0 THEN ScoreRangeFrom(zsl, next, max, maxex, offset - 1, limit)
     ELSE IF limit = 0 THEN <<>>
     ELSE <<zsl.nodes[ln].obj>>
            \o ScoreRangeFrom(zsl, next, max, maxex, offset, IF limit > 0 THEN limit - 1 ELSE limit)

\* while (minex && ln && ln->score == min) ln = ln->forward[0]
RECURSIVE SkipEqual(_, _, _)
SkipEqual(zsl, ln, min) ==
  IF ln # 0 /\ DEqual(zsl.nodes[ln].score, min) THEN SkipEqual(zsl, Fwd(zsl, ln, 1), min) ELSE ln

\* genericZrangebyscoreCommand: ZRANGEBYSCORE (ZCOUNT is its length, with
\* no LIMIT); a "(" bound is exclusive, a negative offset counts as 0
ZRangeByScoreReply(zsl, min, minex, max, maxex, offset0, limit) ==
  LET first == ZslFirstWithScore(zsl, min)
      ln == IF minex THEN SkipEqual(zsl, first, min) ELSE first
  IN ScoreRangeFrom(zsl, ln, max, maxex, IF offset0 < 0 THEN 0 ELSE offset0, limit)

\* zrankGenericCommand: ZRANK (reverse FALSE) and ZREVRANK; -1 is nil
ZRankReply(zs, m, reverse) ==
  LET rank == ZslGetRank(zs.zsl, zs.dict[m], m)
  IN IF m \notin DOMAIN zs.dict \/ rank = 0 THEN -1
     ELSE IF reverse THEN zs.zsl.length - rank ELSE rank - 1

Init ==
  /\ dict = <<>>
  /\ expires = <<>>
  /\ now = 0
  /\ hval = <<>>
  /\ crashed = FALSE

\* the commands of the families in Ops, and the type-agnostic ones
KeyCommand ==
  \/ "hash" \in Ops /\ \E k \in Keys, f \in Fields, v \in Values : HSet(k, f, v)
  \/ "hash" \in Ops /\ \E k \in Keys, f \in Fields : HDel(k, f)
  \/ "string" \in Ops /\ \E k \in Keys : Set(k)
  \/ "string" \in Ops /\ \E k \in Keys : SetNx(k)
  \/ "expire" \in Ops /\ \E k \in Keys, s \in ExpireSeconds : Expire(k, s)
  \/ \E k \in Keys : Read(k)
  \/ \E k \in Keys : Del(k)
  \/ \E src, dst \in Keys : Rename(src, dst)

ZsetCommand ==
  \/ \E k \in Keys, m \in Members, s \in Scores : ZAdd(k, m, s, FALSE)
  \/ \E k \in Keys, m \in Members, s \in Incrs : ZAdd(k, m, s, TRUE)
  \/ \E k \in Keys, m \in Members : ZRem(k, m)
  \/ \E k \in Keys, min, max \in Scores : ZRemRangeByScore(k, min, max)
  \/ \E k \in Keys, start, end \in RankArgs : ZRemRangeByRank(k, start, end)
  \/ \E op \in {"union", "inter"}, dst \in Keys, n \in 1..2, ag \in {"sum", "min", "max", "bad"} :
       \E srcs \in [1..n -> Keys] : ZUnionInter(op, dst, srcs, [i \in 1..n |-> 1], ag)

Next ==
  /\ ~crashed
  /\ \/ KeyCommand /\ UNCHANGED <<now, crashed>>
     \/ "zset" \in Ops /\ ZsetCommand /\ UNCHANGED now
     \/ "expire" \in Ops /\ ActiveExpire /\ UNCHANGED crashed
     \/ "expire" \in Ops /\ Tick /\ UNCHANGED crashed

Spec == Init /\ [][Next]_vars

-----------------------------------------------------------------------------
(* Properties                                                              *)

Blocks ==
  [kind : {"entry"}, key : Fields, val : Values, free : 0..ValueMaxFree]
    \cup [kind : {"empty"}, len : Nat]
IsObject(o) ==
  \/ o = StringObject
  \/ o.type = "hash" /\ o.enc = "zipmap" /\ o.zm \in Seq(Blocks)
  \/ o.type = "hash" /\ o.enc = "ht" /\ DOMAIN o.ht \subseteq Fields
       /\ \A f \in DOMAIN o.ht : o.ht[f] \in Values
  \/ o.type = "zset" /\ DOMAIN o.dict \subseteq Members /\ o.zsl.level \in 1..MaxLevel
       /\ \A p \in DOMAIN o.zsl.nodes :
            o.zsl.nodes[p].obj \in Members /\ o.zsl.nodes[p].lvl \in 1..MaxLevel
            /\ DOMAIN o.zsl.nodes[p].span = 2..o.zsl.nodes[p].lvl

TypeOK ==
  /\ DOMAIN dict \subseteq Keys /\ \A k \in DOMAIN dict : IsObject(dict[k])
  /\ DOMAIN expires \subseteq Keys /\ \A k \in DOMAIN expires : expires[k] \in Int
  /\ now \in 0..MaxTime
  /\ DOMAIN hval = {k \in DOMAIN dict : dict[k].type = "hash"}
  /\ crashed \in BOOLEAN

\* What HGET, HEXISTS, HLEN and HGETALL reply from a hash (zipmapGet,
\* zipmapExists, zipmapLen, zipmapNext, or the hash table) is what the
\* HSET and HDEL calls on it since it was created promise: through
\* in-place rewrites, reuse of empty blocks, the recursive move of a grown
\* entry and the conversion to a hash table.
HashAgrees ==
  \A k \in DOMAIN hval :
    LET o == dict[k] IN
    IF o.enc = "zipmap"
      THEN /\ \A f \in Fields :
                /\ ZipmapGet(o.zm, f) = IF f \in DOMAIN hval[k] THEN {hval[k][f]} ELSE {}
                /\ ZipmapExists(o.zm, f) = (f \in DOMAIN hval[k])
           /\ ZipmapLen(o.zm) = Cardinality(DOMAIN hval[k])
      ELSE o.ht = hval[k]

\* spec.md 8: a key has an expire only while it is in the main dictionary
\* (deleteKey, expireIfNeeded, deleteIfVolatile, SET, RENAME and the
\* active expire keep db->expires inside db->dict).
ExpiresInMain == DOMAIN expires \subseteq DOMAIN dict

\* spec.md 8: a hash stays a zipmap only while it has at most
\* hash_max_zipmap_entries fields and every field and value is at most
\* hash_max_zipmap_value bytes (the two conversion tests of hsetCommand).
ZipmapWithinLimits ==
  \A k \in DOMAIN dict :
    dict[k].type = "hash" /\ dict[k].enc = "zipmap" =>
      LET es == ZipmapEntries(dict[k].zm) IN
      /\ Len(es) <= HashMaxEntries
      /\ \A i \in DOMAIN es : StrLen[es[i].key] <= HashMaxValue /\ StrLen[es[i].val] <= HashMaxValue

ZsetKeys == {k \in DOMAIN dict : dict[k].type = "zset"}

\* the members of a sorted set in (score, member) order, from its dict
SortedMembers(d) ==
  SortSeq(SetToSeq(DOMAIN d), LAMBDA a, b : d[a] < d[b] \/ (d[a] = d[b] /\ a < b))

\* spec.md 3: the dict and the skip list of a sorted set hold the same
\* members with the same scores, the skip list in strict (score, member)
\* order with zsl->length nodes: through ZADD, ZINCRBY, ZREM and the range
\* deletes, which change the two views one after the other.
ZsetAgrees ==
  \A k \in ZsetKeys :
    LET z == dict[k].zsl
        d == dict[k].dict
    IN /\ z.length = Len(z.nodes)
       /\ {z.nodes[p].obj : p \in DOMAIN z.nodes} = DOMAIN d
       /\ \A p \in DOMAIN z.nodes : d[z.nodes[p].obj] = z.nodes[p].score
       /\ \A p \in 1..(Len(z.nodes) - 1) :
            Before(z.nodes[p], z.nodes[p + 1].score, z.nodes[p + 1].obj)

\* spec.md 3 ("each forward pointer carries a span count"): zsl->level is
\* the highest node level, and the span stored with every pointer up to it
\* is the number of level-1 steps the pointer skips (to the end for NULL),
\* as zslInsert and zslDeleteNode work it out from the ranks crossed.
SpansCorrect ==
  \A k \in ZsetKeys :
    LET z == dict[k].zsl
        n == Len(z.nodes)
        Top(p) == IF p = 0 THEN z.level ELSE z.nodes[p].lvl
        Target(p, i) == IF Fwd(z, p, i) # 0 THEN Fwd(z, p, i) ELSE n
    IN /\ z.level = Max({1} \cup {z.nodes[p].lvl : p \in DOMAIN z.nodes})
       /\ \A p \in 0..n : \A i \in 2..Top(p) : Span(z, p, i) = Target(p, i) - p

\* ranges by index as spec.md 4 describes them: negative indexes count
\* from the end, the end is clamped to the last element
RangeRef(seq, start, end) ==
  LET n == Len(seq)
      lo == IF start < 0 THEN (IF n + start < 0 THEN 0 ELSE n + start) ELSE start
      hi == IF end < 0 THEN n + end ELSE (IF end > n - 1 THEN n - 1 ELSE end)
  IN IF hi < lo THEN <<>> ELSE SubSeq(seq, lo + 1, hi + 1)

\* the members with a score in the interval, after offset, at most limit
ScoreRef(srt, d, min, minex, max, maxex, offset, limit) ==
  LET Above(m) == IF minex THEN min < d[m] ELSE min <= d[m]
      Below(m) == IF maxex THEN d[m] < max ELSE d[m] <= max
      in == SelectSeq(srt, LAMBDA m : Above(m) /\ Below(m))
      rest == IF offset >= Len(in) THEN <<>> ELSE SubSeq(in, offset + 1, Len(in))
  IN IF limit < 0 \/ limit >= Len(rest) THEN rest ELSE SubSeq(rest, 1, limit)

ZStoreRef(op, ds, ws, ag) ==
  LET n == Len(ds)
      Idx(m) == {i \in 1..n : m \in DOMAIN ds[i]}
      all == UNION {DOMAIN ds[i] : i \in 1..n}
      Weighted(m) == [i \in Idx(m) |-> ws[i] * ds[i][m]]
  IN [m \in IF op = "union" THEN all ELSE {m \in all : Idx(m) = 1..n} |->
        CASE ag = "sum" -> SumFunction(Weighted(m))
          [] ag = "min" -> Min(Range(Weighted(m)))
          [] ag = "max" -> Max(Range(Weighted(m)))]

ZStoreCorrect(dss) ==
  \A op \in {"union", "inter"}, ag \in {"sum", "min", "max"}, ds \in dss :
    \A ws \in [DOMAIN ds -> Weights] :
      ZUnionInterDict(op, ds, ws, ag) = ZStoreRef(op, ds, ws, ag)

ZSources == UNION {[S -> Scores] : S \in SUBSET Members}
ZStoreCases == ZStoreCorrect([1..1 -> ZSources] \cup [1..2 -> ZSources])

ZStoreAgrees ==
  /\ ZStoreCases
  /\ \A k \in ZsetKeys : ZStoreCorrect({<<dict[k].dict>>, <<dict[k].dict, dict[k].dict>>})

\* No redisAssert of the sorted set commands fails: the re-insert of
\* ZADD and ZINCRBY and ZREM find the member in the skip list under the
\* score its dict holds, and the server does not abort.
NoAbort == ~crashed
=============================================================================
