------------------------------ MODULE ZSkiplist ------------------------------
(***************************************************************************)
(* The skip list of Redis 1.3.6 sorted sets (redis.c, "ZSets"): nodes     *)
(* ordered by (score, member), a forward pointer per level and, from       *)
(* level 2 up, the span of each pointer, which the rank queries add up.    *)
(*                                                                         *)
(* The list is the record [level, length, nodes, hspan]: nodes is the      *)
(* level-1 chain in order, a node is [score, obj, lvl, span] with          *)
(* span[i] (2 <= i <= lvl) the stored span of its level-i pointer, and     *)
(* hspan the header's stored spans.  The forward pointer of a node at      *)
(* level i is the next node of level >= i (Fwd), and tail and backward     *)
(* are the last and previous node: those pointer assignments are taken as  *)
(* right, while zsl->level, zsl->length and every span are the values the  *)
(* code computes, so that the rank arithmetic is checked.  Position 0 is   *)
(* the header; 0 returned for a node is NULL.                             *)
(*                                                                         *)
(* Scores are doubles: integers and the model value NaN, with the C        *)
(* comparisons (every comparison with NaN is false).  Members are strings *)
(* represented by naturals in byte order (compareStringObjects).          *)
(***************************************************************************)
EXTENDS Integers, Sequences, SequencesExt

CONSTANTS
  MaxLevel,  \* ZSKIPLIST_MAXLEVEL
  NaN        \* the double strtod returns for "nan"

\* the C operators <, == and != on doubles
DLess(a, b) == a # NaN /\ b # NaN /\ a < b
DEqual(a, b) == a # NaN /\ b # NaN /\ a = b
DLessEq(a, b) == DLess(a, b) \/ DEqual(a, b)
DAdd(a, b) == IF a = NaN \/ b = NaN THEN NaN ELSE a + b

\* the test of the insert and delete searches: the node comes before (s, o)
Before(n, s, o) == DLess(n.score, s) \/ (DEqual(n.score, s) /\ n.obj < o)

\* zslCreate: level 1, no node, the header's spans 0
ZslCreate == [level |-> 1, length |-> 0, nodes |-> <<>>, hspan |-> [i \in 2..MaxLevel |-> 0]]

\* x->forward[i-1]: the next node of level >= i, or NULL
Fwd(zsl, p, i) ==
  LET after == {q \in (p + 1)..Len(zsl.nodes) : zsl.nodes[q].lvl >= i}
  IN IF after = {} THEN 0 ELSE Min(after)

\* i > 0 ? x->span[i-1] : 1, with the header at position 0
Span(zsl, p, i) ==
  IF i = 1 THEN 1 ELSE IF p = 0 THEN zsl.hspan[i] ELSE zsl.nodes[p].span[i]

\* The loop tests of the searches, as data: t.kind names the test, and
\* Advances(t, n, r) says whether the search moves on to node n, r being
\* the rank it would reach.
Advances(t, n, r) ==
  CASE t.kind = "before"    -> Before(n, t.s, t.o)                 \* insert, delete
    [] t.kind = "before_eq" -> Before(n, t.s, t.o) \/ (DEqual(n.score, t.s) /\ n.obj = t.o)
                                                                   \* zslGetRank
    [] t.kind = "score_lt"  -> DLess(n.score, t.s)                 \* by score
    [] t.kind = "rank_lt"   -> r < t.rank                          \* zslDeleteRangeByRank
    [] t.kind = "rank_le"   -> r <= t.rank                         \* zslGetElementByRank

\* one level of a search: while (x->forward[i] && test) x = x->forward[i],
\* adding the spans crossed to r
RECURSIVE Walk(_, _, _, _, _)
Walk(zsl, x, i, r, t) ==
  LET nx == Fwd(zsl, x, i)
      r1 == r + Span(zsl, x, i)
  IN IF nx # 0 /\ Advances(t, zsl.nodes[nx], r1) THEN Walk(zsl, nx, i, r1, t)
     ELSE [x |-> x, r |-> r]

\* the search from level i down to level 1: update[i] and rank[i] for
\* every level, as a function from level to [x, r]
RECURSIVE Descend(_, _, _, _, _)
Descend(zsl, i, x, r, t) ==
  IF i = 0 THEN <<>>
  ELSE LET w == Walk(zsl, x, i, r, t)
       IN (i :> w) @@ Descend(zsl, i - 1, w.x, w.r, t)

Search(zsl, t) == Descend(zsl, zsl.level, 0, 0, t)

\* Seeded defect: the levels above the new node keep their spans.
ZslInsertNoSpanBump(zsl, s, o, level) ==
  LET d == Search(zsl, [kind |-> "before", s |-> s, o |-> o])
      upd(i) == IF i > zsl.level THEN 0 ELSE d[i].x
      rank(i) == IF i > zsl.level THEN 0 ELSE d[i].r
      old(i) == IF i > zsl.level THEN zsl.length ELSE Span(zsl, upd(i), i)
      top == IF level > zsl.level THEN level ELSE zsl.level
      NewSpan(p, i, v) ==
        IF i > top \/ p # upd(i) \/ i > level THEN v ELSE rank(1) - rank(i) + 1
      node == [score |-> s, obj |-> o, lvl |-> level,
               span |-> [i \in 2..level |-> old(i) - (rank(1) - rank(i))]]
      nodes1 == [q \in DOMAIN zsl.nodes |->
                   [zsl.nodes[q] EXCEPT !.span = [i \in DOMAIN @ |-> NewSpan(q, i, @[i])]]]
  IN [level |-> top, length |-> zsl.length + 1,
      nodes |-> InsertAt(nodes1, upd(1) + 1, node),
      hspan |-> [i \in 2..MaxLevel |-> NewSpan(0, i, zsl.hspan[i])]]

\* zslInsert of (s, o) as a node of the given zslRandomLevel() level
ZslInsert(zsl, s, o, level) ==
  LET d == Search(zsl, [kind |-> "before", s |-> s, o |-> o])
      upd(i) == IF i > zsl.level THEN 0 ELSE d[i].x
      rank(i) == IF i > zsl.level THEN 0 ELSE d[i].r
      \* update[i]->span[i-1] before the insert (zsl->length on new levels)
      old(i) == IF i > zsl.level THEN zsl.length ELSE Span(zsl, upd(i), i)
      top == IF level > zsl.level THEN level ELSE zsl.level
      NewSpan(p, i, v) ==
        IF i > top \/ p # upd(i) THEN v
        ELSE IF i <= level THEN rank(1) - rank(i) + 1
        ELSE v + 1
      node == [score |-> s, obj |-> o, lvl |-> level,
               span |-> [i \in 2..level |-> old(i) - (rank(1) - rank(i))]]
      nodes1 == [q \in DOMAIN zsl.nodes |->
                   [zsl.nodes[q] EXCEPT !.span = [i \in DOMAIN @ |-> NewSpan(q, i, @[i])]]]
  IN [level |-> top, length |-> zsl.length + 1,
      nodes |-> InsertAt(nodes1, upd(1) + 1, node),
      hspan |-> [i \in 2..MaxLevel |-> NewSpan(0, i, zsl.hspan[i])]]

\* Seeded defect: the loop lacks its zsl->level > 1 test.
RECURSIVE ShrinkPastOne(_, _)
ShrinkPastOne(level, nodes) ==
  IF level > 0 /\ \A q \in DOMAIN nodes : nodes[q].lvl < level
    THEN ShrinkPastOne(level - 1, nodes) ELSE level

\* the while loop of zslDeleteNode that lowers zsl->level
RECURSIVE Shrink(_, _)
Shrink(level, nodes) ==
  IF level > 1 /\ \A q \in DOMAIN nodes : nodes[q].lvl < level
    THEN Shrink(level - 1, nodes) ELSE level

\* zslDeleteNode of the node at p, upd[i] being update[i]
ZslDeleteNode(zsl, p, upd) ==
  LET x == zsl.nodes[p]
      NewSpan(q, i, v) ==
        IF i > zsl.level \/ q # upd[i] THEN v
        ELSE IF Fwd(zsl, q, i) = p THEN v + x.span[i] - 1
        ELSE v - 1
      nodes1 == [q \in DOMAIN zsl.nodes |->
                   [zsl.nodes[q] EXCEPT !.span = [i \in DOMAIN @ |-> NewSpan(q, i, @[i])]]]
      nodes2 == RemoveAt(nodes1, p)
  IN [level |-> Shrink(zsl.level, nodes2), length |-> zsl.length - 1,
      nodes |-> nodes2,
      hspan |-> [i \in 2..MaxLevel |-> NewSpan(0, i, zsl.hspan[i])]]

Updates(d) == [i \in DOMAIN d |-> d[i].x]

\* zslDelete: [zsl, deleted]; the node after update[0] is deleted only if
\* its score == s and its member is o
ZslDelete(zsl, s, o) ==
  LET d == Search(zsl, [kind |-> "before", s |-> s, o |-> o])
      x == Fwd(zsl, d[1].x, 1)
  IN IF x # 0 /\ DEqual(s, zsl.nodes[x].score) /\ zsl.nodes[x].obj = o
       THEN [zsl |-> ZslDeleteNode(zsl, x, Updates(d)), deleted |-> TRUE]
       ELSE [zsl |-> zsl, deleted |-> FALSE]

\* the deletion loop of the range deletes: while x && (x->score <= max, or
\* traversed <= end), delete x (and dictDelete its member), traversed++.
\* [zsl, removed members].
RECURSIVE DeleteWhile(_, _, _, _, _)
DeleteWhile(zsl, upd, t, removed, c) ==
  LET x == Fwd(zsl, upd[1], 1)
      more == IF c.kind = "score_le" THEN DLessEq(zsl.nodes[x].score, c.max) ELSE t <= c.end
  IN IF x # 0 /\ more
       THEN DeleteWhile(ZslDeleteNode(zsl, x, upd), upd, t + 1,
                        removed \cup {zsl.nodes[x].obj}, c)
       ELSE [zsl |-> zsl, removed |-> removed]

\* zslDeleteRangeByScore: from the first score >= min while score <= max
ZslDeleteRangeByScore(zsl, min, max) ==
  LET d == Search(zsl, [kind |-> "score_lt", s |-> min])
  IN DeleteWhile(zsl, Updates(d), 0, {}, [kind |-> "score_le", max |-> max])

\* zslDeleteRangeByRank: 1-based ranks start..end
ZslDeleteRangeByRank(zsl, start, end) ==
  LET d == Search(zsl, [kind |-> "rank_lt", rank |-> start])
  IN DeleteWhile(zsl, Updates(d), d[1].r + 1, {}, [kind |-> "rank_le", end |-> end])

\* zslFirstWithScore: the first node with score >= s, or NULL
ZslFirstWithScore(zsl, s) ==
  Fwd(zsl, Search(zsl, [kind |-> "score_lt", s |-> s])[1].x, 1)

\* zslGetRank: the loop returns at the first level whose last node is o
RECURSIVE RankFrom(_, _, _, _, _, _)
RankFrom(zsl, s, o, i, x, r) ==
  IF i = 0 THEN 0
  ELSE LET w == Walk(zsl, x, i, r, [kind |-> "before_eq", s |-> s, o |-> o])
       IN IF w.x # 0 /\ zsl.nodes[w.x].obj = o THEN w.r
          ELSE RankFrom(zsl, s, o, i - 1, w.x, w.r)

ZslGetRank(zsl, s, o) == RankFrom(zsl, s, o, zsl.level, 0, 0)

\* zslGetElementByRank: the node whose traversed count equals rank
RECURSIVE ByRankFrom(_, _, _, _, _)
ByRankFrom(zsl, rank, i, x, r) ==
  IF i = 0 THEN 0
  ELSE LET w == Walk(zsl, x, i, r, [kind |-> "rank_le", rank |-> rank])
       IN IF w.r = rank THEN w.x ELSE ByRankFrom(zsl, rank, i - 1, w.x, w.r)

ZslGetElementByRank(zsl, rank) == ByRankFrom(zsl, rank, zsl.level, 0, 0)
=============================================================================
