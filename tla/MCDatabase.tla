----------------------------- MODULE MCDatabase -----------------------------
EXTENDS Database

CONSTANTS f1, f2, v1, vb, vh

\* "1" (an integer), a value with a 5-byte <len>, and a value over
\* hash-max-zipmap-value (512)
MCStrLen == (f1 :> 1) @@ (f2 :> 2) @@ (v1 :> 1) @@ (vb :> 253) @@ (vh :> 513)

\* the keys are interchangeable
KeySymmetry == Permutations(Keys)

\* EXPIRE k -1 deletes k; EXPIRE k 0 makes it expire at the next second
MCExpireSeconds == {-1, 0}

\* ZREMRANGEBYRANK and ZRANGE indexes, from the end and from the start
MCRankArgs == {-1, 0, 1}

\* the buffer of a zipmap is never compacted: bound its size
MaxZipmapBytes == 300
ZipmapBound ==
  \A k \in DOMAIN dict :
    dict[k].type = "hash" /\ dict[k].enc = "zipmap" => ZipmapBytes(dict[k].zm) <= MaxZipmapBytes

\* ZUNION/ZINTER WEIGHTS
MCWeights == {1, 2}

\* ZINCRBY adds without end: bound the scores
MaxScore == 2
ScoreBound ==
  \A k \in DOMAIN dict :
    dict[k].type = "zset" => \A m \in DOMAIN dict[k].dict :
      dict[k].dict[m] = NaN \/ dict[k].dict[m] <= MaxScore

\* the constraints of every run
Bounds == ZipmapBound /\ ScoreBound
=============================================================================
