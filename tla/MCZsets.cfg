\* Sorted sets. One key, three members, scores 0 and 1, ZINCRBY by 1 up
\* to 2, skip list levels 1 to 3, SET for the wrong-type replies, DEL and
\* the type-agnostic reads, ZUNION and ZINTER.
CONSTANTS
  Keys = {k1}
  Fields = {f1, f2}
  Values = {v1, vb, vh}
  f1 = f1
  f2 = f2
  v1 = v1
  vb = vb
  vh = vh
  StrLen <- MCStrLen
  IntValues = {v1}
  HashMaxEntries = 1
  HashMaxValue = 512
  ExpireSeconds <- MCExpireSeconds
  ExpireLookups = 4
  MaxTime = 1
  Members = {1, 2, 3}
  Scores = {0, 1}
  Incrs = {1}
  RankArgs <- MCRankArgs
  Weights <- MCWeights
  MaxLevel = 3
  NaN = NaN
  Ops = {"zset", "string"}
SPECIFICATION Spec
SYMMETRY KeySymmetry
CONSTRAINT Bounds
 
INVARIANT ZsetAgrees
INVARIANT SpansCorrect
 
INVARIANT ZStoreAgrees
INVARIANT NoAbort
