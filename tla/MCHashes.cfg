\* Hashes and expiry. Two keys, two fields, values of 1, 253 and 513 bytes, EXPIRE of -1 and 0
\* seconds over two seconds of time.
CONSTANTS
  Keys = {k1, k2}
  Fields = {f1, f2}
  Values = {v1, vb, vh}
  f1 = f1
  f2 = f2
  v1 = v1
  vb = vb
  vh = vh
  StrLen <- MCStrLen
  IntValues = {v1}
  HashMaxEntries = 1
  HashMaxValue = 512
  ExpireSeconds <- MCExpireSeconds
  ExpireLookups = 4
  MaxTime = 1
  Members = {1}
  Scores = {1}
  Incrs = {1}
  RankArgs = {0}
  Weights <- MCWeights
  MaxLevel = 1
  NaN = NaN
  Ops = {"hash", "string", "expire"}
SPECIFICATION Spec
SYMMETRY KeySymmetry
CONSTRAINT Bounds
INVARIANT TypeOK
INVARIANT HashAgrees
INVARIANT ExpiresInMain
INVARIANT ZipmapWithinLimits
