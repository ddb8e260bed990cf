\* Two databases holding a key of the same name: vmCancelThreadedIOJob
\* matches jobs by key name only.
CONSTANTS
  DBs = {d1, d2}
  Keys = {k1}
  v1 = v1
  v2 = v2
  Vals = {v1, v2}
  Clients = {c1}
  Threads = {t1}
  Nil = Nil
  ValPages <- MCValPages
  NPages <- MCNPages
  Commands <- MCCommands
  BgSaveAllowed = FALSE
  CloseAllowed = TRUE
  WriteOutcomes <- MCWriteOk
SPECIFICATION Spec
CONSTRAINT JobBoundSmall
VIEW MCView
INVARIANT NoAbort
