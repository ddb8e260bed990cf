\* The VM layer implements the Keyspace specification, never aborts and
\* never deadlocks, keeps the swap pages a BGSAVE child reads intact, and
\* every load, every swap-out in flight and every BGSAVE finishes,
\* under fair workers and a fair event loop: one database, one key, two
\* clients that can park on the swapped key, one worker thread.
CONSTANTS
  DBs = {d1}
  Keys = {k1}
  v1 = v1
  v2 = v2
  Vals = {v1, v2}
  Clients = {c1, c2}
  Threads = {t1}
  Nil = Nil
  ValPages <- MCValPages
  NPages <- MCNPages
  Commands <- MCCommands
  BgSaveAllowed = TRUE
  CloseAllowed = TRUE
  WriteOutcomes <- MCWriteOk
SPECIFICATION FairSpec
CONSTRAINT JobBoundSmall
INVARIANT NoAbort
INVARIANT IoWaitIndexConsistent
INVARIANT ChildSwapPagesIntact
PROPERTY KeyspaceRefined
PROPERTY LoadFinishes
PROPERTY SwapFinishes
PROPERTY BgSaveFinishes
