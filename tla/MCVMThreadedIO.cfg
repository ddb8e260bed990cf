\* Job, page and pipe accounting of the threaded VM: one database, two
\* keys, one client sending every modelled command (RENAME included), two
\* worker threads.  Closing a parked client, which touches no job or
\* page, is checked in vm_liveness instead.  An assertion failure aborts the server, a state with
\* no successor, so deadlock is not checked here.
CONSTANTS
  DBs = {d1}
  Keys = {k1, k2}
  v1 = v1
  v2 = v2
  Vals = {v1, v2}
  Clients = {c1}
  Threads = {t1, t2}
  Nil = Nil
  ValPages <- MCValPages
  NPages <- MCNPages
  Commands <- MCAllCommands
  BgSaveAllowed = FALSE
  CloseAllowed = FALSE
  WriteOutcomes <- MCWriteOk
SPECIFICATION Spec
CONSTRAINT JobBoundSmall
SYMMETRY MCSymmetry
VIEW MCView
CHECK_DEADLOCK FALSE
INVARIANT TypeOK
INVARIANT JobStorageAgreement
INVARIANT SwapPagesAccounted
INVARIANT PipeMatchesProcessed
INVARIANT QueuedJobHasWorker
