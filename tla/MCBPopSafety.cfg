\* Blocked clients pipeline a command that runs nested inside the command
\* that unblocks them, while the idle timer may close any client and the
\* cron times out BLPOPs whose deadline has passed.  RENAME and RPOPLPUSH
\* have runs of their own (MCBPopRename, MCBPopUseAfterFree).  A single
\* pushed element (MaxElems 1) keeps the state space within reach.
CONSTANTS
  Keys = {k1, k2}
  Clients = {c1, c2}
  Nil = Nil
  Ops <- MainOps
  MaxElems = 1
  PipeDepth = 1
  IdleTimeout = TRUE
  Timeouts <- PositiveTimeout
SPECIFICATION Spec
SYMMETRY KeySymmetry
\* The server idles for good once every client has disconnected.
CHECK_DEADLOCK FALSE
INVARIANT TypeOK
INVARIANT ElementsConserved
INVARIANT WaitIndexConsistent
INVARIANT BlockedOnlyOnEmpty
