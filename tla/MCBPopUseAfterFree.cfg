\* RPOPLPUSH serving a blocked client that pipelined a command.
CONSTANTS
  Keys = {k1, k2}
  Clients = {c1, c2}
  Nil = Nil
  Ops <- RPopLPushOps
  MaxElems = 2
  PipeDepth = 1
  IdleTimeout = FALSE
  Timeouts <- NoTimeout
SPECIFICATION Spec
SYMMETRY KeySymmetry
\* The server idles for good once every client has disconnected.
CHECK_DEADLOCK FALSE
INVARIANT NoUndefinedBehaviour
