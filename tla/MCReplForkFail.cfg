\* One slave; fork() may fail.  The fork that updateSlavesWaitingBgsave
\* starts for the slaves that waited for a BGSAVE to start can fail after
\* it has moved them to WAIT_BGSAVE_END.
CONSTANTS
  Slaves = {s1}
  MaxWrites = 2
  ForkOutcomes = {TRUE, FALSE}
  ExitKinds = {"ok"}
  Nil = Nil
SPECIFICATION Spec
INVARIANT ReplicaConverges
