\* Full resynchronisation of two slaves while the master takes three writes:
\* every fork succeeds and a BGSAVE child may exit 0 or 1.  The event loop,
\* the cron and the child are fair (FairSpec); no symmetry, because of the
\* liveness property.  A connection can always drop, so no state is final.
CONSTANTS
  Slaves = {s1, s2}
  MaxWrites = 3
  ForkOutcomes = {TRUE}
  ExitKinds = {"ok", "err"}
  Nil = Nil
SPECIFICATION FairSpec
INVARIANT TypeOK
INVARIANT StreamExact
PROPERTY SyncCompletes
