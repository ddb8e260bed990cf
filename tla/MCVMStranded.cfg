\* A client parked on a key being loaded, while another client deletes or
\* overwrites that key; the event loop and the workers are fair.
CONSTANTS
  DBs = {d1}
  Keys = {k1}
  v1 = v1
  v2 = v2
  Vals = {v1, v2}
  Clients = {c1, c2}
  Threads = {t1}
  Nil = Nil
  ValPages <- MCValPages
  NPages <- MCNPages
  Commands <- MCCommands
  BgSaveAllowed = FALSE
  CloseAllowed = TRUE
  WriteOutcomes <- MCWriteOk
SPECIFICATION FairSpec
CONSTRAINT JobBoundSmall
PROPERTY ParkedClientResumes
