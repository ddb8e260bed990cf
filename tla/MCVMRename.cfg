\* RENAME onto a key whose value is being swapped out, swapped or loaded:
\* renameGenericCommand does not preload the destination and dictReplace
\* keeps the destination's key object.
CONSTANTS
  DBs = {d1}
  Keys = {k1, k2}
  v1 = v1
  v2 = v2
  Vals = {v1, v2}
  Clients = {c1}
  Threads = {t1}
  Nil = Nil
  ValPages <- MCValPages
  NPages <- MCNPages
  Commands <- MCAllCommands
  BgSaveAllowed = FALSE
  CloseAllowed = TRUE
  WriteOutcomes <- MCWriteOk
SPECIFICATION Spec
CONSTRAINT JobBoundSmall
VIEW MCView
CHECK_DEADLOCK FALSE
PROPERTY KeyspaceRefined
