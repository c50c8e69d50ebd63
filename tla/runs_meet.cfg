SPECIFICATION FairSpec
CONSTANTS
  a = a
  b = b
  c = c
  d = d
  Runs <- Four
  KindOf <- DaemonAndCommands
  SnapshotFirst = TRUE
  MaxAge = 2
  MaxRelease = 2
INVARIANTS
  TypeOK
PROPERTIES
  SnapshotOfOneState
  HonestUpdate
  TurnsCome
  MutexSpec
\* Every run has ended.
CHECK_DEADLOCK FALSE
