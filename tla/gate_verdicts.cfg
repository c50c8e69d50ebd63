SPECIFICATION FairSpec
CONSTANTS
  Timeout = 4
  Settle = 3
  MaxRestarts = 3
  Slow = TRUE
INVARIANTS
  TypeOK
  JudgedByItsKind
PROPERTIES
  NoCrashLoopPasses
  GateDecides
\* A container may end for good once the verdict is in.
CHECK_DEADLOCK FALSE
