SPECIFICATION Spec
CONSTANTS
  p1 = p1
  p2 = p2
  Pruners <- OnePruner
  MaxClock = 2
  Keep = 1
  Days = 0
  ProtectManual = TRUE
  Env = {"power"}
INVARIANT DataBeforeRename
