SPECIFICATION BesideSpec
CONSTANTS
  p1 = p1
  Pruners <- OnePruner
  MaxClock = 2
  Keep = 1
  Days = 0
  ProtectManual = TRUE
  Env = {"abort", "crash", "io", "collect", "power"}
  Mounts = 2
  Options <- Asked
INVARIANTS
  RestoreTypeOK
  LostOnlyIfGivenUp
  VolumesWhole
PROPERTY OnlyLatePinsLost
\* A behaviour ends with the restore.
CHECK_DEADLOCK FALSE
