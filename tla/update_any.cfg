SPECIFICATION Spec
CONSTANTS
  MaxRuns = 3
  MaxBoxes = 6
  Trouble = 3
  Policies <- AllPolicies
  Env = {"cancel", "halfstop", "nostart", "crash", "release"}
CONSTRAINT CalmThirdRun
INVARIANTS
  TypeOK
  NeverWithoutContainer
  ServiceUp
  RolledBackWhole
  NoDowngrade
  NoSilentOutage
  BackupLeavesAsFound
\* The bound on runs is reached, or the container lost its name.
CHECK_DEADLOCK FALSE
