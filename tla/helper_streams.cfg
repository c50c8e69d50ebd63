SPECIFICATION FairSpec
CONSTANTS
  Path <- Names
  KindOf <- KindOfName
  Above <- AboveName
  Node <- Names
  MaxChanges = 2
  Items = 2
  Room = 1
INVARIANTS
  TypeOK
  SuccessIsWhole
  VanishedFilesAreNormal
PROPERTY
  RunEnds
\* The call has returned.
CHECK_DEADLOCK FALSE
