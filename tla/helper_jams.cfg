SPECIFICATION FairSpec
CONSTANTS
  Path <- Names
  KindOf <- KindOfName
  Above <- AboveName
  Node <- Names
  MaxChanges = 0
  Items = 1
  Room = 1
PROPERTY
  ComesBackUp
\* The call has returned.
CHECK_DEADLOCK FALSE
