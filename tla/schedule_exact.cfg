SPECIFICATION Spec
CONSTANTS
  Period = 2
  MaxTime = 6
  Keep = 1
  Days = 0
  Updates = FALSE
  Backdated = TRUE
INVARIANTS
  TypeOK
  ServedOnce
  NoneSkipped
