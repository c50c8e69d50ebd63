SPECIFICATION Spec
CONSTANTS
  Period = 3
  MaxTime = 7
  Keep = 1
  Days = 0
  Updates = TRUE
  Backdated = FALSE
INVARIANT NoneSkipped
