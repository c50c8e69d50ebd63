SPECIFICATION StoreSpec
CONSTANTS
  p1 = p1
  p2 = p2
  Pruners <- TwoPruners
  MaxClock = 3
  Keep = 1
  Days = 0
  ProtectManual = TRUE
  Env = {"abort", "crash", "io", "engine"}
SYMMETRY Symmetry
INVARIANTS
  TypeOK
  NewestSurvive
  PinHeld
PROPERTY
  LedgerSpec
