CONSTANTS
  N = 3
  LIFETIME = 2
  MaxTime = 5
SPECIFICATION Spec
INVARIANTS
  TypeOK
PROPERTIES
  NeverPending
  ReuseWaits
