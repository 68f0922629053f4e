CONSTANTS
  None = None
  o1 = o1
  o2 = o2
  s = s
  r1 = r1
  r2 = r2
  x1 = x1
  x2 = x2
  Replicas = {r1, r2}
  Policies <- TwoOwners
  Exchanges = {x1, x2}
  LIFETIME = 2
  Lives = {2}
  MaxRevision = 4
  Works = {1}
  MaxEpoch = 2
SPECIFICATION Spec
SYMMETRY Alike
INVARIANTS
  TypeOK
  OneSnapshotPerGeneration
PROPERTIES
  OwnerExclusive
  LeaseBounds
  EffectsRunOnce
