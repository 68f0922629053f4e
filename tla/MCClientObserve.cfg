CONSTANTS
  p = p
  q = q
  None = None
  Calls = {c1, c2}
  PeerOf <- Alike
  TargetOf <- TwoTargets
  Mids = {m1, m2}
  TxSlots = {t1, t2}
  CALLS = 2
  ObserveRows = 1
  RxSlots = 3
  FullResponses = FALSE
  Revocable = {}
  Starts = {"register"}
  Deadlines = {None}
  Life = 1
  Cool = 0
SPECIFICATION Spec
SYMMETRY Slots
INVARIANTS
  HeldForLive
