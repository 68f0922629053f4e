CONSTANTS
  p = p
  q = q
  None = None
  Calls = {c1, c2, c3}
  PeerOf <- Alike
  TargetOf <- OneTarget
  Mids = {m1, m2}
  TxSlots = {t1, t2}
  CALLS = 2
  ObserveRows = 1
  RxSlots = 3
  FullResponses = FALSE
  Revocable = {}
  Starts = {"off"}
  Deadlines = {None}
  Life = 1
  Cool = 2
SPECIFICATION Spec
SYMMETRY SlotsAndCalls
INVARIANTS
  TypeOK
  HeldForLive
  
PROPERTIES
  OutcomeFinal
  CooldownHolds
