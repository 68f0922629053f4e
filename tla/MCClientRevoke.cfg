CONSTANTS
  p = p
  q = q
  None = None
  Calls = {c1, c2}
  PeerOf <- Split
  TargetOf <- TwoTargets
  Mids = {m1, m2}
  TxSlots = {t1, t2}
  CALLS = 2
  ObserveRows = 1
  RxSlots = 3
  FullResponses = FALSE
  Revocable = {p}
  Starts = {"off"}
  Deadlines = {1}
  Life = 1
  Cool = 1
SPECIFICATION FairSpec
INVARIANTS
  OneOutcome

  
