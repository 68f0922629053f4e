\* A POST, a GET and a NON of one peer over two TX slots and one dedup row, which
\* a raw engine user may take for good; every send may fail.
SPECIFICATION LiveSpec
CONSTANTS
  post = post
  get = get
  non = non
  p = p
  Keys = {post, get, non}
  Confirmable <- CONs
  Rerunnable = {get}
  EngineKeys = {get}
  Peer <- SamePeer
  TxSlots = {t1, t2}
  Entries = 1
  DeferredRows = 1
  Lifetime = 2
  DeferredLifetime = 1
  NSTART = 1
  SendOutcomes = {TRUE, FALSE}
  MaxRuns = 2
  None = None
INVARIANTS TypeOK  TxOwned PinHoldsReply Headroom
PROPERTIES ReplayStable RowsExpire
