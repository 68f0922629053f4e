\* Four sequence numbers and a window of two: numbers arrive in every order,
\* repeated, beyond the window and below it, with crashes at every step.
SPECIFICATION Spec
CONSTANTS
  MaxSeq = 4
  REPLAY_WINDOW = 2
  MaxReserve = 2
INVARIANTS  NonceUnique EffectOnce
PROPERTIES DiskNeverForgets RecentStaysFresh
