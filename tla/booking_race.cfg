SPECIFICATION Spec
CONSTANTS
  MaxRow = 3
  p1 = p1
  p2 = p2
  p3 = p3
  Proc = {p1, p2, p3}
  Window <- TwoWindows
  MaxTime = 0
  ConfirmLead = 1
  OfferTTL = 1
  Buffer = 0
  Handlers = {"create", "queue", "accept", "cancel"}
INVARIANTS TypeOK SettledDisjoint OverlapIsTransient OfferOnlyWhileWaiting
SYMMETRY RequestsAlike
CHECK_DEADLOCK FALSE
