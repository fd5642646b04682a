SPECIFICATION FairSpec
CONSTANTS
  MaxRow = 4
  p1 = p1
  p2 = p2
  p3 = p3
  Proc = {p1, p2}
  Window <- OneLate
  MaxTime = 3
  ConfirmLead = 1
  OfferTTL = 1
  Buffer = 0
  Handlers = {"create", "queue", "cancel", "expire"}
INVARIANTS OneOfferPerCancellation
PROPERTIES FirstComeFirstServed LapsedOfferEnds
CHECK_DEADLOCK FALSE
