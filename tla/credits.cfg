SPECIFICATION Spec
CONSTANTS
  p1 = p1
  p2 = p2
  p3 = p3
  r1 = r1
  r2 = r2
  i1 = i1
  i2 = i2
  Ended = Ended
  NoRef = NoRef
  Proc = {p1, p2, p3}
  Res = {r1, r2}
  Invoice = {}
  Need <- TwoUnits
  Grant <- Grants
  Dollars <- Credits
  MaxBalance <- Caps
  Opening <- Scarce
  OpeningPlan = 4
  MaxRetries = 5
  Adjustments = {1}
  MaxArrivals = 5
  Handlers = {"confirm", "cash", "card", "comp", "resolve", "cancel", "refundOnly", "take"}
INVARIANTS SpentOnce ReversedOnce PriceMatchesLedger CancelReturnsHours
SYMMETRY Alike
CHECK_DEADLOCK FALSE
