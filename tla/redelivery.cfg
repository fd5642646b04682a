SPECIFICATION FairSpec
CONSTANTS
  p1 = p1
  p2 = p2
  p3 = p3
  r1 = r1
  r2 = r2
  i1 = i1
  i2 = i2
  Ended = Ended
  NoRef = NoRef
  Proc = {p1, p2}
  Res = {}
  Invoice = {i1, i2}
  Need <- TwoUnits
  Grant <- Grants
  Dollars <- Credits
  MaxBalance <- Caps
  Opening <- Empty
  OpeningPlan = 0
  MaxRetries = 0
  Adjustments = {1}
  MaxArrivals = 1
  Handlers = {"deliver", "overlap", "crash"}
PROPERTIES GrantArrives
CHECK_DEADLOCK FALSE
