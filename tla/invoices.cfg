SPECIFICATION Spec
CONSTANTS
  p1 = p1
  p2 = p2
  p3 = p3
  r1 = r1
  r2 = r2
  i1 = i1
  i2 = i2
  Ended = Ended
  NoRef = NoRef
  Proc = {p1, p2}
  Res = {r1}
  Invoice = {i1, i2}
  Need <- TwoUnits
  Grant <- Grants
  Dollars <- Credits
  MaxBalance <- Caps
  Opening <- Scarce
  OpeningPlan = 4
  MaxRetries = 1
  Adjustments = {1}
  MaxArrivals = 2
  Handlers = {"deliver", "confirm", "add", "take"}
INVARIANTS TypeOK GrantedOnce BooksBalance
PROPERTIES WalletSpec
SYMMETRY HandlersAlike
CHECK_DEADLOCK FALSE
