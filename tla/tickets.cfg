SPECIFICATION FairSpec
CONSTANTS
  p1 = p1
  p2 = p2
  o1 = o1
  d1 = d1
  f1 = f1
  NoOne = NoOne
  Online = {o1}
  Door = {d1}
  Free = {f1}
  Quantity <- Ones
  Capacity = 2
  Sellers = {"collective", "band"}
  Proc = {p1, p2}
  MaxOrders = 2
  MaxExtra = 1
  Handlers = {"buy", "claim", "comp", "door", "doorCancel", "hook", "scan", "drop", "cancelShow", "cancelGig", "closeSale", "sweep", "crash"}
INVARIANTS TypeOK AdmittedHavePaid DoorSaleBookedOnce RefundedOnce
PROPERTIES VoidStaysVoid TapWins PendingResolves
CHECK_DEADLOCK FALSE
