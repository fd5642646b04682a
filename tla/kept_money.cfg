SPECIFICATION Spec
CONSTANTS
  p1 = p1
  p2 = p2
  o1 = o1
  d1 = d1
  f1 = f1
  NoOne = NoOne
  Online = {o1}
  Door = {}
  Free = {}
  Quantity <- Ones
  Capacity = 2
  Sellers = {"band"}
  Proc = {p1, p2}
  MaxOrders = 2
  MaxExtra = 0
  Handlers = {"buy", "hook", "cancelGig"}
INVARIANTS CancelledGigKeepsNothing
CHECK_DEADLOCK FALSE
