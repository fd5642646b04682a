SPECIFICATION FairSpec
CONSTANTS
  p1 = p1
  p2 = p2
  MaxCode = 4
  Run = {p1, p2}
  MaxDay = 1
  RotationDays = 0
  MaxFault = 1
  Handlers = {"daily", "rotate", "fail", "lag"}
INVARIANTS TypeOK HandedOutOpens LockDoesNotFill
PROPERTIES NeverAGap ComesIntoService
CHECK_DEADLOCK FALSE
