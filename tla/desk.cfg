SPECIFICATION Spec
CONSTANTS
  MaxRow = 2
  p1 = p1
  p2 = p2
  p3 = p3
  Proc = {p1, p2}
  Window <- NestedWindows
  MaxTime = 4
  ConfirmLead = 1
  OfferTTL = 1
  Buffer = 1
  Handlers = {"create", "queue", "staffCreate", "cancel", "staffCancel", "adjust", "override", "desk", "sweep", "expire", "autoComplete", "crash", "checkout", "confirmNow"}
PROPERTIES ResolvedIsFinal CancelledStaysCancelled CalendarSpec
SYMMETRY RequestsAlike
CHECK_DEADLOCK FALSE
