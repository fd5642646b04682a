SPECIFICATION Spec
CONSTANTS
  p1 = p1
  p2 = p2
  p3 = p3
  b1 = b1
  b2 = b2
  NoBooking = NoBooking
  Booking = {b1, b2}
  MaxUser = 2
  MaxDay = 2
  Window = 1
  Caller = {p1}
  Job = {p2}
  MaxFault = 1
  Handlers = {"confirm", "cancel", "daily", "move", "fail", "offline"}
PROPERTIES LiveCodeStays
CHECK_DEADLOCK FALSE
SYMMETRY Alike
