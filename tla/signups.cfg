SPECIFICATION FairSpec
CONSTANTS
  p1 = p1
  p2 = p2
  m1 = m1
  m2 = m2
  NoMember = NoMember
  Member = {m1, m2}
  Run = {p1, p2}
  Capacity = 1
  Handlers = {"claim", "invite", "sweep", "resolve", "cancel", "show"}
INVARIANTS TypeOK PlacesAreGivenOnce
PROPERTIES FinishedIsSettled CrewIsTold
CHECK_DEADLOCK FALSE
