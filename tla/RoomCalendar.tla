---------------------------- MODULE RoomCalendar ----------------------------
(***************************************************************************)
(* What the reservation service promises, with no database and no races:   *)
(* a calendar of one room in which a row holds at most one window, and a   *)
(* window is only ever given to a row when nobody who holds one overlaps.  *)
(* RoomBooking is shown to implement this, statement by statement.         *)
(***************************************************************************)
EXTENDS Timespan

CONSTANTS Row, Window

VARIABLE held       \* held[r]: the window row r has been promised, or NoSpan

Free(r) == held[r] = NoSpan

Init == held = [r \in Row |-> NoSpan]

Grant(r, w) ==
    /\ Free(r)
    /\ \A q \in Row : ~Free(q) => ~Overlaps(held[q], w)
    /\ held' = [held EXCEPT ![r] = w]

Release(r) ==
    /\ ~Free(r)
    /\ held' = [held EXCEPT ![r] = NoSpan]

Next == \E r \in Row : Release(r) \/ \E w \in Window : Grant(r, w)

Spec == Init /\ [][Next]_held
=============================================================================
