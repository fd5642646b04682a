------------------------------ MODULE Timespan ------------------------------
(***************************************************************************)
(* A booking window is the pair of instants a reservation row stores,      *)
(* starts_at and ends_at.  Every conflict scan of the program compares two *)
(* windows the same way: each starts before the other ends.                *)
(***************************************************************************)
EXTENDS Integers

\* A window with nothing in it: what a request holds before it has chosen one.
NoSpan == [s |-> 0, e |-> 0]

IsSpan(w) == w \in [s : Nat, e : Nat] /\ w.s < w.e

\* lt(startsAt, otherEnd) and gt(endsAt, otherStart)
Overlaps(v, w) == v.s < w.e /\ v.e > w.s

\* The same comparison with the turnaround buffer added round the proposed
\* window w, as hasConflict() and getConflictDetails() make it.
OverlapsWithin(v, w, buffer) == v.s < w.e + buffer /\ v.e > w.s - buffer
=============================================================================
