---------------------------- MODULE MCFreeHours ----------------------------
(* Small instances of FreeHours for TLC. *)
EXTENDS FreeHours, TLC

CONSTANTS p1, p2, p3, r1, r2, i1, i2

\* Handlers and bookings of one length are interchangeable.
HandlersAlike == Permutations(Proc)
Alike == Permutations(Proc) \cup Permutations(Res)

\* Two bookings of two half-hours each.
TwoUnits == [r \in Res |-> 2]

\* The second invoice is for a larger contribution than the first.
Grants  == [i \in Invoice |-> IF i = i2 THEN 3 ELSE 2]
Credits == [i \in Invoice |-> 2]

\* One equipment grant short of two reaches the cap.
Caps == [w \in Wallet |-> IF w = "hours" THEN -1 ELSE 3]

\* Enough for one booking and half of the other; or for both.
Scarce == [w \in Wallet |-> IF w = "hours" THEN 3 ELSE 1]
Empty  == [w \in Wallet |-> 0]
=============================================================================
