---------------------------- MODULE MCDoorCodes ----------------------------
(* Small instances of DoorCodes for TLC. *)
EXTENDS DoorCodes, TLC

CONSTANTS p1, p2, p3, b1, b2

\* Bookings are interchangeable, and so are callers.
Alike == Permutations(Booking) \cup Permutations(Caller)
=============================================================================
