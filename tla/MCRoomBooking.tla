---------------------------- MODULE MCRoomBooking ----------------------------
(* Small instances of RoomBooking for TLC. *)
EXTENDS RoomBooking, TLC

CONSTANTS p1, p2, p3

\* Requests are interchangeable; rows are not (they are served oldest first).
RequestsAlike == Permutations(Proc)

\* Two that share an hour.
TwoWindows == {[s |-> 1, e |-> 3], [s |-> 2, e |-> 4]}

\* Two windows that do not overlap, and one across both.
NestedWindows == {[s |-> 2, e |-> 3], [s |-> 3, e |-> 4], [s |-> 2, e |-> 4]}

\* Windows that start late enough for an offer to lapse before they do.
OneLate == {[s |-> 4, e |-> 5]}
=============================================================================
