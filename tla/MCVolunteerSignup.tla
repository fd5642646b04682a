------------------------- MODULE MCVolunteerSignup -------------------------
(* Small instances of VolunteerSignup for TLC. *)
EXTENDS VolunteerSignup

CONSTANTS p1, p2, m1, m2
=============================================================================
