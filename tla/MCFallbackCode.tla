--------------------------- MODULE MCFallbackCode ---------------------------
(* Small instances of FallbackCode for TLC. *)
EXTENDS FallbackCode

CONSTANTS p1, p2
=============================================================================
