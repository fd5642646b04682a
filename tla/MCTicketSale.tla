---------------------------- MODULE MCTicketSale ----------------------------
(* Small instances of TicketSale for TLC. *)
EXTENDS TicketSale, TLC

CONSTANTS p1, p2, o1, d1, f1

\* Orders of one ticket.
Ones == [u \in Purchase |-> 1]
=============================================================================
