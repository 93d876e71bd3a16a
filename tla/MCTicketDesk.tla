---------------------------- MODULE MCTicketDesk ----------------------------
(* Instances of TicketDesk for TLC. *)
EXTENDS TicketDesk, TLC
Symmetry == Permutations(Tickets) \cup Permutations(Requests)
=============================================================================
