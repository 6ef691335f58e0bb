------------------------------- MODULE MCTickets -------------------------------
(***************************************************************************)
(* Bounded instances of Tickets.                                           *)
(***************************************************************************)
EXTENDS Tickets, TLC

\* A request has no name of its own in the code.
MCSymmetry == Permutations(Requests) \cup Permutations(Texts)
=============================================================================
