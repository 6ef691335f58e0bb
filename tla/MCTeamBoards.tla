----------------------------- MODULE MCTeamBoards -----------------------------
(***************************************************************************)
(* Statuses s1 and s2 exist, s3 can be created; board 1 exists with a      *)
(* column for each, board 2 can be created.                                *)
(***************************************************************************)
EXTENDS TeamBoards, TLC

CONSTANTS s1, s2, s3, c1, c2

MCSeeded == {[c |-> c1, b |-> 1, s |-> s1], [c |-> c2, b |-> 1, s |-> s2]}

MCStatusPosition == [s \in Statuses |-> IF s = s1 THEN 1 ELSE IF s = s2 THEN 2 ELSE 3]

MCCategory0 == [s \in Statuses |-> IF s = s1 THEN "open" ELSE "done"]

\* Requests differ in nothing, nor do the columns still to be created.
MCSymmetry == Permutations(Requests) \cup Permutations(Columns \ {c1, c2})

=============================================================================
