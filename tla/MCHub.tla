-------------------------------- MODULE MCHub --------------------------------
(***************************************************************************)
(* Clients c1 and c2 watch workspace w1; c2 has a token that may not read  *)
(* "team" events.  All events are of w1 but other1, which is of w2.        *)
(***************************************************************************)
EXTENDS Hub, TLC

CONSTANTS c1, c2, ticket1, ticket2, team1, other1

MCWorkspaceOf == [x \in Conns \cup Events |-> IF x = other1 THEN "w2" ELSE "w1"]

MCKindOf == [e \in Events |-> IF e = team1 THEN "team" ELSE "ticket"]

MCAllowed == [c \in Conns |-> IF c = c2 THEN {"ticket"} ELSE {"ticket", "team"}]

\* The two ticket events differ in nothing.
TicketSymmetry == Permutations({ticket1, ticket2})

=============================================================================
