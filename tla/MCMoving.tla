------------------------------- MODULE MCMoving -------------------------------
(* Instances of Moving for TLC: three cards, two columns, a step of four.  *)
EXTENDS Moving, TLC

CONSTANTS r1, r2

Place(k, p) == [column |-> k, pos |-> p]

\* Three in a column without room, three with a tie, two and one elsewhere;
\* the fourth card is free to be created.
MCStarts == {
    <<Place("todo", 4), Place("todo", 5), Place("todo", 8)>>,
    <<Place("todo", 4), Place("todo", 4), Place("todo", 12)>>,
    <<Place("todo", 5), Place("done", 5), Place("todo", 4)>>}

MCStep == 4
MCGiven == {7}

MCCards == 1..4
MCSmallCards == 1..3
MCSymmetry == Permutations({r1, r2})
===============================================================================
