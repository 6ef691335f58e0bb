------------------------------- MODULE MCStartup -------------------------------
(* Instances of Startup for TLC: a server of one release, one of the next, an  *)
(* operator's tool of the next.                                                *)
EXTENDS Startup

MCNewest == [p \in Processes |-> IF p = "old" THEN 1 ELSE 2]
MCIndexFormat == [p \in Servers |-> IF p = "old" THEN 1 ELSE 2]
MCSources == {1}
MCIds == 1 .. 3

\* An empty database, one of the old release with a source, one built by hand.
MCStarts == {
    [applied |-> {}, schema |-> {}, stored |-> 0, sources |-> {}],
    [applied |-> {1}, schema |-> {1}, stored |-> 0, sources |-> {1}],
    [applied |-> {}, schema |-> {1, 2}, stored |-> 1, sources |-> {1}]}
===============================================================================
