------------------------------- MODULE Register -------------------------------
(***************************************************************************)
(* What a versioned resource of the API promises the callers that write    *)
(* it: one value at a time, each write a new version, and a conditional    *)
(* write (If-Match) only over the very version its caller saw.             *)
(*                                                                         *)
(* Documents implements it, with row locks and several statements a write. *)
(***************************************************************************)
EXTENDS Naturals

CONSTANTS Writers, Values

VARIABLES
    value,     \* what a reader sees
    version,   \* 0 before the first write
    phase,     \* of each writer
    want       \* the version it asks to write over, 0 for any

regVars == <<value, version, phase, want>>

RegInit ==
    /\ value \in Values
    /\ version \in Nat
    /\ phase = [w \in Writers |-> "idle"]
    /\ want = [w \in Writers |-> 0]

Ask(w) ==
    /\ phase[w] = "idle"
    /\ phase' = [phase EXCEPT ![w] = "asked"]
    /\ want' \in [Writers -> Nat]
    /\ \A v \in Writers \ {w} : want'[v] = want[v]
    /\ UNCHANGED <<value, version>>

Put(w) ==
    /\ phase[w] = "asked"
    /\ want[w] \in {0, version}
    /\ value' \in Values
    /\ version' = version + 1
    /\ phase' = [phase EXCEPT ![w] = "done"]
    /\ want' = [want EXCEPT ![w] = 0]

\* Any reason: an error, a conflict, a replay, or a call that writes elsewhere.
Refuse(w) ==
    /\ phase[w] = "asked"
    /\ phase' = [phase EXCEPT ![w] = "done"]
    /\ want' = [want EXCEPT ![w] = 0]
    /\ UNCHANGED <<value, version>>

RegNext == \E w \in Writers : Ask(w) \/ Put(w) \/ Refuse(w)

RegSpec == RegInit /\ [][RegNext]_regVars
===============================================================================
