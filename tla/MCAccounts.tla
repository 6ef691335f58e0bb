------------------------------- MODULE MCAccounts -------------------------------
(* Instances of Accounts for TLC: two accounts, a session lasts three days. *)
EXTENDS Accounts, TLC

CONSTANTS r1, r2, r3

Signed == [life |-> "there", kind |-> "session", account |-> 1, expires |-> 2, used |-> 0]
Owner == [life |-> "there", email |-> "e1", role |-> "owner", workspace |-> 1]

AView(o) == [life |-> "there", owner |-> o, shared |-> o = 0, board |-> TRUE, late |-> FALSE]

\* A new install, one whose migrations seeded the workspace, and two with an
\* owner, a session that slides on the next day, and a private view or one
\* left to the team by an account since deleted.
MCStarts == {
    [account |-> <<>>, workspaces |-> 0, cred |-> <<>>, view |-> <<>>],
    [account |-> <<>>, workspaces |-> 1, cred |-> <<>>, view |-> <<>>],
    [account |-> <<Owner>>, workspaces |-> 1, cred |-> <<Signed>>, view |-> <<AView(1)>>],
    [account |-> <<Owner>>, workspaces |-> 1, cred |-> <<Signed>>, view |-> <<AView(0)>>]}

MCAccounts == {1, 2}
MCCreds == {1, 2}
MCViews == {1, 2}
Patch(s, l) == [shared |-> s, layout |-> l]
MCPatches == {Patch("yes", "list"), Patch("no", "keep"), Patch("keep", "board")}
MCTokenScopes == {"me", "createView", "updateView", "deleteView"}
MCSymmetry == Permutations({r1, r2, r3})
===============================================================================
