-------------------------------- MODULE Accounts --------------------------------
(***************************************************************************)
(* Accounts, the credentials that speak for them and the saved views they  *)
(* own: internal/account (Register, Delete), internal/auth (sessions and   *)
(* API tokens), internal/savedview, and the handlers and the middleware of *)
(* internal/api in front of them.                                          *)
(*                                                                         *)
(* A request authenticates first, in statements of its own, and acts       *)
(* later, on what it was told: the account may be gone by then.  A         *)
(* registration and a deletion are transactions of several statements      *)
(* under READ COMMITTED; the writes of a view hold one row lock from the   *)
(* first statement to the commit and are one step.                         *)
(*                                                                         *)
(* Left out: hashes and their comparison, names and configurations, teams  *)
(* and projects (an account reaches them as long as it is a member).  A    *)
(* deadline is computed with the statement that writes it.                 *)
(***************************************************************************)
EXTENDS Integers, FiniteSets

CONSTANTS
    Requests,     \* calls of the API, each of one operation
    Accounts,     \* account ids, numbered in the order they are made
    Emails,
    Creds,        \* ids of sessions and of tokens
    Views,        \* ids of saved views
    Patches,      \* what an update may send: [shared, layout], "keep" for a member left out
    TokenScopes,  \* what a token may do: operations by kind (a session may do all)
    MaxAge,       \* SessionMaxAge, 30 days in the code
    SlideAfter,   \* sessionExtendAfter, a day
    Horizon,      \* bound: the clock stops there
    Starts        \* what there may be at the start

Lives == {"unborn", "there", "gone"}
AccountRows == [life : Lives, email : Emails \cup {""}, role : {"owner", "member", ""}, workspace : {0, 1}]
CredRows == [life : Lives, kind : {"session", "token", ""}, account : Accounts \cup {0}, expires : Int, used : Int]
ViewRows == [life : Lives, owner : Accounts \cup {0}, shared : BOOLEAN, board : BOOLEAN, late : BOOLEAN]

\* What an install may hold at the first moment of the clock.
Possible(s) ==
    /\ s.workspaces \in {0, 1}
    /\ \A a \in DOMAIN s.account : s.account[a] \in AccountRows /\ s.account[a].workspace = 1
    /\ \A a, b \in DOMAIN s.account : s.account[a].role = "owner" /\ s.account[b].role = "owner" => a = b
    /\ \A c \in DOMAIN s.cred :
        /\ s.cred[c] \in CredRows
        /\ s.cred[c].used <= 0
        /\ s.cred[c].kind = "session" => s.cred[c].expires - s.cred[c].used \in (MaxAge - SlideAfter) .. MaxAge
    /\ \A v \in DOMAIN s.view : s.view[v] \in ViewRows /\ (s.view[v].owner = 0 => s.view[v].shared)

ASSUME AccountsAssumption ==
    /\ Accounts \subseteq Nat \ {0}
    /\ SlideAfter \in Nat /\ MaxAge \in Nat /\ SlideAfter < MaxAge
    /\ Horizon \in Nat
    /\ \A s \in Starts : Possible(s)

VARIABLES
    account,     \* the rows, with the membership of each
    workspaces,  \* how many there are
    cred,        \* sessions and tokens
    view,        \* saved views
    clock,
    at, op, tx

accountsVars == <<account, workspaces, cred, view, clock, at, op, tx>>

NoOp == [kind |-> "none"]
NoTx == [who |-> 0, swept |-> {}, workspace |-> 0]
NoAccount == [life |-> "unborn", email |-> "", role |-> "", workspace |-> 0]
NoCred == [life |-> "unborn", kind |-> "", account |-> 0, expires |-> 0, used |-> 0]
NoView == [life |-> "unborn", owner |-> 0, shared |-> FALSE, board |-> FALSE, late |-> FALSE]

AccountsInit ==
    /\ \E s \in Starts :
        /\ account = [a \in Accounts |-> IF a \in DOMAIN s.account THEN s.account[a] ELSE NoAccount]
        /\ workspaces = s.workspaces
        /\ cred = [c \in Creds |-> IF c \in DOMAIN s.cred THEN s.cred[c] ELSE NoCred]
        /\ view = [v \in Views |-> IF v \in DOMAIN s.view THEN s.view[v] ELSE NoView]
    /\ clock = 0
    /\ at = [r \in Requests |-> "idle"]
    /\ op = [r \in Requests |-> NoOp]
    /\ tx = [r \in Requests |-> NoTx]

There(row) == row.life = "there"
Members == {a \in Accounts : There(account[a])}
Who(r) == tx[r].who

Goes(r, from, to) == at[r] = from /\ at' = [at EXCEPT ![r] = to]

\* The request is over, whether it wrote or was refused.
End(r) ==
    /\ at' = [at EXCEPT ![r] = "done"]
    /\ op' = [op EXCEPT ![r] = NoOp]
    /\ tx' = [tx EXCEPT ![r] = NoTx]

Refuse(r) == End(r) /\ UNCHANGED <<account, workspaces, cred, view, clock>>

Tick == clock < Horizon /\ clock' = clock + 1 /\ UNCHANGED <<account, workspaces, cred, view, at, op, tx>>

-----------------------------------------------------------------------------
(* What callers send.                                                      *)

\* One set of calls per handler; a credential is one there has been.
Known == {c \in Creds : cred[c].life # "unborn"}
Tokens == {c \in Creds : cred[c].kind = "token"}
Seen == {v \in Views : view[v].life # "unborn"}

DeleteAccountCalls == [kind : {"deleteAccount"}, cred : Known]
MeCalls == [kind : {"me"}, cred : Known]
IssueTokenCalls == [kind : {"issueToken"}, cred : Known]
RevokeTokenCalls == [kind : {"revokeToken"}, cred : Known, token : Tokens]
CreateViewCalls == [kind : {"createView"}, cred : Known, shared : BOOLEAN, board : BOOLEAN]
UpdateViewCalls == [kind : {"updateView"}, cred : Known, view : Seen, patch : Patches]
DeleteViewCalls == [kind : {"deleteView"}, cred : Known, view : Seen]
RegisterCalls == [kind : {"register"}, email : Emails]
LoginCalls == [kind : {"login"}, email : Emails]
LogoutCalls == [kind : {"logout"}, cred : Known]

Calls ==
    DeleteAccountCalls \cup MeCalls \cup IssueTokenCalls \cup RevokeTokenCalls
        \cup CreateViewCalls \cup UpdateViewCalls \cup DeleteViewCalls
        \cup RegisterCalls \cup LoginCalls \cup LogoutCalls

Ask(r) ==
    /\ Goes(r, "idle", "asked")
    /\ \E o \in Calls : op' = [op EXCEPT ![r] = o]
    /\ UNCHANGED <<account, workspaces, cred, view, clock, tx>>

-----------------------------------------------------------------------------
(* Authenticate, and the middleware that calls it                          *)

NeedsCred(r) == op[r].kind \notin {"none", "register", "login", "logout"}

Valid(c) == There(cred[c]) /\ cred[c].expires > clock

\* A token may do what it names, and never the operations for a session only.
Allows(c, kind) == cred[c].kind = "token" => kind \in TokenScopes

\* Mutant of Slides: a session is renewed in its last day only.
Slides_Late(c) == cred[c].kind = "session" /\ cred[c].expires - clock < SlideAfter

\* Sliding expiry, "written only when the deadline has moved more than a day".
Slides(c) == cred[c].kind = "session" /\ cred[c].expires - clock < MaxAge - SlideAfter

\* Validate and ValidateSession: the row as it is now.  last_used_at and a
\* session that need not slide cost the request nothing more.
Authenticate(r) ==
    LET c == op[r].cred
    IN  /\ NeedsCred(r)
        /\ Valid(c) /\ Allows(c, op[r].kind)
        /\ Goes(r, "asked", IF Slides(c) THEN "sliding" ELSE "ready")
        /\ tx' = [tx EXCEPT ![r].who = cred[c].account]
        /\ cred' = IF Slides(c) THEN cred ELSE [cred EXCEPT ![c].used = clock]
        /\ UNCHANGED <<account, workspaces, view, clock, op>>

\* 401, or 403 for a token without the scope.
Unauthenticated(r) ==
    /\ at[r] = "asked" /\ NeedsCred(r)
    /\ ~(Valid(op[r].cred) /\ Allows(op[r].cred, op[r].kind))
    /\ Refuse(r)

\* The deadline is pushed out, of a row that may have gone since it was read.
Slide(r) ==
    LET c == op[r].cred
    IN  /\ Goes(r, "sliding", "ready")
        /\ cred' = IF There(cred[c]) THEN [cred EXCEPT ![c].expires = clock + MaxAge, ![c].used = clock] ELSE cred
        /\ UNCHANGED <<account, workspaces, view, clock, op, tx>>

\* The write fails, and the request with it.
SlideFails(r) == at[r] = "sliding" /\ Refuse(r)

\* me: an account deleted since answers as no credential would.
Me(r) == at[r] = "ready" /\ op[r].kind = "me" /\ Refuse(r)

-----------------------------------------------------------------------------
(* Sessions and tokens, one statement each                                 *)

Opened(c, row) == cred[c].life = "unborn" /\ cred' = [cred EXCEPT ![c] = row]

Session(a) == [life |-> "there", kind |-> "session", account |-> a, expires |-> clock + MaxAge, used |-> clock]

\* LogIn finds the account (and compares the password) ...
LogIn(r) ==
    /\ op[r].kind = "login"
    /\ \E a \in Members :
        /\ account[a].email = op[r].email
        /\ tx' = [tx EXCEPT ![r].who = a]
    /\ Goes(r, "asked", "opening")
    /\ UNCHANGED <<account, workspaces, cred, view, clock, op>>

InvalidLogin(r) ==
    /\ at[r] = "asked" /\ op[r].kind = "login"
    /\ \A a \in Members : account[a].email # op[r].email
    /\ Refuse(r)

\* ... and OpenSession, of a login or of a registration, inserts the row: the
\* foreign key refuses an account that is gone.
OpenSession(r) ==
    /\ at[r] = "opening"
    /\ Who(r) \in Members
    /\ \E c \in Creds : Opened(c, Session(Who(r)))
    /\ End(r)
    /\ UNCHANGED <<account, workspaces, view, clock>>

NoSession(r) == at[r] = "opening" /\ Who(r) \notin Members /\ Refuse(r)

\* DELETE by the hash of the cookie: gone already is as good.
LogOut(r) ==
    /\ at[r] = "asked" /\ op[r].kind = "logout"
    /\ cred' = IF cred[op[r].cred].kind = "session" THEN [cred EXCEPT ![op[r].cred].life = "gone"] ELSE cred
    /\ End(r)
    /\ UNCHANGED <<account, workspaces, view, clock>>

IssueToken(r) ==
    /\ at[r] = "ready" /\ op[r].kind = "issueToken"
    /\ Who(r) \in Members
    /\ \E c \in Creds, e \in {clock + 1, Horizon + 1} :
        Opened(c, [Session(Who(r)) EXCEPT !.kind = "token", !.expires = e])
    /\ End(r)
    /\ UNCHANGED <<account, workspaces, view, clock>>

\* Revoke keeps the row; another account's token is not found.
RevokeToken(r) ==
    LET c == op[r].token
    IN  /\ at[r] = "ready" /\ op[r].kind = "revokeToken"
        /\ There(cred[c]) /\ cred[c].account = Who(r)
        /\ cred' = [cred EXCEPT ![c].life = "gone"]
        /\ End(r)
        /\ UNCHANGED <<account, workspaces, view, clock>>

NoToken(r) ==
    /\ at[r] = "ready"
    /\ \/ op[r].kind = "issueToken" /\ Who(r) \notin Members
       \/ op[r].kind = "revokeToken" /\ ~(There(cred[op[r].token]) /\ cred[op[r].token].account = Who(r))
    /\ Refuse(r)

-----------------------------------------------------------------------------
(* Register                                                                *)

Registering(r) == at[r] \in {"locked", "found"}

\* Mutant of LockFree: registrations are not serialized.
LockFree_None(r) == r \in Requests

\* pg_advisory_xact_lock, held to the end of the transaction.
LockFree(r) == \A q \in Requests \ {r} : ~Registering(q)

Taken(e) == \E a \in Members : account[a].email = e

\* The lock and the row of the account, whose email is unique.
RegisterLock(r) ==
    /\ op[r].kind = "register"
    /\ LockFree(r)
    /\ ~Taken(op[r].email)
    /\ Goes(r, "asked", "locked")
    /\ UNCHANGED <<account, workspaces, cred, view, clock, op, tx>>

EmailTaken(r) == at[r] = "asked" /\ op[r].kind = "register" /\ LockFree(r) /\ Taken(op[r].email) /\ Refuse(r)

\* The oldest workspace, or one that this transaction makes.
FindWorkspace(r) ==
    /\ Goes(r, "locked", "found")
    /\ tx' = [tx EXCEPT ![r].workspace = IF workspaces > 0 THEN 1 ELSE 0]
    /\ UNCHANGED <<account, workspaces, cred, view, clock, op>>

\* The membership, "owner" when the workspace has nobody in it, and the commit.
Register(r) ==
    LET made == tx[r].workspace = 0
        home == IF made THEN workspaces + 1 ELSE tx[r].workspace
        role == IF \E b \in Members : account[b].workspace = home THEN "member" ELSE "owner"
    IN  /\ Goes(r, "found", "opening")
        /\ workspaces' = IF made THEN home ELSE workspaces
        /\ \E a \in Accounts :
            /\ account[a].life = "unborn" /\ \A b \in Accounts : b < a => account[b].life # "unborn"
            /\ account' = [account EXCEPT ![a] = [life |-> "there", email |-> op[r].email, role |-> role, workspace |-> home]]
            /\ tx' = [tx EXCEPT ![r].who = a]
        /\ UNCHANGED <<cred, view, clock, op>>

\* A registration cancelled before its commit, or whose session is not opened.
RegisterFails(r) == (Registering(r) \/ (at[r] = "opening" /\ op[r].kind = "register")) /\ Refuse(r)

-----------------------------------------------------------------------------
(* Delete                                                                  *)

Deleting(a) == \E q \in Requests : at[q] = "swept" /\ Who(q) = a

\* The rows a sweep has deleted are its own until it commits.
ViewFree(r, v) == \A q \in Requests \ {r} : v \notin tx[q].swept

Private(v, a) == There(view[v]) /\ view[v].owner = a /\ ~view[v].shared

\* The private views the account has now, deleted before the account.
Sweep(r) ==
    LET mine == {v \in Views : Private(v, Who(r))}
    IN  /\ op[r].kind = "deleteAccount"
        /\ \A v \in mine : ViewFree(r, v)
        /\ Goes(r, "ready", "swept")
        /\ tx' = [tx EXCEPT ![r].swept = mine]
        /\ UNCHANGED <<account, workspaces, cred, view, clock, op>>

\* The account, and with it its membership, its sessions and tokens (CASCADE)
\* and the ownership of the views that are left (SET NULL), and the commit.
Delete(r) ==
    LET a == Who(r)
    IN  /\ at[r] = "swept"
        /\ a \in Members
        /\ account' = [account EXCEPT ![a].life = "gone"]
        /\ cred' = [c \in Creds |-> IF cred[c].account = a THEN [cred[c] EXCEPT !.life = "gone"] ELSE cred[c]]
        /\ view' = [v \in Views |->
                CASE v \in tx[r].swept -> [NoView EXCEPT !.life = "gone"]
                  [] v \notin tx[r].swept /\ view[v].owner = a -> [view[v] EXCEPT !.owner = 0]
                  [] OTHER -> view[v]]
        /\ End(r)
        /\ UNCHANGED <<workspaces, clock>>

\* Deleted by another request: the sweep is rolled back.
DeleteFindsNone(r) == at[r] = "swept" /\ Who(r) \notin Members /\ Refuse(r)

-----------------------------------------------------------------------------
(* Saved views                                                             *)

\* Create looks for the team the caller can reach, and for the board ...
CreateCheck(r) ==
    /\ op[r].kind = "createView"
    /\ Who(r) \in Members
    /\ Goes(r, "ready", "checked")
    /\ UNCHANGED <<account, workspaces, cred, view, clock, op, tx>>

\* ... and inserts, in a statement of its own that the key to the account
\* refuses when the account has gone.
Create(r) ==
    /\ at[r] = "checked"
    /\ Who(r) \in Members
    /\ \E v \in Views :
        /\ view[v].life = "unborn"
        /\ view' = [view EXCEPT ![v] = [life |-> "there", owner |-> Who(r), shared |-> op[r].shared,
                                        board |-> op[r].board, late |-> Deleting(Who(r))]]
    /\ End(r)
    /\ UNCHANGED <<account, workspaces, cred, clock>>

CreateFails(r) == at[r] \in {"ready", "checked"} /\ op[r].kind = "createView" /\ Who(r) \notin Members /\ Refuse(r)

\* lock: visible to the caller, and the caller's or nobody's.
Editable(r, v) == There(view[v]) /\ Who(r) \in Members /\ view[v].owner \in {0, Who(r)} /\ (view[v].owner = 0 => view[v].shared)

Shared(r) == IF op[r].patch.shared = "keep" THEN view[op[r].view].shared ELSE op[r].patch.shared = "yes"

\* Mutant of Accepts: anybody may take the team's own view private.
Accepts_Ownerless(r) == op[r].patch.layout = "board" => view[op[r].view].board

\* A list view cannot become a board view, nor the team's own view private.
Accepts(r) ==
    /\ op[r].patch.layout = "board" => view[op[r].view].board
    /\ view[op[r].view].owner = 0 => Shared(r)

Update(r) ==
    LET v == op[r].view
    IN  /\ at[r] = "ready" /\ op[r].kind = "updateView"
        /\ ViewFree(r, v)
        /\ Editable(r, v) /\ Accepts(r)
        /\ view' = [view EXCEPT ![v].shared = Shared(r),
                                ![v].board = IF op[r].patch.layout = "list" THEN FALSE ELSE @,
                                ![v].late = Deleting(Who(r)) \/ (@ /\ op[r].patch.shared # "no")]
        /\ End(r)
        /\ UNCHANGED <<account, workspaces, cred, clock>>

DeleteView(r) ==
    LET v == op[r].view
    IN  /\ at[r] = "ready" /\ op[r].kind = "deleteView"
        /\ ViewFree(r, v)
        /\ Editable(r, v)
        /\ view' = [view EXCEPT ![v] = [NoView EXCEPT !.life = "gone"]]
        /\ End(r)
        /\ UNCHANGED <<account, workspaces, cred, clock>>

NoViewToWrite(r) ==
    /\ at[r] = "ready" /\ op[r].kind \in {"updateView", "deleteView"}
    /\ ViewFree(r, op[r].view)
    /\ ~(Editable(r, op[r].view) /\ (op[r].kind = "updateView" => Accepts(r)))
    /\ Refuse(r)

AccountsNext ==
    \/ Tick
    \/ \E r \in Requests :
        \/ Ask(r) \/ Authenticate(r) \/ Unauthenticated(r) \/ Slide(r) \/ SlideFails(r) \/ Me(r)
        \/ LogIn(r) \/ InvalidLogin(r) \/ OpenSession(r) \/ NoSession(r) \/ LogOut(r)
        \/ IssueToken(r) \/ RevokeToken(r) \/ NoToken(r)
        \/ RegisterLock(r) \/ EmailTaken(r) \/ FindWorkspace(r) \/ Register(r) \/ RegisterFails(r)
        \/ Sweep(r) \/ Delete(r) \/ DeleteFindsNone(r)
        \/ CreateCheck(r) \/ Create(r) \/ CreateFails(r) \/ Update(r) \/ DeleteView(r) \/ NoViewToWrite(r)

AccountsSpec == AccountsInit /\ [][AccountsNext]_accountsVars
-----------------------------------------------------------------------------
(* Properties                                                              *)

\* However registrations and deletions overlap, there is one workspace, and
\* one member of it at most is its owner (register.go:120 "two first
\* registrations can both see an empty workspace table and each create one").
OneWorkspaceOneOwner ==
    /\ workspaces <= 1
    /\ \A a, b \in Members : account[a].role = "owner" /\ account[b].role = "owner" => a = b

\* A private view without an owner is one nobody can see or delete
\* (account.go:25): none is left but those written between the sweep of a
\* deletion and its end.
PrivateViewsAreSwept ==
    \A v \in Views : There(view[v]) /\ ~view[v].shared /\ view[v].owner = 0 => view[v].late

\* A session that is used stays: its deadline is never nearer to its last use
\* than a day short of the maximum, and never further than the maximum,
\* however the requests that slide it overlap (session.go:164).
DeadlineFollowsUse ==
    \A c \in Creds : There(cred[c]) /\ cred[c].kind = "session" =>
        /\ cred[c].expires - cred[c].used <= MaxAge
        /\ cred[c].expires - cred[c].used >= MaxAge - SlideAfter
===============================================================================
