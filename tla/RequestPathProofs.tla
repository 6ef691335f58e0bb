-------------------------- MODULE RequestPathProofs --------------------------
(***************************************************************************)
(* Proofs about the three parts every write goes through, in the order in  *)
(* which it does: the credential it authenticates with and the account     *)
(* behind it (Accounts), its Idempotency-Key (Idempotency), and the hub    *)
(* its event is published to (Hub).  The parts share no state and the      *)
(* theorems of each are about its own specification; the three modules     *)
(* name their specifications apart so that they can be read together.      *)
(***************************************************************************)
EXTENDS Accounts, Idempotency, Hub, FiniteSetTheorems, TLAPS

-----------------------------------------------------------------------------
(***************************************************************************)
(* Accounts: for any number of requests, accounts, credentials and views,  *)
(* one workspace with one owner at most, deadlines that follow the last    *)
(* use, and no view left private to nobody but the late ones.              *)
(***************************************************************************)

\* The rows have the fields the steps look at.
Shape ==
    /\ DOMAIN account = Accounts /\ DOMAIN cred = Creds /\ DOMAIN view = Views
    /\ DOMAIN at = Requests /\ DOMAIN tx = Requests
    /\ \A a \in Accounts : DOMAIN account[a] = {"life", "email", "role", "workspace"}
    /\ \A c \in Creds : DOMAIN cred[c] = {"life", "kind", "account", "expires", "used"}
    /\ \A v \in Views : DOMAIN view[v] = {"life", "owner", "shared", "board", "late"}
    /\ \A r \in Requests : DOMAIN tx[r] = {"who", "swept", "workspace"}

\* One registration at a time is past its lock, and what it found of the
\* workspaces stays so; everybody is a member of the first.
OwnerInv ==
    /\ workspaces \in {0, 1}
    /\ \A a \in Members : account[a].workspace = 1
    /\ \A r, q \in Requests : Registering(r) /\ Registering(q) => r = q
    /\ \A r \in Requests : at[r] = "found" =>
        tx[r].workspace \in {0, 1} /\ (tx[r].workspace = 0 => workspaces = 0)
    /\ \A a, b \in Members : account[a].role = "owner" /\ account[b].role = "owner" => a = b

\* Nothing was used later than now.
ClockInv ==
    /\ clock \in Nat
    /\ \A c \in Creds : cred[c].expires \in Int /\ cred[c].used \in Int /\ cred[c].used <= clock
    /\ DeadlineFollowsUse

\* What an account still has to itself when its views have been swept came late.
SweptInv ==
    /\ \A r \in Requests, v \in Views :
        at[r] = "swept" /\ Private(v, Who(r)) /\ v \notin tx[r].swept => view[v].late
    /\ PrivateViewsAreSwept

-----------------------------------------------------------------------------
(* The start                                                               *)

LEMMA ShapeInit == AccountsInit => Shape
<1> SUFFICES ASSUME AccountsInit PROVE Shape
  OBVIOUS
<1>1. PICK s \in Starts :
        /\ account = [a \in Accounts |-> IF a \in DOMAIN s.account THEN s.account[a] ELSE NoAccount]
        /\ cred = [c \in Creds |-> IF c \in DOMAIN s.cred THEN s.cred[c] ELSE NoCred]
        /\ view = [v \in Views |-> IF v \in DOMAIN s.view THEN s.view[v] ELSE NoView]
  BY DEF AccountsInit
<1>2. /\ \A a \in DOMAIN s.account : s.account[a] \in AccountRows
      /\ \A c \in DOMAIN s.cred : s.cred[c] \in CredRows
      /\ \A v \in DOMAIN s.view : s.view[v] \in ViewRows
  BY AccountsAssumption DEF Possible
<1>3. \A a \in Accounts : DOMAIN account[a] = {"life", "email", "role", "workspace"}
  BY <1>1, <1>2 DEF AccountRows, NoAccount
<1>4. \A c \in Creds : DOMAIN cred[c] = {"life", "kind", "account", "expires", "used"}
  BY <1>1, <1>2 DEF CredRows, NoCred
<1>5. \A v \in Views : DOMAIN view[v] = {"life", "owner", "shared", "board", "late"}
  BY <1>1, <1>2 DEF ViewRows, NoView
<1>6. DOMAIN at = Requests /\ DOMAIN tx = Requests /\ \A r \in Requests : DOMAIN tx[r] = {"who", "swept", "workspace"}
  BY DEF AccountsInit, NoTx
<1>7. QED BY <1>1, <1>3, <1>4, <1>5, <1>6 DEF Shape

LEMMA OwnerInit == AccountsInit => OwnerInv
<1> SUFFICES ASSUME AccountsInit PROVE OwnerInv
  OBVIOUS
<1>1. PICK s \in Starts :
        /\ account = [a \in Accounts |-> IF a \in DOMAIN s.account THEN s.account[a] ELSE NoAccount]
        /\ workspaces = s.workspaces
  BY DEF AccountsInit
<1>2. NoAccount.life = "unborn"
  BY DEF NoAccount
<1>3. \A a \in Members : a \in DOMAIN s.account /\ account[a] = s.account[a]
  BY <1>1, <1>2 DEF Members, There
<1>4. \A r \in Requests : at[r] = "idle"
  BY DEF AccountsInit
<1>5. Possible(s)
  BY AccountsAssumption
<1>6. QED BY <1>1, <1>3, <1>4, <1>5 DEF OwnerInv, Possible, Registering

LEMMA ClockInit == AccountsInit => ClockInv
<1> SUFFICES ASSUME AccountsInit PROVE ClockInv
  OBVIOUS
<1>1. PICK s \in Starts : cred = [c \in Creds |-> IF c \in DOMAIN s.cred THEN s.cred[c] ELSE NoCred]
  BY DEF AccountsInit
<1>2. NoCred.life = "unborn" /\ NoCred.expires = 0 /\ NoCred.used = 0
  BY DEF NoCred
<1>3. clock = 0
  BY DEF AccountsInit
<1>4. ASSUME NEW c \in Creds, c \in DOMAIN s.cred
      PROVE  /\ cred[c].expires \in Int /\ cred[c].used \in Int /\ cred[c].used <= 0
             /\ cred[c].kind = "session" =>
                    /\ cred[c].expires - cred[c].used <= MaxAge
                    /\ cred[c].expires - cred[c].used >= MaxAge - SlideAfter
  <2>1. s.cred[c].expires \in Int /\ s.cred[c].used \in Int
    BY <1>4, AccountsAssumption DEF Possible, CredRows
  <2>2. s.cred[c].used <= 0
    BY <1>4, AccountsAssumption DEF Possible
  <2>3. s.cred[c].kind = "session" => s.cred[c].expires - s.cred[c].used \in (MaxAge - SlideAfter) .. MaxAge
    BY <1>4, AccountsAssumption DEF Possible
  <2>4. cred[c] = s.cred[c]
    BY <1>1, <1>4
  <2>5. QED BY <2>1, <2>2, <2>3, <2>4, AccountsAssumption
<1>5. \A c \in Creds : c \notin DOMAIN s.cred => cred[c] = NoCred
  BY <1>1
<1>6. QED BY <1>2, <1>3, <1>4, <1>5 DEF ClockInv, DeadlineFollowsUse, There

LEMMA SweptInit == AccountsInit => SweptInv
<1> SUFFICES ASSUME AccountsInit PROVE SweptInv
  OBVIOUS
<1>1. PICK s \in Starts : view = [v \in Views |-> IF v \in DOMAIN s.view THEN s.view[v] ELSE NoView]
  BY DEF AccountsInit
<1>2. NoView.life = "unborn"
  BY DEF NoView
<1>3. \A v \in DOMAIN s.view : s.view[v].owner = 0 => s.view[v].shared
  BY AccountsAssumption DEF Possible
<1>4. \A r \in Requests : at[r] = "idle"
  BY DEF AccountsInit
<1>5. QED BY <1>1, <1>2, <1>3, <1>4 DEF SweptInv, PrivateViewsAreSwept, There

-----------------------------------------------------------------------------
(* The steps                                                               *)

\* What the end of a request leaves of the others.
LEMMA EndFacts ==
  ASSUME Shape, NEW r \in Requests, End(r)
  PROVE  /\ DOMAIN at' = Requests /\ DOMAIN tx' = Requests
         /\ at'[r] = "done" /\ tx'[r] = NoTx
         /\ \A q \in Requests \ {r} : at'[q] = at[q] /\ tx'[q] = tx[q]
  BY DEF Shape, End

\* A step of one request to another stage, which it does not end with.
LEMMA GoFacts ==
  ASSUME Shape, NEW r \in Requests, NEW s, NEW t, Goes(r, s, t)
  PROVE  /\ DOMAIN at' = Requests /\ at[r] = s /\ at'[r] = t
         /\ \A q \in Requests \ {r} : at'[q] = at[q]
  BY DEF Shape, Goes

LEMMA ShapeNext == Shape /\ [AccountsNext]_accountsVars => Shape'
<1> SUFFICES ASSUME Shape, [AccountsNext]_accountsVars PROVE Shape'
  OBVIOUS
<1>1. CASE UNCHANGED accountsVars \/ Tick
  BY <1>1 DEF accountsVars, Tick, Shape
<1>2. ASSUME NEW r \in Requests, End(r), UNCHANGED account,
             \A c \in Creds : DOMAIN cred'[c] = DOMAIN cred[c], DOMAIN cred' = Creds,
             \A v \in Views : DOMAIN view'[v] = DOMAIN view[v], DOMAIN view' = Views
      PROVE  Shape'
  BY <1>2, EndFacts DEF Shape, NoTx
<1>3. ASSUME NEW r \in Requests, Refuse(r)
      PROVE  Shape'
  BY <1>2, <1>3 DEF Refuse, Shape
<1>4. ASSUME NEW r \in Requests,
             \/ Unauthenticated(r) \/ SlideFails(r) \/ Me(r) \/ InvalidLogin(r) \/ NoSession(r) \/ NoToken(r)
             \/ EmailTaken(r) \/ RegisterFails(r) \/ DeleteFindsNone(r) \/ CreateFails(r) \/ NoViewToWrite(r)
      PROVE  Shape'
  BY <1>3, <1>4 DEF Unauthenticated, SlideFails, Me, InvalidLogin, NoSession, NoToken,
                    EmailTaken, RegisterFails, DeleteFindsNone, CreateFails, NoViewToWrite
<1>5. ASSUME NEW r \in Requests, Ask(r) \/ RegisterLock(r) \/ CreateCheck(r)
      PROVE  Shape'
  BY <1>5 DEF Ask, RegisterLock, CreateCheck, Goes, Shape
<1>6. ASSUME NEW r \in Requests, LogIn(r) \/ FindWorkspace(r) \/ Sweep(r)
      PROVE  Shape'
  BY <1>6 DEF LogIn, FindWorkspace, Sweep, Goes, Shape
<1>7. ASSUME NEW r \in Requests, Authenticate(r) \/ Slide(r)
      PROVE  Shape'
  BY <1>7 DEF Authenticate, Slide, Goes, Shape
<1>8. ASSUME NEW r \in Requests, OpenSession(r) \/ IssueToken(r)
      PROVE  Shape'
  <2>1. \E c \in Creds : \E cr : DOMAIN cr = {"life", "kind", "account", "expires", "used"} /\ cred' = [cred EXCEPT ![c] = cr]
    BY <1>8 DEF OpenSession, IssueToken, Opened, Session
  <2>2. QED BY <1>2, <1>8, <2>1 DEF OpenSession, IssueToken, Shape
<1>9. ASSUME NEW r \in Requests, LogOut(r) \/ RevokeToken(r)
      PROVE  Shape'
  <2>1. \A c \in Creds : DOMAIN cred'[c] = DOMAIN cred[c]
    BY <1>9 DEF LogOut, RevokeToken, Shape
  <2>2. DOMAIN cred' = Creds
    BY <1>9 DEF LogOut, RevokeToken, Shape
  <2>3. QED BY <1>2, <1>9, <2>1, <2>2 DEF LogOut, RevokeToken, Shape
<1>10. ASSUME NEW r \in Requests, Register(r)
       PROVE  Shape'
  BY <1>10 DEF Register, Goes, Shape
<1>11. ASSUME NEW r \in Requests, Delete(r)
       PROVE  Shape'
  <2>1. \A v \in Views : DOMAIN view'[v] = {"life", "owner", "shared", "board", "late"}
    BY <1>11 DEF Delete, Shape, NoView
  <2>2. \A c \in Creds : DOMAIN cred'[c] = DOMAIN cred[c]
    BY <1>11 DEF Delete, Shape
  <2>3. \A a \in Accounts : DOMAIN account'[a] = DOMAIN account[a]
    BY <1>11 DEF Delete, Shape
  <2>4. DOMAIN account' = Accounts /\ DOMAIN cred' = Creds /\ DOMAIN view' = Views
    BY <1>11 DEF Delete, Shape
  <2>5. End(r)
    BY <1>11 DEF Delete
  <2>6. QED BY <2>1, <2>2, <2>3, <2>4, <2>5, EndFacts DEF Shape, NoTx
<1>12. ASSUME NEW r \in Requests, Create(r) \/ Update(r) \/ DeleteView(r)
       PROVE  Shape'
  <2>1. \A v \in Views : DOMAIN view'[v] = {"life", "owner", "shared", "board", "late"}
    BY <1>12 DEF Create, Update, DeleteView, Shape, NoView
  <2>2. DOMAIN view' = Views
    BY <1>12 DEF Create, Update, DeleteView, Shape
  <2>3. QED BY <1>2, <1>12, <2>1, <2>2 DEF Create, Update, DeleteView, Shape
<1>13. QED BY <1>1, <1>4, <1>5, <1>6, <1>7, <1>8, <1>9, <1>10, <1>11, <1>12 DEF AccountsNext

\* Registrations. A step that leaves the accounts and every registration where
\* they are, or ends one.
LEMMA OwnerKept ==
  ASSUME Shape, OwnerInv, UNCHANGED <<account, workspaces>>,
         \A q \in Requests : Registering(q)' => Registering(q),
         \A q \in Requests : at'[q] = "found" => at[q] = "found" /\ tx'[q] = tx[q]
  PROVE  OwnerInv'
  BY DEF OwnerInv, Members, There

LEMMA OwnerNext == Shape /\ OwnerInv /\ [AccountsNext]_accountsVars => OwnerInv'
<1> SUFFICES ASSUME Shape, OwnerInv, [AccountsNext]_accountsVars PROVE OwnerInv'
  OBVIOUS
<1>1. CASE UNCHANGED accountsVars \/ Tick
  BY <1>1, OwnerKept DEF accountsVars, Tick, Registering
<1>2. ASSUME NEW r \in Requests, End(r), UNCHANGED <<account, workspaces>>
      PROVE  OwnerInv'
  <2>1. \A q \in Requests : at'[q] = "done" \/ (at'[q] = at[q] /\ tx'[q] = tx[q])
    BY <1>2, EndFacts
  <2>2. QED BY <1>2, <2>1, OwnerKept DEF Registering
<1>3. ASSUME NEW r \in Requests,
             \/ Unauthenticated(r) \/ SlideFails(r) \/ Me(r) \/ InvalidLogin(r) \/ NoSession(r) \/ NoToken(r)
             \/ EmailTaken(r) \/ RegisterFails(r) \/ DeleteFindsNone(r) \/ CreateFails(r) \/ NoViewToWrite(r)
      PROVE  OwnerInv'
  BY <1>2, <1>3 DEF Refuse, Unauthenticated, SlideFails, Me, InvalidLogin, NoSession, NoToken,
                    EmailTaken, RegisterFails, DeleteFindsNone, CreateFails, NoViewToWrite
<1>4. ASSUME NEW r \in Requests,
             \/ OpenSession(r) \/ IssueToken(r) \/ LogOut(r) \/ RevokeToken(r)
             \/ Create(r) \/ Update(r) \/ DeleteView(r)
      PROVE  OwnerInv'
  BY <1>2, <1>4 DEF OpenSession, IssueToken, LogOut, RevokeToken, Create, Update, DeleteView
<1>5. ASSUME NEW r \in Requests,
             Ask(r) \/ Authenticate(r) \/ Slide(r) \/ LogIn(r) \/ CreateCheck(r) \/ Sweep(r)
      PROVE  OwnerInv'
  <2>1. PICK s : at' = [at EXCEPT ![r] = s] /\ s \notin {"locked", "found"}
    BY <1>5 DEF Ask, Authenticate, Slide, LogIn, CreateCheck, Sweep, Goes
  <2>2. \A q \in Requests \ {r} : tx'[q] = tx[q]
    BY <1>5 DEF Ask, Authenticate, Slide, LogIn, CreateCheck, Sweep, Shape
  <2>3. UNCHANGED <<account, workspaces>>
    BY <1>5 DEF Ask, Authenticate, Slide, LogIn, CreateCheck, Sweep
  <2>4. QED BY <2>1, <2>2, <2>3, OwnerKept DEF Shape, Registering
<1>6. ASSUME NEW r \in Requests, RegisterLock(r)
      PROVE  OwnerInv'
  BY <1>6 DEF RegisterLock, LockFree, Goes, OwnerInv, Shape, Registering, Members, There
<1>7. ASSUME NEW r \in Requests, FindWorkspace(r)
      PROVE  OwnerInv'
  BY <1>7 DEF FindWorkspace, Goes, OwnerInv, Shape, Registering, Members, There
<1>8. ASSUME NEW r \in Requests, Register(r)
      PROVE  OwnerInv'
  <2> DEFINE fresh == tx[r].workspace = 0
             home == IF fresh THEN workspaces + 1 ELSE tx[r].workspace
             role == IF \E b \in Members : account[b].workspace = home THEN "member" ELSE "owner"
  <2>1. /\ at[r] = "found" /\ \A q \in Requests : at'[q] = IF q = r THEN "opening" ELSE at[q]
        /\ workspaces' = IF fresh THEN home ELSE workspaces
    BY <1>8 DEF Register, Goes, Shape
  <2>2. PICK a \in Accounts : /\ account' = [account EXCEPT ![a] = [life |-> "there", email |-> op[r].email, role |-> role, workspace |-> home]]
                              /\ tx' = [tx EXCEPT ![r].who = a]
    BY <1>8 DEF Register
  <2>3. home = 1 /\ workspaces' \in {0, 1}
    BY <2>1 DEF OwnerInv
  <2>4. \A q \in Requests : at'[q] = "found" => FALSE
    BY <2>1 DEF OwnerInv, Registering
  <2>5. \A p, q \in Requests : Registering(p)' /\ Registering(q)' => p = q
    BY <2>1 DEF OwnerInv, Registering
  <2>6. \A b \in Accounts \ {a} : account'[b] = account[b]
    BY <2>2 DEF Shape
  <2>7. account'[a].role = role /\ account'[a].workspace = 1
    BY <2>2, <2>3 DEF Shape
  <2>8. \A b \in Members' : account'[b].workspace = 1
    BY <2>6, <2>7 DEF OwnerInv, Members, There
  <2>9. role = "owner" => Members = {}
    BY <2>3 DEF OwnerInv
  <2>10. \A b, c \in Members' : account'[b].role = "owner" /\ account'[c].role = "owner" => b = c
    BY <2>6, <2>7, <2>9 DEF OwnerInv, Members, There
  <2>11. QED BY <2>3, <2>4, <2>5, <2>8, <2>10 DEF OwnerInv
<1>9. ASSUME NEW r \in Requests, Delete(r)
      PROVE  OwnerInv'
  <2>1. \A q \in Requests : at'[q] = "done" \/ (at'[q] = at[q] /\ tx'[q] = tx[q])
    BY <1>9, EndFacts DEF Delete
  <2>2. \A a \in Members' : a \in Members /\ account'[a].workspace = account[a].workspace /\ account'[a].role = account[a].role
    BY <1>9 DEF Delete, Members, There, Shape
  <2>3. UNCHANGED workspaces
    BY <1>9 DEF Delete
  <2>4. QED BY <2>1, <2>2, <2>3 DEF OwnerInv, Registering
<1>10. QED BY <1>1, <1>3, <1>4, <1>5, <1>6, <1>7, <1>8, <1>9 DEF AccountsNext

\* Deadlines. What may become of a credential that is not used.
LEMMA ClockKept ==
  ASSUME ClockInv, UNCHANGED clock,
         \A c \in Creds : /\ cred'[c].expires = cred[c].expires /\ cred'[c].used = cred[c].used
                          /\ cred'[c].kind = cred[c].kind /\ (There(cred'[c]) => There(cred[c]))
  PROVE  ClockInv'
  BY DEF ClockInv, DeadlineFollowsUse

LEMMA ClockNext == Shape /\ ClockInv /\ [AccountsNext]_accountsVars => ClockInv'
<1> SUFFICES ASSUME Shape, ClockInv, [AccountsNext]_accountsVars PROVE ClockInv'
  OBVIOUS
<1>1. CASE UNCHANGED <<cred, clock>>
  BY <1>1, ClockKept
<1>2. CASE Tick
  BY <1>2 DEF Tick, ClockInv, DeadlineFollowsUse
<1>3. ASSUME NEW r \in Requests,
             \/ Unauthenticated(r) \/ SlideFails(r) \/ Me(r) \/ InvalidLogin(r) \/ NoSession(r) \/ NoToken(r)
             \/ EmailTaken(r) \/ RegisterFails(r) \/ DeleteFindsNone(r) \/ CreateFails(r) \/ NoViewToWrite(r)
      PROVE  UNCHANGED <<cred, clock>>
  BY <1>3 DEF Refuse, Unauthenticated, SlideFails, Me, InvalidLogin, NoSession, NoToken,
              EmailTaken, RegisterFails, DeleteFindsNone, CreateFails, NoViewToWrite
<1>4. ASSUME NEW r \in Requests,
             \/ Ask(r) \/ LogIn(r) \/ RegisterLock(r) \/ FindWorkspace(r) \/ Register(r) \/ Sweep(r)
             \/ CreateCheck(r) \/ Create(r) \/ Update(r) \/ DeleteView(r)
      PROVE  UNCHANGED <<cred, clock>>
  BY <1>4 DEF Ask, LogIn, RegisterLock, FindWorkspace, Register, Sweep, CreateCheck, Create, Update, DeleteView
<1>5. ASSUME NEW r \in Requests, LogOut(r) \/ RevokeToken(r) \/ Delete(r)
      PROVE  ClockInv'
  <2>1. UNCHANGED clock
    BY <1>5 DEF LogOut, RevokeToken, Delete
  <2>2. \A c \in Creds : cred'[c] = cred[c] \/ cred'[c] = [cred[c] EXCEPT !.life = "gone"]
    BY <1>5 DEF LogOut, RevokeToken, Delete, Shape
  <2>3. \A c \in Creds : /\ cred'[c].expires = cred[c].expires /\ cred'[c].used = cred[c].used
                         /\ cred'[c].kind = cred[c].kind
                         /\ (cred'[c].life = "there" => cred[c].life = "there")
    <3> TAKE c \in Creds
    <3>1. CASE cred'[c] = cred[c]
      BY <3>1
    <3>2. CASE cred'[c] = [cred[c] EXCEPT !.life = "gone"]
      <4>1. DOMAIN cred[c] = {"life", "kind", "account", "expires", "used"}
        BY DEF Shape
      <4>2. cred'[c].life = "gone" /\ "gone" # "there"
        BY <3>2, <4>1
      <4>3. QED BY <3>2, <4>1, <4>2
    <3>3. QED BY <2>2, <3>1, <3>2
  <2>4. QED BY <2>1, <2>3, ClockKept DEF There
<1>6. ASSUME NEW r \in Requests, OpenSession(r) \/ IssueToken(r)
      PROVE  ClockInv'
  <2>1. PICK c, cr : /\ c \in Creds /\ cred' = [cred EXCEPT ![c] = cr]
                     /\ cr.expires \in Int /\ cr.used = clock
                     /\ cr.kind = "session" => cr.expires = clock + MaxAge
    <3> DEFINE s == Session(Who(r))
    <3>1. s.expires = clock + MaxAge /\ s.used = clock /\ DOMAIN s = {"life", "kind", "account", "expires", "used"}
      BY DEF Session
    <3>2. clock \in Int /\ MaxAge \in Int /\ Horizon \in Int
      BY AccountsAssumption DEF ClockInv
    <3>3. CASE OpenSession(r)
      <4>1. PICK c \in Creds : cred' = [cred EXCEPT ![c] = s]
        BY <3>3 DEF OpenSession, Opened
      <4>2. s.expires \in Int
        BY <3>1, <3>2
      <4> HIDE DEF s
      <4>3. QED BY <3>1, <4>1, <4>2
    <3>4. CASE IssueToken(r)
      <4>1. PICK c \in Creds, e \in {clock + 1, Horizon + 1} :
              cred' = [cred EXCEPT ![c] = [s EXCEPT !.kind = "token", !.expires = e]]
        BY <3>4 DEF IssueToken, Opened
      <4> DEFINE t == [s EXCEPT !.kind = "token", !.expires = e]
      <4>2. t.expires \in Int
        BY <3>1, <3>2
      <4>3. t.used = clock /\ t.kind # "session"
        BY <3>1 DEF Session
      <4> HIDE DEF t
      <4>4. QED BY <4>1, <4>2, <4>3 DEF t
    <3>5. QED BY <1>6, <3>3, <3>4
  <2>2. UNCHANGED clock
    BY <1>6 DEF OpenSession, IssueToken
  <2>3. \A d \in Creds : cred'[d] = IF d = c THEN cr ELSE cred[d]
    BY <2>1 DEF Shape
  <2>4. QED BY <2>1, <2>2, <2>3, AccountsAssumption DEF ClockInv, DeadlineFollowsUse
<1>7. ASSUME NEW r \in Requests, Authenticate(r)
      PROVE  ClockInv'
  <2> DEFINE c == op[r].cred
  <2>1. UNCHANGED clock /\ There(cred[c]) /\ cred' = IF Slides(c) THEN cred ELSE [cred EXCEPT ![c].used = clock]
    BY <1>7 DEF Authenticate, Valid
  <2>2. CASE Slides(c) \/ c \notin Creds
    <3>1. \A d \in Creds : cred'[d] = cred[d]
      BY <2>1, <2>2 DEF Shape
    <3>2. QED BY <2>1, <3>1, ClockKept
  <2>3. CASE ~Slides(c) /\ c \in Creds
    <3>1. /\ \A d \in Creds \ {c} : cred'[d] = cred[d]
          /\ cred'[c].expires = cred[c].expires /\ cred'[c].used = clock /\ cred'[c].kind = cred[c].kind
      BY <2>1, <2>3 DEF Shape
    <3>2. cred[c].kind = "session" => cred[c].expires - clock >= MaxAge - SlideAfter
      BY <2>3, AccountsAssumption DEF Slides, ClockInv
    <3>3. cred[c].kind = "session" => cred[c].expires - clock <= MaxAge
      BY <2>1, <2>3, AccountsAssumption DEF ClockInv, DeadlineFollowsUse
    <3>4. QED BY <2>1, <2>3, <3>1, <3>2, <3>3 DEF ClockInv, DeadlineFollowsUse
  <2>4. QED BY <2>2, <2>3
<1>8. ASSUME NEW r \in Requests, Slide(r)
      PROVE  ClockInv'
  <2> DEFINE c == op[r].cred
  <2>1. UNCHANGED clock
        /\ cred' = IF There(cred[c]) THEN [cred EXCEPT ![c].expires = clock + MaxAge, ![c].used = clock] ELSE cred
    BY <1>8 DEF Slide
  <2>2. \A d \in Creds : cred'[d] = cred[d] \/ cred'[d] = [cred[d] EXCEPT !.expires = clock + MaxAge, !.used = clock]
    BY <2>1 DEF Shape
  <2>3. \A d \in Creds : cred'[d] = cred[d] \/ (cred'[d].expires = clock + MaxAge /\ cred'[d].used = clock)
    BY <2>2 DEF Shape
  <2>4. clock \in Nat /\ MaxAge \in Nat /\ SlideAfter \in Nat
    BY AccountsAssumption DEF ClockInv
  <2>5. \A d \in Creds : cred'[d].expires \in Int /\ cred'[d].used \in Int /\ cred'[d].used <= clock
    BY <2>3, <2>4 DEF ClockInv
  <2>6. \A d \in Creds : There(cred'[d]) /\ cred'[d].kind = "session" =>
          cred'[d].expires - cred'[d].used <= MaxAge /\ cred'[d].expires - cred'[d].used >= MaxAge - SlideAfter
    <3> SUFFICES ASSUME NEW d \in Creds, There(cred'[d]), cred'[d].kind = "session"
                 PROVE  cred'[d].expires - cred'[d].used <= MaxAge /\ cred'[d].expires - cred'[d].used >= MaxAge - SlideAfter
      OBVIOUS
    <3>1. CASE cred'[d] = cred[d]
      BY <3>1 DEF ClockInv, DeadlineFollowsUse, There
    <3>2. CASE cred'[d].expires = clock + MaxAge /\ cred'[d].used = clock
      BY <3>2, <2>4
    <3>3. QED BY <2>3, <3>1, <3>2
  <2>7. QED BY <2>1, <2>4, <2>5, <2>6 DEF ClockInv, DeadlineFollowsUse
<1>9. QED BY <1>1, <1>2, <1>3, <1>4, <1>5, <1>6, <1>7, <1>8 DEF AccountsNext, accountsVars

\* Sweeps. A step that leaves the views, and every account that has been swept,
\* where they are.
LEMMA SweptKept ==
  ASSUME SweptInv, UNCHANGED view,
         \A q \in Requests : at'[q] = "swept" => at[q] = "swept" /\ tx'[q] = tx[q]
  PROVE  SweptInv'
  BY DEF SweptInv, PrivateViewsAreSwept, Private, Who

LEMMA SweptNext == Shape /\ SweptInv /\ [AccountsNext]_accountsVars => SweptInv'
<1> SUFFICES ASSUME Shape, SweptInv, [AccountsNext]_accountsVars PROVE SweptInv'
  OBVIOUS
<1>1. CASE UNCHANGED accountsVars \/ Tick
  BY <1>1, SweptKept DEF accountsVars, Tick
<1>2. ASSUME NEW r \in Requests, End(r), UNCHANGED view
      PROVE  SweptInv'
  BY <1>2, EndFacts, SweptKept
<1>3. ASSUME NEW r \in Requests,
             \/ Unauthenticated(r) \/ SlideFails(r) \/ Me(r) \/ InvalidLogin(r) \/ NoSession(r) \/ NoToken(r)
             \/ EmailTaken(r) \/ RegisterFails(r) \/ DeleteFindsNone(r) \/ CreateFails(r) \/ NoViewToWrite(r)
      PROVE  SweptInv'
  BY <1>2, <1>3 DEF Refuse, Unauthenticated, SlideFails, Me, InvalidLogin, NoSession, NoToken,
                    EmailTaken, RegisterFails, DeleteFindsNone, CreateFails, NoViewToWrite
<1>4. ASSUME NEW r \in Requests, OpenSession(r) \/ IssueToken(r) \/ LogOut(r) \/ RevokeToken(r)
      PROVE  SweptInv'
  BY <1>2, <1>4 DEF OpenSession, IssueToken, LogOut, RevokeToken
<1>5. ASSUME NEW r \in Requests,
             \/ Ask(r) \/ Authenticate(r) \/ Slide(r) \/ LogIn(r) \/ CreateCheck(r)
             \/ RegisterLock(r) \/ FindWorkspace(r) \/ Register(r)
      PROVE  SweptInv'
  <2>1. PICK s : at' = [at EXCEPT ![r] = s] /\ s # "swept"
    <3>1. CASE Ask(r) \/ Slide(r) \/ LogIn(r) \/ CreateCheck(r)
      BY <3>1 DEF Ask, Slide, LogIn, CreateCheck, Goes
    <3>2. CASE RegisterLock(r) \/ FindWorkspace(r) \/ Register(r)
      BY <3>2 DEF RegisterLock, FindWorkspace, Register, Goes
    <3>3. CASE Authenticate(r)
      <4>1. at' = [at EXCEPT ![r] = "sliding"] \/ at' = [at EXCEPT ![r] = "ready"]
        BY <3>3 DEF Authenticate, Goes
      <4>2. QED BY <4>1
    <3>4. QED BY <1>5, <3>1, <3>2, <3>3
  <2>2. \A q \in Requests \ {r} : tx'[q] = tx[q]
    BY <1>5 DEF Ask, Authenticate, Slide, LogIn, CreateCheck, RegisterLock, FindWorkspace, Register, Shape
  <2>3. UNCHANGED view
    BY <1>5 DEF Ask, Authenticate, Slide, LogIn, CreateCheck, RegisterLock, FindWorkspace, Register
  <2>4. QED BY <2>1, <2>2, <2>3, SweptKept DEF Shape
<1>6. ASSUME NEW r \in Requests, Sweep(r)
      PROVE  SweptInv'
  <2>1. /\ UNCHANGED view
        /\ \A q \in Requests \ {r} : at'[q] = at[q] /\ tx'[q] = tx[q]
        /\ tx'[r].who = tx[r].who /\ tx'[r].swept = {v \in Views : Private(v, Who(r))}
    BY <1>6 DEF Sweep, Goes, Shape
  <2>2. \A q \in Requests, v \in Views :
            at'[q] = "swept" /\ Private(v, Who(q))' /\ v \notin tx'[q].swept => view'[v].late
    BY <2>1 DEF SweptInv, Private, Who
  <2>3. QED BY <2>1, <2>2 DEF SweptInv, PrivateViewsAreSwept
<1>7. ASSUME NEW r \in Requests, Delete(r)
      PROVE  SweptInv'
  <2> DEFINE a == Who(r)
  <2>1. \A q \in Requests : at'[q] = "swept" => q # r /\ at[q] = "swept" /\ tx'[q] = tx[q]
    BY <1>7, EndFacts DEF Delete
  <2>2. at[r] = "swept"
    BY <1>7 DEF Delete
  <2>3. ASSUME NEW v \in Views, There(view'[v])
        PROVE  /\ v \notin tx[r].swept /\ There(view[v])
               /\ view'[v].shared = view[v].shared /\ view'[v].late = view[v].late
               /\ view'[v].owner = IF view[v].owner = a THEN 0 ELSE view[v].owner
    <3>1. v \notin tx[r].swept
      BY <1>7, <2>3 DEF Delete, There, NoView, Shape
    <3>2. view'[v] = IF view[v].owner = a THEN [view[v] EXCEPT !.owner = 0] ELSE view[v]
      BY <1>7, <3>1 DEF Delete
    <3>3. QED BY <2>3, <3>1, <3>2 DEF There, Shape
  <2>4. PrivateViewsAreSwept'
    BY <2>2, <2>3 DEF SweptInv, PrivateViewsAreSwept, Private
  <2>5. \A q \in Requests, v \in Views :
            at'[q] = "swept" /\ Private(v, Who(q))' /\ v \notin tx'[q].swept => view'[v].late
    BY <2>1, <2>3, <2>4 DEF SweptInv, PrivateViewsAreSwept, Private, Who
  <2>6. QED BY <2>4, <2>5 DEF SweptInv
<1>8. ASSUME NEW r \in Requests, Create(r)
      PROVE  SweptInv'
  <2>1. \A q \in Requests : at'[q] = "swept" => at[q] = "swept" /\ tx'[q] = tx[q]
    BY <1>8, EndFacts DEF Create
  <2>2. PICK n \in Views : \A v \in Views : IF v = n THEN view'[v].owner = Who(r) /\ view'[v].late = Deleting(Who(r))
                                                     ELSE view'[v] = view[v]
    BY <1>8 DEF Create, Shape
  <2>3. Who(r) # 0
    BY <1>8, AccountsAssumption DEF Create, Members
  <2>4. PrivateViewsAreSwept'
    BY <2>2, <2>3 DEF SweptInv, PrivateViewsAreSwept
  <2>5. ASSUME NEW q \in Requests, NEW v \in Views,
               at'[q] = "swept", Private(v, Who(q))', v \notin tx'[q].swept
        PROVE  view'[v].late
    <3>1. at[q] = "swept" /\ tx'[q] = tx[q]
      BY <2>1, <2>5
    <3>2. CASE v = n
      <4>1. view'[v].owner = Who(r) /\ view'[v].late = Deleting(Who(r))
        BY <2>2, <3>2
      <4>2. Who(q) = Who(r)
        BY <2>5, <3>1, <4>1 DEF Private, Who
      <4>3. QED BY <3>1, <4>1, <4>2 DEF Deleting
    <3>3. CASE v # n
      <4>1. view'[v] = view[v]
        BY <2>2, <3>3
      <4>2. QED BY <2>5, <3>1, <4>1 DEF SweptInv, Private, Who
    <3>4. QED BY <3>2, <3>3
  <2>6. QED BY <2>4, <2>5 DEF SweptInv
<1>9. ASSUME NEW r \in Requests, Update(r)
      PROVE  SweptInv'
  <2> DEFINE n == op[r].view
  <2>1. \A q \in Requests : at'[q] = "swept" => q # r /\ at[q] = "swept" /\ tx'[q] = tx[q]
    BY <1>9, EndFacts DEF Update
  <2>2. \A q \in Requests \ {r} : n \notin tx[q].swept
    BY <1>9 DEF Update, ViewFree
  <2>3. \A v \in Views \ {n} : view'[v] = view[v]
    BY <1>9 DEF Update, Shape
  <2>4. n \in Views => /\ view'[n].owner = view[n].owner /\ view'[n].shared = Shared(r)
                       /\ Deleting(Who(r)) => view'[n].late
    BY <1>9 DEF Update, Shape
  <2>5. view[n].owner = 0 => Shared(r)
    BY <1>9 DEF Update, Accepts
  <2>6. view[n].owner \in {0, Who(r)}
    BY <1>9 DEF Update, Editable
  <2>7. PrivateViewsAreSwept'
    BY <2>3, <2>4, <2>5 DEF SweptInv, PrivateViewsAreSwept
  <2>8. \A q \in Requests, v \in Views :
            at'[q] = "swept" /\ Private(v, Who(q))' /\ v \notin tx'[q].swept => view'[v].late
    BY <2>1, <2>3, <2>4, <2>5, <2>6 DEF SweptInv, Private, Who, Deleting
  <2>9. QED BY <2>7, <2>8 DEF SweptInv
<1>10. ASSUME NEW r \in Requests, DeleteView(r)
       PROVE  SweptInv'
  <2>1. \A q \in Requests : at'[q] = "swept" => at[q] = "swept" /\ tx'[q] = tx[q]
    BY <1>10, EndFacts DEF DeleteView
  <2>2. \A v \in Views : view'[v] = view[v] \/ ~There(view'[v])
    BY <1>10 DEF DeleteView, Shape, There, NoView
  <2>3. QED BY <2>1, <2>2 DEF SweptInv, PrivateViewsAreSwept, Private, Who
<1>11. QED BY <1>1, <1>3, <1>4, <1>5, <1>6, <1>7, <1>8, <1>9, <1>10 DEF AccountsNext

-----------------------------------------------------------------------------
LEMMA SpecInv == AccountsSpec => [](Shape /\ OwnerInv /\ ClockInv /\ SweptInv)
<1>1. AccountsInit => Shape /\ OwnerInv /\ ClockInv /\ SweptInv
  BY ShapeInit, OwnerInit, ClockInit, SweptInit
<1>2. (Shape /\ OwnerInv /\ ClockInv /\ SweptInv) /\ [AccountsNext]_accountsVars => (Shape /\ OwnerInv /\ ClockInv /\ SweptInv)'
  BY ShapeNext, OwnerNext, ClockNext, SweptNext
<1>3. QED BY <1>1, <1>2, PTL DEF AccountsSpec

\* internal/account, Register: its lock, held from before the look for a
\* workspace to the commit, is enough for one workspace and one owner at most,
\* whoever registers and deletes meanwhile.
THEOREM OneOwner == AccountsSpec => []OneWorkspaceOneOwner
<1>1. OwnerInv => OneWorkspaceOneOwner
  BY DEF OwnerInv, OneWorkspaceOneOwner
<1>2. QED BY <1>1, SpecInv, PTL

\* internal/auth, ValidateSession: the deadline stays between the maximum and a
\* day short of it from the last use, although requests decide on rows they read
\* before another slid them.
THEOREM DeadlinesFollow == AccountsSpec => []DeadlineFollowsUse
<1>1. ClockInv => DeadlineFollowsUse
  BY DEF ClockInv
<1>2. QED BY <1>1, SpecInv, PTL

\* internal/account, Delete: a view that is private to nobody was written
\* between the sweep of its owner's deletion and the end of it.
THEOREM ViewsAreSwept == AccountsSpec => []PrivateViewsAreSwept
<1>1. SweptInv => PrivateViewsAreSwept
  BY DEF SweptInv
<1>2. QED BY <1>1, SpecInv, PTL

-----------------------------------------------------------------------------
(***************************************************************************)
(* Idempotency: what Do promises, for any number of requests with the key, *)
(* while neither fault of Faults happens: creates end within staleAfter,   *)
(* and no request ends between its create and record.                      *)
(*                                                                         *)
(* The invariant says who owns a live resource: the row, or the one        *)
(* request about to record it, which then holds the claim.                 *)
(***************************************************************************)

Busy(r) == pc[r] \in {"create", "record", "release"}

HoldersClaim == \A r \in Tries : Busy(r) =>
    row # NoRow /\ row.by = r /\ row.res = NoResource /\ ~row.stale

LiveIsOwned == \A i \in Live :
    \/ row # NoRow /\ row.res = i
    \/ \E r \in Tries : pc[r] = "record" /\ saw[r] = i

GoneIsDeleted ==
    /\ deleted \subseteq made
    /\ \A r \in Tries :
          /\ pc[r] = "dropGone" => saw[r] \in deleted
          /\ pc[r] \in {"load", "record"} => saw[r] \in Resources

IInv == KeyTypeOK /\ HoldersClaim /\ LiveIsOwned /\ GoneIsDeleted

\* Every step of every request keeps the invariant.
LEMMA IInvStep ==
    ASSUME Faults = {}, IInv, [KeyNext]_keyVars
    PROVE  IInv'
<1> USE IdempotencyAssumption DEF PCs, Rows, Turn
<1>1. ASSUME NEW r \in Tries, Begin(r) PROVE IInv'
  BY <1>1 DEF IInv, KeyTypeOK, HoldersClaim, Busy, LiveIsOwned, Live, GoneIsDeleted, Begin
<1>2. ASSUME NEW r \in Tries, Claim(r) PROVE IInv'
  <2> DEFINE fresh == [by |-> r, res |-> NoResource, stale |-> FALSE]
  <2>1. fresh \in Rows /\ fresh # NoRow
    <3>1. fresh \in Rows
      OBVIOUS
    <3> QED
      BY <3>1, IdempotencyAssumption
  <2>2. CASE row = NoRow
    <3>1. row' = fresh /\ pc' = [pc EXCEPT ![r] = "create"] /\ pc[r] = "claim"
          /\ UNCHANGED <<saw, made, deleted>>
      BY <1>2, <2>2 DEF Claim
    <3>2. \A q \in Tries : ~Busy(q)
      BY <2>2 DEF IInv, HoldersClaim
    <3>3. KeyTypeOK'
      BY <2>1, <3>1 DEF IInv, KeyTypeOK
    <3>4. HoldersClaim'
      BY <2>1, <3>1, <3>2 DEF IInv, KeyTypeOK, HoldersClaim, Busy
    <3>5. Live = {}
      BY <2>2, <3>2 DEF IInv, LiveIsOwned, Busy
    <3>6. LiveIsOwned'
      BY <3>1, <3>5 DEF LiveIsOwned, Live
    <3>7. GoneIsDeleted'
      BY <3>1 DEF IInv, KeyTypeOK, GoneIsDeleted
    <3> QED
      BY <3>3, <3>4, <3>6, <3>7 DEF IInv
  <2>3. CASE row # NoRow
    BY <1>2, <2>3 DEF IInv, KeyTypeOK, HoldersClaim, Busy, LiveIsOwned, Live, GoneIsDeleted, Claim
  <2> QED
    BY <2>2, <2>3
<1>3. ASSUME NEW r \in Tries, MakeOne(r) PROVE IInv'
  BY <1>3 DEF IInv, KeyTypeOK, HoldersClaim, Busy, LiveIsOwned, Live, GoneIsDeleted, MakeOne
<1>4. ASSUME NEW r \in Tries, MakeFails(r) PROVE IInv'
  BY <1>4 DEF IInv, KeyTypeOK, HoldersClaim, Busy, LiveIsOwned, Live, GoneIsDeleted, MakeFails
<1>5. ASSUME NEW r \in Tries, Release(r) PROVE IInv'
  BY <1>5 DEF IInv, KeyTypeOK, HoldersClaim, Busy, LiveIsOwned, Live, GoneIsDeleted, Release
<1>6. ASSUME NEW r \in Tries, Record(r) PROVE IInv'
  BY <1>6 DEF IInv, KeyTypeOK, HoldersClaim, Busy, LiveIsOwned, Live, GoneIsDeleted, Record
<1>7. ASSUME NEW r \in Tries, Lookup(r) PROVE IInv'
  BY <1>7 DEF IInv, KeyTypeOK, HoldersClaim, Busy, LiveIsOwned, Live, GoneIsDeleted, Lookup
<1>8. ASSUME NEW r \in Tries, Load(r) PROVE IInv'
  BY <1>8 DEF IInv, KeyTypeOK, HoldersClaim, Busy, LiveIsOwned, Live, GoneIsDeleted, Load
<1>9. ASSUME NEW r \in Tries, DropGone(r) PROVE IInv'
  BY <1>9 DEF IInv, KeyTypeOK, HoldersClaim, Busy, LiveIsOwned, Live, GoneIsDeleted, DropGone
<1>10. ASSUME NEW r \in Tries, DropStale(r) PROVE IInv'
  BY <1>10 DEF IInv, KeyTypeOK, HoldersClaim, Busy, LiveIsOwned, Live, GoneIsDeleted, DropStale
<1>11. ASSUME NEW r \in Tries, Poll(r) \/ GiveUp(r) PROVE IInv'
  BY <1>11 DEF IInv, KeyTypeOK, HoldersClaim, Busy, LiveIsOwned, Live, GoneIsDeleted, Poll, GiveUp
<1>12. ASSUME NEW i \in Resources, DeleteOne(i) PROVE IInv'
  BY <1>12 DEF IInv, KeyTypeOK, HoldersClaim, Busy, LiveIsOwned, Live, GoneIsDeleted, DeleteOne
<1>13. CASE Age
  BY <1>13, ZenonT(60) DEF IInv, KeyTypeOK, HoldersClaim, Busy, LiveIsOwned, Live, GoneIsDeleted, Age
<1>14. CASE UNCHANGED keyVars
  BY <1>14 DEF IInv, KeyTypeOK, HoldersClaim, Busy, LiveIsOwned, Live, GoneIsDeleted, keyVars
<1>15. QED
  BY <1>1, <1>2, <1>3, <1>4, <1>5, <1>6, <1>7, <1>8, <1>9, <1>10, <1>11, <1>12,
     <1>13, <1>14 DEF KeyNext, Do

\* The state before the first request satisfies the invariant.
LEMMA IInvInit == KeyInit => IInv
BY IdempotencyAssumption
   DEF KeyInit, IInv, KeyTypeOK, PCs, HoldersClaim, Busy, LiveIsOwned, Live, GoneIsDeleted

\* So it holds always.
LEMMA IInvHolds == ASSUME Faults = {} PROVE KeySpec => []IInv
<1>1. IInv /\ [KeyNext]_keyVars => IInv'
  BY IInvStep
<1> QED
  BY <1>1, IInvInit, PTL DEF KeySpec

\* Do creates at most one live resource for a key, whatever the retries and
\* however many: the promise of the package, without the two faults.
THEOREM AtMostOnceHolds == ASSUME Faults = {} PROVE KeySpec => []AtMostOnce
<1>1. IInv => AtMostOnce
  <2> SUFFICES ASSUME IInv, NEW i \in Live, NEW j \in Live PROVE i = j
    BY DEF AtMostOnce
  <2>1. ASSUME NEW q \in Tries, pc[q] = "record"
        PROVE  row.by = q /\ row.res = NoResource
    BY <2>1 DEF IInv, HoldersClaim, Busy
  <2>2. i \in Resources /\ j \in Resources
    BY DEF Live, IInv, KeyTypeOK
  <2> QED
    BY <2>1, <2>2, IdempotencyAssumption DEF IInv, LiveIsOwned
<1> QED
  BY <1>1, IInvHolds, PTL

\* One request at most is between winning the claim and giving it up, so creates
\* of one key never run at the same time.
THEOREM OneHolderHolds == ASSUME Faults = {} PROVE KeySpec => []OneHolder
<1>1. IInv => OneHolder
  BY DEF IInv, HoldersClaim, Busy, OneHolder
<1> QED
  BY <1>1, IInvHolds, PTL

\* A retry finds the live resource whenever no request is about to record it.
THEOREM RetryFindsItHolds == ASSUME Faults = {} PROVE KeySpec => []RetryFindsIt
<1>1. IInv => RetryFindsIt
  BY DEF IInv, LiveIsOwned, RetryFindsIt
<1> QED
  BY <1>1, IInvHolds, PTL

\* A claim goes only by its own request's release, or stale, or pointing at what
\* is deleted: neither release nor drop takes another request's fresh claim.
THEOREM ClaimsAreNotStolenHolds == ASSUME Faults = {} PROVE KeySpec => ClaimsAreNotStolen
<1>1. IInv /\ [KeyNext]_keyVars =>
        [row # NoRow /\ row' = NoRow =>
            \/ row.res \in deleted
            \/ row.res = NoResource /\ row.stale
            \/ row.res = NoResource /\ pc[row.by] = "release"]_keyVars
  <2> SUFFICES ASSUME IInv, KeyNext, row # NoRow, row' = NoRow
               PROVE  \/ row.res \in deleted
                      \/ row.res = NoResource /\ row.stale
                      \/ row.res = NoResource /\ pc[row.by] = "release"
    BY DEF keyVars
  <2>1. row \in Rows /\ NoRow \notin Rows
    <3>1. NoRow \notin Rows
      BY IdempotencyAssumption DEF Rows
    <3> QED
      BY <3>1 DEF IInv, KeyTypeOK
  <2>2. ASSUME NEW r \in Tries, Release(r) PROVE row.res = NoResource /\ pc[row.by] = "release"
    BY <2>2 DEF Release, Turn, IInv, HoldersClaim, Busy
  <2>3. ASSUME NEW r \in Tries, DropGone(r) PROVE row.res \in deleted
    BY <2>3 DEF DropGone, Turn, IInv, GoneIsDeleted
  <2>4. ASSUME NEW r \in Tries, DropStale(r) PROVE row.res = NoResource /\ row.stale
    BY <2>4 DEF DropStale
  <2>5. ASSUME NEW r \in Tries, Record(r) PROVE FALSE
    <3>1. saw[r] \in Resources
      BY <2>5 DEF Record, Turn, IInv, GoneIsDeleted
    <3>2. QED
      <4>1. [row EXCEPT !.res = saw[r]] \in Rows
        BY <2>1, <3>1 DEF Rows
      <4> QED
        BY <2>5, <2>1, <4>1 DEF Record
  <2>6. CASE Age
    <3>1. [row EXCEPT !.stale = TRUE] \in Rows
      BY <2>1 DEF Rows
    <3> QED
      BY <2>6, <2>1, <3>1 DEF Age
  <2>7. ASSUME NEW r \in Tries, Claim(r) PROVE FALSE
    BY <2>7 DEF Claim
  <2> QED
    BY <2>2, <2>3, <2>4, <2>5, <2>6, <2>7
       DEF KeyNext, Do, Begin, MakeOne, MakeFails, Lookup, Load, Poll, GiveUp, DeleteOne
<1> QED
  BY <1>1, IInvHolds, PTL DEF KeySpec, ClaimsAreNotStolen

-----------------------------------------------------------------------------
(***************************************************************************)
(* Hub: for any finite set of connections and any publishers, closers,     *)
(* workspaces and queue length.                                            *)
(***************************************************************************)

(* Types.                                                                  *)

\* Every step keeps every variable in its type except the counter wg, which
\* only the counting invariant below keeps from going under zero.
TypeInv ==
    /\ stage \in [Conns -> Stages]
    /\ reader \in [Conns -> {"none", "reading", "refusing", "done"}]
    /\ ctxDone \in [Conns -> BOOLEAN]
    /\ queue \in [Conns -> Seq(Frames)]
    /\ frame \in [Conns -> Frames \cup {NoFrame}]
    /\ wire \in [Conns -> Seq(Frames)]
    /\ once \in [Conns -> Events \cup {"unused", "used"}]
    /\ registered \in SUBSET Conns
    /\ closed \in BOOLEAN
    /\ hubDone \in BOOLEAN
    /\ closer \in [Closers -> {"idle", "marked", "waiting", "returned"}]
    /\ pub \in [Events -> {"idle", "sending", "dropping", "returned"}]
    /\ todo \in [Events -> SUBSET Conns]
    /\ slow \in [Events -> SUBSET Conns]
    /\ owed \in [Conns -> SUBSET Events]
    /\ \A c \in Conns :
          IF stage[c] = "writing" THEN frame[c] \in Frames ELSE frame[c] = NoFrame

\* Every variable has its type before the first connection.
LEMMA InitTypeInv == Init => TypeInv
<1>1. SUFFICES ASSUME Init PROVE TypeInv
  OBVIOUS
<1>2. queue \in [Conns -> Seq(Frames)] /\ wire \in [Conns -> Seq(Frames)]
  <2>1. <<>> \in Seq(Frames)
    OBVIOUS
  <2>2. QED BY <1>1, <2>1 DEF Init
<1>3. QED BY <1>1, <1>2, Zenon DEF Init, TypeInv, Stages

\* The steps of Serve and of the reader keep the types.
LEMMA ServeTypeInv ==
  ASSUME TypeInv, NEW c \in Conns, Serve(c) \/ Reader(c)
  PROVE  TypeInv'
<1> USE DEF TypeInv, Stages, Frames, Go, connVars, hubVars, pubVars
<1>1. CASE Enter(c)          BY <1>1, ZenonT(60) DEF Enter
<1>2. CASE AcceptFails(c)    BY <1>2 DEF AcceptFails
<1>3. CASE Accept(c)         BY <1>3 DEF Accept
<1>4. CASE Add(c)            BY <1>4 DEF Add
<1>5. CASE LoopCancelled(c)  BY <1>5 DEF LoopCancelled
<1>6. CASE LoopGoingAway(c)  BY <1>6 DEF LoopGoingAway
<1>7. CASE LoopTake(c)
  <2> DEFINE f == Head(queue[c])
             t == Tail(queue[c])
  <2>1. f \in Frames /\ t \in Seq(Frames)
    BY <1>7 DEF LoopTake
  <2>2. /\ stage[c] = "loop"
        /\ stage' = [stage EXCEPT ![c] = "writing"]
        /\ frame' = [frame EXCEPT ![c] = f]
        /\ queue' = [queue EXCEPT ![c] = t]
        /\ UNCHANGED <<reader, ctxDone, wire, once, hubVars, pubVars>>
    BY <1>7 DEF LoopTake
  <2> HIDE DEF f, t
  <2>3. \A d \in Conns :
           IF stage'[d] = "writing" THEN frame'[d] \in Frames ELSE frame'[d] = NoFrame
    BY <2>1, <2>2
  <2>4. /\ stage' \in [Conns -> Stages]
        /\ frame' \in [Conns -> Frames \cup {NoFrame}]
        /\ queue' \in [Conns -> Seq(Frames)]
    BY <2>1, <2>2
  <2>5. QED BY <2>2, <2>3, <2>4
<1>8. CASE LoopPing(c)       BY <1>8 DEF LoopPing
<1>9. CASE WriteSucceeds(c)  BY <1>9 DEF WriteSucceeds
<1>10. CASE WriteFails(c)    BY <1>10 DEF WriteFails
<1>11. CASE PingEnds(c)
  <2>1. \E t \in {"loop", "leaving"} : stage[c] = "pinging" /\ stage' = [stage EXCEPT ![c] = t]
    BY <1>11 DEF PingEnds
  <2>2. stage' \in [Conns -> Stages]
    BY <2>1
  <2>3. UNCHANGED <<reader, ctxDone, queue, frame, wire, once, hubVars, pubVars>>
    BY <1>11 DEF PingEnds
  <2>4. \A d \in Conns : IF stage'[d] = "writing" THEN frame'[d] \in Frames ELSE frame'[d] = NoFrame
    BY <2>1, <2>3
  <2>5. QED BY <2>2, <2>3, <2>4
<1>12. CASE Remove(c)        BY <1>12 DEF Remove
<1>13. CASE Teardown(c)      BY <1>13 DEF Teardown
<1>14. CASE Return(c)        BY <1>14 DEF Return
<1>15. CASE PeerSendsData(c) BY <1>15 DEF PeerSendsData
<1>16. CASE ReaderExits(c)   BY <1>16 DEF ReaderExits
<1>17. QED
  BY <1>1, <1>2, <1>3, <1>4, <1>5, <1>6, <1>7, <1>8, <1>9, <1>10, <1>11, <1>12, <1>13, <1>14,
     <1>15, <1>16, Zenon
     DEF Serve, Leave, Reader, PeerLeaves, ReaderUnblocks

\* So do the steps of Publish and Close.
LEMMA PublishTypeInv ==
  ASSUME TypeInv, NEW e \in Events, Publish(e)
  PROVE  TypeInv'
<1> USE DEF TypeInv, Stages, Frames, connVars, hubVars
<1>1. CASE PublishBegin(e)        BY <1>1 DEF PublishBegin, InWorkspace
<1>2. CASE PublishEncodeFails(e)  BY <1>2 DEF PublishEncodeFails
<1>3. CASE PublishUnlock(e)       BY <1>3 DEF PublishUnlock
<1>4. CASE PublishReturn(e)       BY <1>4 DEF PublishReturn
<1>5. ASSUME NEW c \in Conns, PublishSend(e, c)
      PROVE  TypeInv'
  <2>1. Append(queue[c], e) \in Seq(Frames)
    OBVIOUS
  <2>2. queue' \in [Conns -> Seq(Frames)] /\ slow' \in [Events -> SUBSET Conns]
    <3>1. CASE queue' = [queue EXCEPT ![c] = Append(queue[c], e)] /\ slow' = slow
      BY <2>1, <3>1
    <3>2. CASE queue' = queue /\ slow' = [slow EXCEPT ![e] = slow[e] \cup {c}]
      BY <3>2
    <3>3. QED BY <1>5, <3>1, <3>2 DEF PublishSend
  <2>3. todo' \in [Events -> SUBSET Conns]
    BY <1>5 DEF PublishSend
  <2>4. QED BY <1>5, <2>2, <2>3 DEF PublishSend
<1>6. ASSUME NEW c \in Conns, DropRemove(e, c)
      PROVE  TypeInv'
  BY <1>6 DEF DropRemove, pubVars
<1>7. ASSUME NEW c \in Conns, DropCancel(e, c)
      PROVE  TypeInv'
  BY <1>7 DEF DropCancel
<1>8. ASSUME NEW c \in Conns, DropAgain(e, c)
      PROVE  TypeInv'
  BY <1>8 DEF DropAgain
<1>9. QED
  BY <1>1, <1>2, <1>3, <1>4, <1>5, <1>6, <1>7, <1>8 DEF Publish

\* And those of Close.
LEMMA CloseTypeInv ==
  ASSUME TypeInv, NEW k \in Closers, Close(k)
  PROVE  TypeInv'
<1> USE DEF TypeInv, connVars, pubVars
<1>1. CASE CloseMark(k)    BY <1>1 DEF CloseMark
<1>2. CASE CloseCancel(k)  BY <1>2 DEF CloseCancel
<1>3. CASE CloseReturn(k)  BY <1>3 DEF CloseReturn
<1>4. QED BY <1>1, <1>2, <1>3 DEF Close

\* So every step of the hub keeps the types.
LEMMA NextTypeInv == TypeInv /\ [Next]_vars => TypeInv'
<1> SUFFICES ASSUME TypeInv, [Next]_vars PROVE TypeInv'
  OBVIOUS
<1>1. CASE UNCHANGED vars  BY <1>1 DEF vars, TypeInv
<1>2. CASE Next
  BY <1>2, ServeTypeInv, PublishTypeInv, CloseTypeInv DEF Next
<1>3. QED BY <1>1, <1>2

\* The types hold in every reachable state.
THEOREM TypesHold == Spec => []TypeInv
BY InitTypeInv, NextTypeInv, PTL DEF Spec

-----------------------------------------------------------------------------
(* Close returns only when nothing is left.  What makes it inductive is    *)
(* the count: wg is the number of Serves between enter and return, so that *)
(* Wait passes only when there is none, and closed then keeps new ones     *)
(* out.                                                                    *)

\* wg counts the Serves in flight.
Counted == wg = Cardinality(InFlight)

\* Who waits in Close has marked the hub closed; who came back left nobody in it.
Marked ==
    \A k \in Closers :
        /\ closer[k] # "idle" => closed
        /\ closer[k] = "returned" => InFlight = {}

\* A reader lives only while its Serve does.
ReaderFollows ==
    \A c \in Conns :
        /\ stage[c] \in {"new", "refused", "entered"} => reader[c] = "none"
        /\ stage[c] = "returned" => reader[c] \in {"none", "done"}

DrainInv == Counted /\ Marked /\ ReaderFollows /\ RegistryIsExact

\* The Serves that have entered and not returned can be counted.
LEMMA InFlightIsFinite == IsFiniteSet(InFlight)
  BY HubAssumption, FS_Subset DEF InFlight

\* Before the first Serve nothing is counted and nobody has closed the hub.
LEMMA InitDrainInv == Init => DrainInv
<1> SUFFICES ASSUME Init PROVE DrainInv
  OBVIOUS
<1>1. InFlight = {}
  BY DEF Init, InFlight
<1>2. Counted
  BY <1>1, FS_EmptySet DEF Init, Counted
<1>3. Marked /\ ReaderFollows
  BY DEF Init, Marked, ReaderFollows
<1>4. RegistryIsExact
  BY DEF Init, RegistryIsExact
<1>5. QED BY <1>2, <1>3, <1>4 DEF DrainInv

\* A step of c between two stages in flight leaves the count alone.
LEMMA SameFlight ==
  ASSUME TypeInv, NEW c \in Conns,
         NEW s \in Stages \ {"new", "refused", "returned"},
         stage[c] \notin {"new", "refused", "returned"},
         stage' = [stage EXCEPT ![c] = s]
  PROVE  InFlight' = InFlight
  BY DEF InFlight, TypeInv

\* enter: one more in flight, on a hub that is not closed.
LEMMA EnterDrainInv ==
  ASSUME TypeInv, DrainInv, NEW c \in Conns, Enter(c)
  PROVE  DrainInv'
<1> USE DEF DrainInv, TypeInv
<1>1. ReaderFollows' /\ RegistryIsExact'
  <2>1. stage[c] = "new" /\ stage' \in {[stage EXCEPT ![c] = "refused"], [stage EXCEPT ![c] = "entered"]}
    BY DEF Enter, Go
  <2>2. UNCHANGED <<reader, registered, once>>
    BY DEF Enter
  <2>0. \A d \in Conns : \/ d # c /\ stage'[d] = stage[d]
                         \/ d = c /\ stage[d] = "new" /\ stage'[d] \in {"refused", "entered"}
    BY <2>1
  <2>3. ReaderFollows'
    BY <2>0, <2>2 DEF ReaderFollows
  <2>4. RegistryIsExact'
    BY <2>0, <2>2 DEF RegistryIsExact
  <2>5. QED BY <2>3, <2>4
<1>2. CASE closed
  <2>1. InFlight' = InFlight
    BY <1>2 DEF Enter, Go, InFlight
  <2>2. Counted' /\ Marked'
    BY <1>2, <2>1 DEF Enter, Counted, Marked
  <2>3. QED BY <1>1, <2>2
<1>3. CASE ~closed
  <2>1. InFlight' = InFlight \cup {c} /\ c \notin InFlight
    BY <1>3 DEF Enter, Go, InFlight
  <2>2. Cardinality(InFlight') = Cardinality(InFlight) + 1
    BY <2>1, InFlightIsFinite, FS_AddElement
  <2>3. Counted'
    BY <1>3, <2>2 DEF Enter, Counted
  <2>4. Marked'
    BY <1>3 DEF Enter, Marked
  <2>5. QED BY <1>1, <2>3, <2>4
<1>4. QED BY <1>2, <1>3

\* wg.Done: one less in flight.
LEMMA DoneDrainInv ==
  ASSUME TypeInv, DrainInv, NEW c \in Conns, AcceptFails(c) \/ Return(c)
  PROVE  DrainInv'
<1> USE DEF DrainInv, TypeInv
<1>1. /\ stage[c] \in {"entered", "joining"}
      /\ stage' = [stage EXCEPT ![c] = "returned"]
      /\ wg' = wg - 1
      /\ stage[c] = "joining" => reader[c] = "done"
      /\ UNCHANGED <<reader, once, registered, closed, closer>>
  BY DEF AcceptFails, Return, Go
<1>2. ReaderFollows' /\ RegistryIsExact'
  BY <1>1 DEF ReaderFollows, RegistryIsExact
<1>3. InFlight' = InFlight \ {c} /\ c \in InFlight
  BY <1>1 DEF InFlight
<1>4. Cardinality(InFlight') = Cardinality(InFlight) - 1
  BY <1>3, InFlightIsFinite, FS_RemoveElement
<1>5. Counted'
  BY <1>1, <1>4 DEF Counted
<1>6. Marked'
  BY <1>1, <1>3 DEF Marked
<1>7. QED BY <1>2, <1>5, <1>6

\* Every other step of Serve, and the reader: nobody enters or returns.
LEMMA ServeDrainInv ==
  ASSUME TypeInv, DrainInv, NEW c \in Conns, Serve(c) \/ Reader(c)
  PROVE  DrainInv'
<1> USE DEF DrainInv, TypeInv
<1>1. CASE Enter(c)                       BY <1>1, EnterDrainInv
<1>2. CASE AcceptFails(c) \/ Return(c)    BY <1>2, DoneDrainInv
<1>3. ASSUME ~Enter(c), ~AcceptFails(c), ~Return(c)
      PROVE  InFlight' = InFlight /\ UNCHANGED <<wg, closed, closer>>
  <2>1. CASE Reader(c)
    BY <2>1 DEF Reader, PeerLeaves, PeerSendsData, ReaderUnblocks, ReaderExits, hubVars, InFlight
  <2>2. CASE Accept(c) \/ Add(c)
    BY <2>2, SameFlight DEF Accept, Add, Go, hubVars, Stages
  <2>3. CASE LoopCancelled(c) \/ LoopGoingAway(c) \/ LoopTake(c) \/ LoopPing(c)
    BY <2>3, SameFlight DEF LoopCancelled, LoopGoingAway, LoopTake, LoopPing, Go, hubVars, Stages
  <2>4. CASE WriteSucceeds(c) \/ WriteFails(c) \/ PingEnds(c)
    BY <2>4, SameFlight DEF WriteSucceeds, WriteFails, PingEnds, Go, hubVars, Stages
  <2>5. CASE Remove(c) \/ Teardown(c)
    BY <2>5, SameFlight DEF Remove, Teardown, Go, hubVars, Stages
  <2>6. QED BY <1>3, <2>1, <2>2, <2>3, <2>4, <2>5 DEF Serve, Leave
<1>4. ASSUME InFlight' = InFlight, UNCHANGED <<wg, closed, closer>>
      PROVE  Counted' /\ Marked'
  BY <1>4 DEF Counted, Marked
<1>5. ASSUME ~Enter(c), ~AcceptFails(c), ~Return(c)
      PROVE  ReaderFollows' /\ RegistryIsExact'
  <2> USE DEF ReaderFollows, RegistryIsExact, Go, hubVars
  <2>1. CASE Reader(c)
    BY <2>1, ZenonT(60) DEF Reader, PeerLeaves, PeerSendsData, ReaderUnblocks, ReaderExits
  <2>2. CASE Accept(c)         BY <2>2 DEF Accept
  <2>3. CASE Add(c)            BY <2>3 DEF Add
  <2>4. CASE LoopCancelled(c)  BY <2>4 DEF LoopCancelled
  <2>5. CASE LoopGoingAway(c)  BY <2>5 DEF LoopGoingAway
  <2>6. CASE LoopTake(c)       BY <2>6 DEF LoopTake
  <2>7. CASE LoopPing(c)       BY <2>7 DEF LoopPing
  <2>8. CASE WriteSucceeds(c)  BY <2>8 DEF WriteSucceeds
  <2>9. CASE WriteFails(c)     BY <2>9 DEF WriteFails
  <2>10. CASE PingEnds(c)
    <3>1. stage[c] = "pinging" /\ stage' \in {[stage EXCEPT ![c] = "loop"], [stage EXCEPT ![c] = "leaving"]}
      BY <2>10 DEF PingEnds
    <3>2. UNCHANGED <<reader, registered, once>>
      BY <2>10 DEF PingEnds
    <3>0. \A d \in Conns : \/ d # c /\ stage'[d] = stage[d]
                           \/ d = c /\ stage[d] = "pinging" /\ stage'[d] \in {"loop", "leaving"}
      BY <3>1
    <3>3. ReaderFollows'
      BY <3>0, <3>2
    <3>4. RegistryIsExact'
      BY <3>0, <3>2
    <3>5. QED BY <3>3, <3>4
  <2>11. CASE Remove(c)        BY <2>11 DEF Remove
  <2>12. CASE Teardown(c)      BY <2>12 DEF Teardown
  <2>13. QED
    BY <1>5, <2>1, <2>2, <2>3, <2>4, <2>5, <2>6, <2>7, <2>8, <2>9, <2>10, <2>11, <2>12
       DEF Serve, Leave
<1>6. QED BY <1>1, <1>2, <1>3, <1>4, <1>5

\* Publish moves no Serve; drop takes c off the registry only as it marks once.
LEMMA PublishDrainInv ==
  ASSUME TypeInv, DrainInv, NEW e \in Events, Publish(e)
  PROVE  DrainInv'
<1> USE DEF DrainInv, TypeInv
<1>1. UNCHANGED <<stage, reader, wg, closed, closer>>
  BY DEF Publish, PublishBegin, PublishEncodeFails, PublishUnlock, PublishReturn, PublishSend,
         DropRemove, DropCancel, DropAgain, connVars, hubVars
<1>2. Counted' /\ Marked' /\ ReaderFollows'
  BY <1>1 DEF Counted, Marked, ReaderFollows, InFlight
<1>3. /\ registered' \subseteq registered
      /\ \A c \in Conns : once[c] # "unused" => once'[c] # "unused"
      /\ \A c \in registered \ registered' : once'[c] # "unused"
  BY HubAssumption
     DEF Publish, PublishBegin, PublishEncodeFails, PublishUnlock, PublishReturn, PublishSend,
         DropRemove, DropCancel, DropAgain, connVars, hubVars
<1>4. RegistryIsExact'
  BY <1>1, <1>3 DEF RegistryIsExact
<1>5. QED BY <1>2, <1>4

\* Close sets closed before anything else and returns at wg = 0.
LEMMA CloseDrainInv ==
  ASSUME TypeInv, DrainInv, NEW k \in Closers, Close(k)
  PROVE  DrainInv'
<1> USE DEF DrainInv, TypeInv
<1>1. UNCHANGED <<stage, reader, once, registered, wg>>
  BY DEF Close, CloseMark, CloseCancel, CloseReturn, connVars
<1>2. InFlight' = InFlight
  BY <1>1 DEF InFlight
<1>3. Counted' /\ ReaderFollows' /\ RegistryIsExact'
  BY <1>1, <1>2 DEF Counted, ReaderFollows, RegistryIsExact
<1>4. CASE CloseMark(k) \/ CloseCancel(k)
  BY <1>2, <1>3, <1>4 DEF CloseMark, CloseCancel, Marked
<1>5. CASE CloseReturn(k)
  <2>1. InFlight = {}
    BY <1>5, InFlightIsFinite, FS_EmptySet DEF CloseReturn, Counted
  <2>2. QED BY <1>2, <1>3, <1>5, <2>1 DEF CloseReturn, Marked
<1>6. QED BY <1>4, <1>5 DEF Close

\* Every step keeps the count, and with it what Close waits for.
LEMMA NextDrainInv == TypeInv /\ DrainInv /\ [Next]_vars => DrainInv'
<1> SUFFICES ASSUME TypeInv, DrainInv, [Next]_vars PROVE DrainInv'
  OBVIOUS
<1>1. CASE UNCHANGED vars
  BY <1>1 DEF vars, DrainInv, Counted, Marked, ReaderFollows, RegistryIsExact, InFlight
<1>2. CASE Next
  BY <1>2, ServeDrainInv, PublishDrainInv, CloseDrainInv DEF Next
<1>3. QED BY <1>1, <1>2

\* The count is right throughout: wg is the number of Serves between enter and
\* the deferred exit.
THEOREM DrainInvHolds == Spec => []DrainInv
<1>1. Spec => [](TypeInv /\ DrainInv)
  BY InitTypeInv, NextTypeInv, InitDrainInv, NextDrainInv, PTL DEF Spec
<1>2. QED BY <1>1, PTL

\* Type correctness, the counter included: it never goes under zero.
THEOREM TypeCorrect == Spec => []TypeOK
<1>1. TypeInv /\ DrainInv => TypeOK
  <2>1. Counted => wg \in Nat
    BY InFlightIsFinite, FS_CardinalityType DEF Counted
  <2>2. QED BY <2>1 DEF DrainInv, TypeInv, TypeOK
<1>2. QED BY <1>1, TypesHold, DrainInvHolds, PTL

\* Close returns only when every Serve has returned and nothing is registered.
THEOREM CloseDrainsAll == Spec => []CloseDrains
<1>1. TypeInv /\ DrainInv => CloseDrains
  <2> SUFFICES ASSUME TypeInv, DrainInv, NEW k \in Closers, closer[k] = "returned"
               PROVE  /\ InFlight = {} /\ registered = {}
                      /\ \A c \in Conns : reader[c] \in {"none", "done"}
    BY DEF CloseDrains
  <2>1. InFlight = {}
    BY DEF DrainInv, Marked
  <2>2. \A c \in Conns : stage[c] \in {"new", "refused", "returned"}
    BY <2>1 DEF InFlight
  <2>3. \A c \in Conns : reader[c] \in {"none", "done"}
    BY <2>2 DEF DrainInv, ReaderFollows
  <2>4. \A c \in Conns : c \notin registered
    BY <2>2 DEF DrainInv, RegistryIsExact
  <2>5. registered = {}
    BY <2>4 DEF TypeInv
  <2>6. QED BY <2>1, <2>3, <2>5
<1>2. QED BY <1>1, TypesHold, DrainInvHolds, PTL

\* A Serve that left the registry stays out of it, and a live one is missing
\* from it only when drop took it out.
THEOREM RegistryExact == Spec => []RegistryIsExact
<1>1. DrainInv => RegistryIsExact
  BY DEF DrainInv
<1>2. QED BY <1>1, DrainInvHolds, PTL

-----------------------------------------------------------------------------
(* No connection misses an event and lives on.  The strengthening says     *)
(* that hello is on the wire only after add, and that an event is owed     *)
(* only once its Publish has begun.                                        *)

\* hello is written only after add.
GreetedIsAdded ==
    \A c \in Conns :
        wire[c] # <<>> => stage[c] \notin {"new", "refused", "entered", "accepted"}

\* Only an event whose Publish has begun is owed.
OwedHasBegun ==
    \A c \in Conns : \A e \in owed[c] : pub[e] # "idle"

GapInv == GreetedIsAdded /\ OwedHasBegun /\ NoSilentGap

\* Before the first event nothing is owed.
LEMMA InitGapInv == Init => GapInv
  BY DEF Init, GapInv, GreetedIsAdded, OwedHasBegun, NoSilentGap

\* What c has of an event survives every step of its Serve that stays alive.
LEMMA HasSurvives ==
  ASSUME TypeInv, NEW c \in Conns, NEW e \in Events, Has(c, e),
         NEW d \in Conns, Serve(d) \/ Reader(d)
  PROVE  Has(c, e)' \/ WriteFails(c)
<1> USE DEF TypeInv
<1>1. CASE LoopTake(d)
  <2>1. CASE d # c
    BY <1>1, <2>1 DEF LoopTake, Has
  <2>2. CASE d = c
    <3>1. /\ queue[c] # <<>> /\ queue[c] \in Seq(Frames) /\ frame[c] = NoFrame
          /\ frame'[c] = Head(queue[c]) /\ queue'[c] = Tail(queue[c]) /\ wire'[c] = wire[c]
      BY <1>1, <2>2 DEF LoopTake, Go
    <3>2. frame[c] # e
      BY <3>1, HubAssumption
    <3>3. CASE \E i \in 1..Len(wire[c]) : wire[c][i] = e
      BY <3>1, <3>3 DEF Has
    <3>4. CASE \E i \in 1..Len(queue[c]) : queue[c][i] = e
      <4>1. PICK i \in 1..Len(queue[c]) : queue[c][i] = e
        BY <3>4
      <4>2. CASE i = 1
        BY <3>1, <4>1, <4>2 DEF Has
      <4>3. CASE i # 1
        <5>1. /\ i - 1 \in 1..Len(Tail(queue[c]))
              /\ Tail(queue[c])[i - 1] = e
          BY <3>1, <4>1, <4>3
        <5>2. QED BY <3>1, <5>1 DEF Has
      <4>4. QED BY <4>2, <4>3
    <3>5. QED BY <3>2, <3>3, <3>4 DEF Has
  <2>3. QED BY <2>1, <2>2
<1>2. CASE WriteSucceeds(d)
  <2>1. CASE d # c
    BY <1>2, <2>1 DEF WriteSucceeds, Has
  <2>2. CASE d = c
    <3>1. /\ wire[c] \in Seq(Frames) /\ wire'[c] = Append(wire[c], frame[c])
          /\ queue'[c] = queue[c]
      BY <1>2, <2>2 DEF WriteSucceeds
    <3>2. CASE frame[c] = e
      <4>1. Len(wire'[c]) \in 1..Len(wire'[c]) /\ wire'[c][Len(wire'[c])] = e
        BY <3>1, <3>2
      <4>2. QED BY <4>1 DEF Has
    <3>3. CASE \E i \in 1..Len(wire[c]) : wire[c][i] = e
      <4>1. \E i \in 1..Len(wire'[c]) : wire'[c][i] = e
        BY <3>1, <3>3
      <4>2. QED BY <4>1 DEF Has
    <3>4. CASE \E i \in 1..Len(queue[c]) : queue[c][i] = e
      BY <3>1, <3>4 DEF Has
    <3>5. QED BY <3>2, <3>3, <3>4 DEF Has
  <2>3. QED BY <2>1, <2>2
<1>3. CASE Accept(d)
  <2>1. CASE d # c
    BY <1>3, <2>1 DEF Accept, Has
  <2>2. CASE d = c
    <3>1. queue'[c] = Append(queue[c], Hello) /\ UNCHANGED <<wire, frame>>
      BY <1>3, <2>2 DEF Accept
    <3>2. QED BY <3>1 DEF Has
  <2>3. QED BY <2>1, <2>2
<1>4. CASE WriteFails(d)
  BY <1>4 DEF WriteFails, Has
<1>5. QED
  BY <1>1, <1>2, <1>3, <1>4
     DEF Serve, Leave, Reader, Enter, AcceptFails, Add, LoopCancelled, LoopGoingAway, LoopPing,
         PingEnds, Remove, Teardown, Return, PeerLeaves, PeerSendsData, ReaderUnblocks,
         ReaderExits, Has

\* Nothing a Serve or a reader does brings a connection back.
LEMMA EndingSurvives ==
  ASSUME TypeInv, NEW c \in Conns, Ending(c), NEW d \in Conns, Serve(d) \/ Reader(d)
  PROVE  Ending(c)'
<1> USE DEF TypeInv, Ending, Go
<1>1. CASE Reader(d)
  BY <1>1, ZenonT(60) DEF Reader, PeerLeaves, PeerSendsData, ReaderUnblocks, ReaderExits
<1>2. CASE Serve(d)
  <2>1. CASE Enter(d) \/ AcceptFails(d) \/ Accept(d) \/ Add(d)
    BY <2>1 DEF Enter, AcceptFails, Accept, Add
  <2>2. CASE LoopCancelled(d) \/ LoopGoingAway(d) \/ LoopTake(d) \/ LoopPing(d)
    BY <2>2 DEF LoopCancelled, LoopGoingAway, LoopTake, LoopPing
  <2>3. CASE WriteSucceeds(d) \/ WriteFails(d) \/ PingEnds(d)
    BY <2>3 DEF WriteSucceeds, WriteFails, PingEnds
  <2>4. CASE Leave(d)
    BY <2>4 DEF Leave, Remove, Teardown, Return
  <2>5. QED BY <1>2, <2>1, <2>2, <2>3, <2>4 DEF Serve
<1>3. QED BY <1>1, <1>2

\* A connection that loses a frame it was owed ends: no step of its Serve or of
\* its reader skips one and goes on.
LEMMA ServeGapInv ==
  ASSUME TypeInv, GapInv, NEW d \in Conns, Serve(d) \/ Reader(d)
  PROVE  GapInv'
<1> USE DEF GapInv
<1>1. UNCHANGED <<pub, todo, slow, owed>>
  BY DEF Serve, Leave, Enter, AcceptFails, Accept, Add, LoopCancelled, LoopGoingAway, LoopTake,
         LoopPing, WriteSucceeds, WriteFails, PingEnds, Remove, Teardown, Return,
         Reader, PeerLeaves, PeerSendsData, ReaderUnblocks, ReaderExits, pubVars
<1>2. OwedHasBegun'
  BY <1>1 DEF OwedHasBegun
<1>3. GreetedIsAdded'
  <2> USE DEF GreetedIsAdded, TypeInv, Go
  <2>1. CASE WriteSucceeds(d)
    BY <2>1 DEF WriteSucceeds
  <2>2. CASE ~WriteSucceeds(d)
    <3>1. wire' = wire
      BY <2>2 DEF Serve, Leave, Enter, AcceptFails, Accept, Add, LoopCancelled, LoopGoingAway,
             LoopTake, LoopPing, WriteFails, PingEnds, Remove, Teardown, Return,
             Reader, PeerLeaves, PeerSendsData, ReaderUnblocks, ReaderExits
    <3>2. \A c \in Conns :
             stage'[c] \in {"new", "refused", "entered", "accepted"} =>
                stage[c] \in {"new", "refused", "entered", "accepted"}
      <4>1. CASE Enter(d) \/ AcceptFails(d) \/ Accept(d) \/ Add(d)
        BY <4>1 DEF Enter, AcceptFails, Accept, Add
      <4>2. CASE LoopCancelled(d) \/ LoopGoingAway(d) \/ LoopTake(d) \/ LoopPing(d)
        BY <4>2 DEF LoopCancelled, LoopGoingAway, LoopTake, LoopPing
      <4>3. CASE WriteFails(d) \/ PingEnds(d)
        BY <4>3 DEF WriteFails, PingEnds
      <4>4. CASE Remove(d) \/ Teardown(d) \/ Return(d)
        BY <4>4 DEF Remove, Teardown, Return
      <4>5. CASE Reader(d)
        BY <4>5 DEF Reader, PeerLeaves, PeerSendsData, ReaderUnblocks, ReaderExits
      <4>6. QED BY <2>2, <4>1, <4>2, <4>3, <4>4, <4>5 DEF Serve, Leave
    <3>3. QED BY <3>1, <3>2
  <2>3. QED BY <2>1, <2>2
<1>4. NoSilentGap'
  <2> SUFFICES ASSUME NEW c \in Conns, NEW e \in owed[c]
               PROVE  Has(c, e)' \/ c \in todo[e] \cup slow[e] \/ Ending(c)'
    BY <1>1 DEF NoSilentGap
  <2>1. e \in Events
    BY DEF TypeInv
  <2>2. CASE Has(c, e)
    <3>1. CASE WriteFails(c)
      BY <3>1 DEF WriteFails, Go, Ending, TypeInv
    <3>2. QED BY <2>1, <2>2, <3>1, HasSurvives
  <2>3. CASE Ending(c)
    BY <2>3, EndingSurvives
  <2>4. QED BY <2>2, <2>3 DEF NoSilentGap
<1>5. QED BY <1>2, <1>3, <1>4

\* A publisher owes an event to exactly those it finds registered, and cuts off
\* each one it does not reach.
LEMMA PublishGapInv ==
  ASSUME TypeInv, DrainInv, GapInv, NEW d \in Events, Publish(d)
  PROVE  GapInv'
<1> USE DEF GapInv, TypeInv
<1>1. GreetedIsAdded'
  BY DEF Publish, PublishBegin, PublishEncodeFails, PublishUnlock, PublishReturn, PublishSend,
         DropRemove, DropCancel, DropAgain, connVars, GreetedIsAdded
<1>2. CASE PublishBegin(d)
  <2>1. UNCHANGED connVars /\ UNCHANGED slow /\ pub[d] = "idle" /\ pub'[d] # "idle"
        /\ \A e \in Events \ {d} : todo'[e] = todo[e] /\ pub'[e] = pub[e]
    BY <1>2 DEF PublishBegin
  <2>2. OwedHasBegun'
    BY <1>2, <2>1 DEF PublishBegin, OwedHasBegun
  <2>3. NoSilentGap'
    <3> SUFFICES ASSUME NEW c \in Conns, NEW e \in owed'[c]
                 PROVE  Has(c, e)' \/ c \in todo'[e] \cup slow'[e] \/ Ending(c)'
      BY DEF NoSilentGap
    <3>1. (Has(c, e) <=> Has(c, e)') /\ (Ending(c) <=> Ending(c)')
      BY <2>1 DEF connVars, Has, Ending
    <3>2. CASE e \in owed[c]
      <4>1. e # d /\ e \in Events
        BY <2>1, <3>2 DEF OwedHasBegun
      <4>2. QED BY <2>1, <3>1, <3>2, <4>1 DEF NoSilentGap
    <3>3. CASE e \notin owed[c]
      <4>1. e = d /\ Wants(c, d) /\ wire[c] # <<>>
        BY <1>2, <3>3 DEF PublishBegin
      <4>2. CASE c \in registered
        BY <1>2, <4>1, <4>2 DEF PublishBegin, InWorkspace, Wants
      <4>3. CASE c \notin registered
        <5>1. stage[c] \notin {"new", "refused", "entered", "accepted"}
          BY <4>1 DEF GreetedIsAdded
        <5>2. stage[c] \in {"leaving", "teardown", "joining", "returned"} \/ once[c] # "unused"
          BY <4>3, <5>1 DEF DrainInv, RegistryIsExact, Stages
        <5>3. QED BY <3>1, <5>2 DEF Ending
      <4>4. QED BY <4>2, <4>3
    <3>4. QED BY <3>2, <3>3
  <2>4. QED BY <1>1, <2>2, <2>3
<1>3. CASE PublishEncodeFails(d)
  BY <1>1, <1>3 DEF PublishEncodeFails, connVars, OwedHasBegun, NoSilentGap, Has, Ending
<1>4. CASE PublishUnlock(d) \/ PublishReturn(d)
  <2>1. UNCHANGED connVars /\ UNCHANGED <<todo, slow, owed>>
    BY <1>4 DEF PublishUnlock, PublishReturn
  <2>2. \A e \in Events : pub[e] # "idle" => pub'[e] # "idle"
    BY <1>4 DEF PublishUnlock, PublishReturn
  <2>3. OwedHasBegun'
    BY <2>1, <2>2 DEF OwedHasBegun
  <2>4. NoSilentGap'
    BY <2>1 DEF connVars, NoSilentGap, Has, Ending
  <2>5. QED BY <1>1, <2>3, <2>4
<1>5. ASSUME NEW b \in Conns, PublishSend(d, b)
      PROVE  GapInv'
  <2>1. OwedHasBegun'
    BY <1>5 DEF PublishSend, OwedHasBegun
  <2>2. NoSilentGap'
    <3> SUFFICES ASSUME NEW c \in Conns, NEW e \in owed[c]
                 PROVE  Has(c, e)' \/ c \in todo'[e] \cup slow'[e] \/ Ending(c)'
      BY <1>5 DEF PublishSend, NoSilentGap
    <3>1. e \in Events
      OBVIOUS
    <3>2. Ending(c) => Ending(c)'
      BY <1>5 DEF PublishSend, Ending
    <3>3. Has(c, e) => Has(c, e)'
      <4>1. UNCHANGED <<wire, frame>>
        BY <1>5 DEF PublishSend
      <4>2. queue'[c] = queue[c] \/ queue'[c] = Append(queue[c], d)
        BY <1>5 DEF PublishSend
      <4>3. queue[c] \in Seq(Frames)
        OBVIOUS
      <4>4. ASSUME NEW q \in Seq(Frames), NEW i \in 1..Len(q)
            PROVE  i \in 1..Len(Append(q, d)) /\ Append(q, d)[i] = q[i]
        BY <4>4
      <4>5. ASSUME NEW i \in 1..Len(queue[c])
            PROVE  i \in 1..Len(queue'[c]) /\ queue'[c][i] = queue[c][i]
        BY <4>2, <4>3, <4>4, ZenonT(60)
      <4>6. (\E i \in 1..Len(queue[c]) : queue[c][i] = e)
               => \E i \in 1..Len(queue'[c]) : queue'[c][i] = e
        BY <4>5
      <4>7. QED BY <4>1, <4>6 DEF Has
    <3>4. ASSUME c \in todo[e] \cup slow[e]
          PROVE  Has(c, e)' \/ c \in todo'[e] \cup slow'[e]
      <4>1. CASE c = b /\ e = d
        <5>1. CASE queue' = [queue EXCEPT ![c] = Append(queue[c], e)]
          <6>1. queue'[c] = Append(queue[c], e) /\ queue[c] \in Seq(Frames)
            BY <5>1
          <6>2. Len(queue'[c]) \in 1..Len(queue'[c]) /\ queue'[c][Len(queue'[c])] = e
            BY <6>1
          <6>3. QED BY <6>2 DEF Has
        <5>2. CASE slow' = [slow EXCEPT ![e] = slow[e] \cup {c}]
          BY <3>1, <5>2
        <5>3. QED BY <1>5, <4>1, <5>1, <5>2 DEF PublishSend
      <4>2. CASE c # b \/ e # d
        <5>1. c \in todo[e] => c \in todo'[e]
          BY <1>5, <3>1, <4>2 DEF PublishSend
        <5>2. c \in slow[e] => c \in slow'[e]
          BY <1>5, <3>1, ZenonT(60) DEF PublishSend
        <5>3. QED BY <3>4, <5>1, <5>2
      <4>3. QED BY <4>1, <4>2
    <3>5. QED BY <3>2, <3>3, <3>4 DEF NoSilentGap
  <2>3. QED BY <1>1, <2>1, <2>2
<1>6. ASSUME NEW b \in Conns, DropRemove(d, b) \/ DropCancel(d, b) \/ DropAgain(d, b)
      PROVE  GapInv'
  <2>1. UNCHANGED <<pub, todo, owed, wire, frame, queue, stage>>
    BY <1>6 DEF DropRemove, DropCancel, DropAgain, pubVars, connVars
  <2>2. \A c \in Conns : Ending(c) => Ending(c)'
    <3>1. CASE DropRemove(d, b)
      BY <3>1 DEF DropRemove, connVars, Ending
    <3>2. CASE DropCancel(d, b)
      BY <3>2 DEF DropCancel, connVars, Ending
    <3>3. CASE DropAgain(d, b)
      BY <3>3 DEF DropAgain, connVars, Ending
    <3>4. QED BY <1>6, <3>1, <3>2, <3>3
  <2>3. \A c \in Conns, e \in Events : c \in slow[e] => c \in slow'[e] \/ Ending(c)'
    BY <1>6, ZenonT(60) DEF DropRemove, DropCancel, DropAgain, connVars, pubVars, Ending
  <2>4. \A c \in Conns, e \in Events : Has(c, e) => Has(c, e)'
    BY <2>1 DEF Has
  <2>5. OwedHasBegun'
    BY <2>1 DEF OwedHasBegun
  <2>6. NoSilentGap'
    BY <2>1, <2>2, <2>3, <2>4 DEF NoSilentGap
  <2>7. QED BY <1>1, <2>5, <2>6
<1>7. QED BY <1>2, <1>3, <1>4, <1>5, <1>6 DEF Publish

\* So no step leaves a connection alive with a gap.
LEMMA NextGapInv == TypeInv /\ DrainInv /\ GapInv /\ [Next]_vars => GapInv'
<1> SUFFICES ASSUME TypeInv, DrainInv, GapInv, [Next]_vars PROVE GapInv'
  OBVIOUS
<1>1. CASE UNCHANGED vars
  BY <1>1 DEF vars, GapInv, GreetedIsAdded, OwedHasBegun, NoSilentGap, Has, Ending
<1>2. ASSUME NEW k \in Closers, Close(k)
      PROVE  GapInv'
  BY <1>2 DEF Close, CloseMark, CloseCancel, CloseReturn, connVars, pubVars,
              GapInv, GreetedIsAdded, OwedHasBegun, NoSilentGap, Has, Ending
<1>3. CASE Next
  BY <1>2, <1>3, ServeGapInv, PublishGapInv DEF Next
<1>4. QED BY <1>1, <1>3

\* A greeted client misses no event and lives on.
THEOREM NoGapGoesUnnoticed == Spec => []NoSilentGap
<1>1. Spec => [](TypeInv /\ DrainInv /\ GapInv)
  BY InitTypeInv, NextTypeInv, InitDrainInv, NextDrainInv, InitGapInv, NextGapInv, PTL DEF Spec
<1>2. GapInv => NoSilentGap
  BY DEF GapInv
<1>3. QED BY <1>1, <1>2, PTL
=============================================================================
