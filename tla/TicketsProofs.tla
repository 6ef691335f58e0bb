---------------------------- MODULE TicketsProofs ----------------------------
(***************************************************************************)
(* Theorems about Tickets, for any number of requests, tickets, texts and  *)
(* labels.  They rest on what a step may do to the tickets (Shape): leave  *)
(* them alone, or put in place of one ticket a later state of it (Follows) *)
(* together with its search row; and, for the client of the feed, on what  *)
(* the frame of each write still has to tell (LatestInv).                  *)
(***************************************************************************)
EXTENDS Tickets, FiniteSetTheorems, SequenceTheorems, WellFoundedInduction, TLAPS

\* now is old, or a later state of the same ticket.
Follows(old, now) ==
    /\ old.version <= now.version
    /\ old.version = now.version =>
        /\ now.archived = old.archived
        /\ now.text = old.text
        /\ now.labels = old.labels
        /\ now.keyed = old.keyed

Guarded == {"update", "archive", "unarchive"}

\* The arguments the steps of a request look at.
OpInv ==
    /\ \A r \in Requests : op[r].kind \in Guarded \cup {"join", "leave"} => op[r].id \in Ids
    /\ \A r \in Requests : op[r].kind = "create" => op[r].text \in Texts /\ op[r].labels \in SUBSET Labels /\ op[r].keyed \in BOOLEAN
    /\ \A r \in Requests : op[r].kind = "update" => op[r].text \in Texts /\ op[r].labels \in {Nil} \cup SUBSET Labels
    /\ \A r \in Requests : op[r].kind \in Guarded => op[r].ifMatch \in BOOLEAN

\* A request keeps its operation until it returns.
StageInv ==
    \A r \in Requests :
        /\ at[r] \in {"waiting", "refused"} => op[r].kind \in Guarded
        /\ at[r] = "joining" => op[r].kind = "join"
        /\ at[r] = "leaving" => op[r].kind = "leave"

TypeInv ==
    /\ row \in [Ids -> Rows]
    /\ DOMAIN index = Ids
    /\ DOMAIN at = Requests
    /\ DOMAIN op = Requests /\ DOMAIN answer = Requests
    /\ read \in [Requests -> Rows] /\ seen \in [Requests -> Rows]
    /\ OpInv /\ StageInv

\* What a search finds a ticket by.
Found(t) == IF t.version > 0 /\ ~t.archived THEN {t.text} ELSE {}

SearchInv == \A t \in Ids : index[t] = Found(row[t])

\* A step puts new in the place of ticket t.
Replaces(t, new) ==
    /\ row' = [row EXCEPT ![t] = new]
    /\ index' = [index EXCEPT ![t] = Found(new)]
    /\ Follows(row[t], new)
    /\ Is(t) => new.keyed = row[t].keyed
    /\ new.keyed => Is(t) \/ ~KeyUsed

Shape ==
    \/ UNCHANGED <<row, index>>
    \/ \E t \in Ids, new \in Rows : Replaces(t, new)

\* A step of r is nobody else's.
Alone(r) ==
    \A q \in Requests \ {r} :
        at'[q] = at[q] /\ op'[q] = op[q] /\ read'[q] = read[q] /\ seen'[q] = seen[q] /\ answer'[q] = answer[q]

\* Only by asking or returning does a request change its operation.
Keeps(r) == op'[r] = op[r] \/ op'[r] = NoOp

\* Nobody can name a ticket that was never made.
IsInv == \A r \in Requests : op[r].kind \in Guarded \cup {"join", "leave"} => Is(op[r].id)

-----------------------------------------------------------------------------
(* Rows                                                                    *)

\* The row of a ticket that is not there yet is a row, and so is a new
\* ticket's.
LEMMA AbsentRow == Absent \in Rows
  BY DEF Absent, Rows

\* A new ticket is a row.
LEMMA NewRow ==
  ASSUME NEW x \in Texts, NEW l \in SUBSET Labels, NEW j \in BOOLEAN, NEW k \in BOOLEAN
  PROVE  New(x, l, j, k) \in Rows
  BY DEF New, Rows

\* A ticket is a state of itself.
LEMMA FollowsItself == \A x \in Rows : Follows(x, x)
  BY DEF Follows, Rows

\* A later state of a later state is a later state.
LEMMA FollowsOn ==
  ASSUME NEW x \in Rows, NEW y \in Rows, NEW z \in Rows, Follows(x, y), Follows(y, z)
  PROVE  Follows(x, z)
  BY DEF Follows, Rows

\* The operations a caller can ask for, taken apart.
LEMMA OpsAre ==
  ASSUME NEW o \in Operations
  PROVE  /\ o.kind \in Guarded \cup {"join", "leave"} => o.id \in Ids
         /\ o.kind = "create" => o.text \in Texts /\ o.labels \in SUBSET Labels /\ o.keyed \in BOOLEAN
         /\ o.kind = "update" => o.text \in Texts /\ o.labels \in {Nil} \cup SUBSET Labels
         /\ o.kind \in Guarded => o.ifMatch \in BOOLEAN
  BY DEF Operations, Guarded

\* The types hold at the start.
LEMMA InitTypeInv == Init => TypeInv
<1> SUFFICES ASSUME Init PROVE TypeInv OBVIOUS
<1>1. [version : {1}, archived : BOOLEAN, text : Texts, labels : SUBSET Labels, joined : BOOLEAN, keyed : BOOLEAN] \subseteq Rows
  BY DEF Rows
<1>2. row \in [Ids -> Rows]
  BY <1>1, AbsentRow DEF Init
<1>3. \A r \in Requests : op[r] = [kind |-> "none"] /\ at[r] = "idle"
  BY DEF Init, NoOp
<1>4. OpInv /\ StageInv
  BY <1>3 DEF OpInv, StageInv, Guarded
<1>5. read \in [Requests -> Rows] /\ seen \in [Requests -> Rows]
  BY AbsentRow DEF Init
<1>6. /\ DOMAIN index = Ids
      /\ DOMAIN op = Requests
      /\ DOMAIN answer = Requests
      /\ DOMAIN at = Requests
  <2>1. DOMAIN index = Ids
    BY DEF Init
  <2>2. DOMAIN op = Requests
    BY DEF Init
  <2>3. DOMAIN answer = Requests
    BY DEF Init
  <2>4. DOMAIN at = Requests
    BY DEF Init
  <2>5. QED BY <2>1, <2>2, <2>3, <2>4
<1>7. QED BY <1>2, <1>4, <1>5, <1>6 DEF TypeInv

-----------------------------------------------------------------------------
(* How a step may end                                                      *)

\* A request that returns keeps the types, whatever it answers, once it
\* stands nowhere an operation is looked at.
LEMMA ReturnTypes ==
  ASSUME TypeInv, NEW r \in Requests, NEW a, Return(r, a),
         NEW to \in {"committed", "done"}, at' = [at EXCEPT ![r] = to]
  PROVE  /\ DOMAIN at' = Requests
         /\ DOMAIN op' = Requests /\ DOMAIN answer' = Requests
         /\ read' \in [Requests -> Rows] /\ seen' \in [Requests -> Rows]
         /\ OpInv' /\ StageInv'
         /\ Alone(r) /\ Keeps(r)
<1>1. \A q \in Requests : op'[q] = IF q = r THEN [kind |-> "none"] ELSE op[q]
  BY DEF Return, TypeInv, NoOp
<1>2. \A q \in Requests : at'[q] = IF q = r THEN to ELSE at[q]
  BY DEF TypeInv
<1>3. OpInv'
  BY <1>1 DEF OpInv, TypeInv, Guarded
<1>4. StageInv'
  BY <1>1, <1>2 DEF StageInv, TypeInv, Guarded
<1>5. read' \in [Requests -> Rows] /\ seen' \in [Requests -> Rows]
  BY AbsentRow DEF Return, TypeInv
<1>6. Alone(r) /\ Keeps(r)
  BY DEF Alone, Keeps, Return, TypeInv
<1>7. DOMAIN at' = Requests
  BY DEF TypeInv
<1>8. DOMAIN op' = Requests /\ DOMAIN answer' = Requests
  BY DEF Return, TypeInv
<1>9. QED BY <1>3, <1>4, <1>5, <1>6, <1>7, <1>8

\* A commit replaces one ticket.
LEMMA CommitShape ==
  ASSUME TypeInv, NEW r \in Requests, NEW t \in Ids, NEW new \in Rows, NEW e, NEW a,
         NEW to \in {"committed", "done"}, at' = [at EXCEPT ![r] = to],
         Commit(r, t, new, e, Found(new), a),
         Follows(row[t], new), Is(t) => new.keyed = row[t].keyed, new.keyed => Is(t) \/ ~KeyUsed
  PROVE  TypeInv' /\ Alone(r) /\ Keeps(r) /\ Shape
<1>1. Replaces(t, new)
  BY DEF Commit, Replaces
<1>2. row' \in [Ids -> Rows] /\ DOMAIN index' = Ids
  BY DEF Commit, TypeInv
<1>3. Return(r, a)
  BY DEF Commit
<1>4. TypeInv' /\ Alone(r) /\ Keeps(r)
  BY <1>2, <1>3, ReturnTypes DEF TypeInv
<1>5. QED BY <1>1, <1>4 DEF Shape

\* A refusal leaves the tickets alone.
LEMMA RefuseShape ==
  ASSUME TypeInv, NEW r \in Requests, NEW why, at' = [at EXCEPT ![r] = "done"], Refuse(r, why)
  PROVE  TypeInv' /\ Alone(r) /\ Keeps(r) /\ Shape
<1>1. UNCHANGED <<row, index>> /\ Return(r, [type |-> why])
  BY DEF Refuse
<1>2. "done" \in {"committed", "done"}
  OBVIOUS
<1>3. TypeInv' /\ Alone(r) /\ Keeps(r)
  BY <1>1, <1>2, ReturnTypes DEF TypeInv
<1>4. QED BY <1>1, <1>3 DEF Shape

\* A step that only moves a request on, to where its operation belongs.
LEMMA MoveShape ==
  ASSUME TypeInv, NEW r \in Requests, NEW to, at' = [at EXCEPT ![r] = to],
         UNCHANGED <<row, index, op, read, answer>>, seen' \in [Requests -> Rows],
         \A q \in Requests \ {r} : seen'[q] = seen[q],
         to \in {"waiting", "refused"} => op[r].kind \in Guarded,
         to = "joining" => op[r].kind = "join",
         to = "leaving" => op[r].kind = "leave"
  PROVE  TypeInv' /\ Alone(r) /\ Keeps(r) /\ Shape
<1>1. \A q \in Requests : at'[q] = IF q = r THEN to ELSE at[q]
  BY DEF TypeInv
<1>2. StageInv'
  BY <1>1 DEF StageInv, TypeInv
<1>3. OpInv'
  BY DEF OpInv, TypeInv
<1>4. DOMAIN at' = Requests
  BY DEF TypeInv
<1>5. QED BY <1>1, <1>2, <1>3, <1>4 DEF TypeInv, Alone, Keeps, Shape

-----------------------------------------------------------------------------
(* Every operation, step by step                                           *)

\* A caller's choice touches no ticket.
LEMMA AskShape ==
  ASSUME TypeInv, NEW r \in Requests, Ask(r)
  PROVE  TypeInv' /\ Alone(r) /\ UNCHANGED <<row, index>>
<1>1. PICK o \in Operations :
        /\ o.kind # "create" => Is(o.id)
        /\ op' = [op EXCEPT ![r] = o]
        /\ read' = [read EXCEPT ![r] = IF "ifMatch" \in DOMAIN o /\ o.ifMatch THEN row[o.id] ELSE Absent]
  BY DEF Ask
<1>2. at[r] = "idle" /\ at' = [at EXCEPT ![r] = "asked"] /\ UNCHANGED <<row, index, seen, answer>>
  BY DEF Ask, Step
<1>3. \A q \in Requests : op'[q] = IF q = r THEN o ELSE op[q]
  BY <1>1 DEF TypeInv
<1>4. OpInv'
  BY <1>3, OpsAre DEF OpInv, TypeInv
<1>5. StageInv'
  BY <1>2, <1>3 DEF StageInv, TypeInv
<1>6. read' \in [Requests -> Rows]
  <2>1. CASE "ifMatch" \in DOMAIN o /\ o.ifMatch
    <3>1. o.kind \in Guarded
      BY <2>1 DEF Operations, Guarded
    <3>2. row[o.id] \in Rows
      BY <3>1, OpsAre DEF TypeInv
    <3>3. QED BY <1>1, <2>1, <3>2 DEF TypeInv
  <2>2. CASE ~ ("ifMatch" \in DOMAIN o /\ o.ifMatch)
    BY <1>1, <2>2, AbsentRow DEF TypeInv
  <2>3. QED BY <2>1, <2>2
<1>7. Alone(r)
  BY <1>1, <1>2 DEF Alone, TypeInv
<1>8. QED BY <1>1, <1>2, <1>4, <1>5, <1>6, <1>7 DEF TypeInv

\* A create puts a ticket where there was none; a keyed one only when the key
\* has made none.
LEMMA CreateShape ==
  ASSUME TypeInv, NEW r \in Requests, Create(r)
  PROVE  TypeInv' /\ Alone(r) /\ Keeps(r) /\ Shape
<1>1. PICK t \in Ids :
        /\ ~ Is(t)
        /\ LET new == New(op[r].text, op[r].labels, FALSE, op[r].keyed)
           IN  Commit(r, t, new, <<Entry("created", Nil, Nil)>>, {op[r].text}, Frame("created", t, new, op[r].labels))
  BY DEF Create
<1> DEFINE new == New(op[r].text, op[r].labels, FALSE, op[r].keyed)
<1>2. op[r].kind = "create" /\ ~ (op[r].keyed /\ KeyUsed) /\ at' = [at EXCEPT ![r] = "committed"]
  BY DEF Create, Step
<1>3. op[r].text \in Texts /\ op[r].labels \in SUBSET Labels /\ op[r].keyed \in BOOLEAN
  BY <1>2 DEF TypeInv, OpInv
<1>4. new \in Rows
  BY <1>3, NewRow
<1>5. new.version = 1 /\ ~new.archived /\ new.text = op[r].text /\ new.keyed = op[r].keyed
  BY <1>3 DEF New
<1>0. Commit(r, t, new, <<Entry("created", Nil, Nil)>>, {op[r].text}, Frame("created", t, new, op[r].labels))
  BY <1>1
<1> HIDE DEF new
<1>6. Found(new) = {op[r].text}
  BY <1>5 DEF Found
<1>7. row[t].version = 0
  BY <1>1 DEF Is, TypeInv, Rows
<1>8. Follows(row[t], new)
  BY <1>5, <1>7 DEF Follows
<1>9. Commit(r, t, new, <<Entry("created", Nil, Nil)>>, Found(new), Frame("created", t, new, op[r].labels))
  BY <1>0, <1>6
<1>10. new.keyed => ~KeyUsed
  BY <1>2, <1>5
<1>11. QED BY <1>1, <1>2, <1>4, <1>8, <1>9, <1>10, CommitShape

\* Answering a retried create writes nothing.
LEMMA ReplayShape ==
  ASSUME TypeInv, NEW r \in Requests, CreateConflicts(r) \/ AfterEmptyInsert(r)
  PROVE  TypeInv' /\ Alone(r) /\ Keeps(r) /\ Shape
<1>1. CASE CreateConflicts(r)
  BY <1>1, MoveShape DEF CreateConflicts, Step, TypeInv
<1>2. CASE AfterEmptyInsert(r)
  BY <1>2, RefuseShape DEF AfterEmptyInsert, Step
<1>3. QED BY <1>1, <1>2

\* The row a bump writes is a later state of the ticket, whatever else it
\* changes.
LEMMA BumpedRow ==
  ASSUME TypeInv, NEW t \in Ids, NEW new, new.version = row[t].version + 1
  PROVE  Follows(row[t], new)
  BY DEF TypeInv, Rows, Follows

\* A refused write writes nothing, and neither does waiting for one.
LEMMA GuardedRefusalShape ==
  ASSUME TypeInv, NEW r \in Requests, Wait(r) \/ NoMatch(r) \/ NoRow(r)
  PROVE  TypeInv' /\ Alone(r) /\ Keeps(r) /\ Shape
<1>1. CASE Wait(r)
  <2>1. op[r].kind \in Guarded /\ op[r].id \in Ids
    BY <1>1 DEF Wait, Guarded, TypeInv, OpInv
  <2>2. seen' \in [Requests -> Rows] /\ \A q \in Requests \ {r} : seen'[q] = seen[q]
    BY <1>1, <2>1 DEF Wait, TypeInv
  <2>3. QED BY <1>1, <2>1, <2>2, MoveShape DEF Wait, Step
<1>2. CASE NoMatch(r)
  BY <1>2, MoveShape DEF NoMatch, Step, TypeInv, Guarded
<1>3. CASE NoRow(r)
  BY <1>3, RefuseShape DEF NoRow, Step
<1>4. QED BY <1>1, <1>2, <1>3

\* What a bump, an edit, archiving and membership make of a ticket.
LEMMA WrittenRow ==
  ASSUME TypeInv, NEW t \in Ids
  PROVE  /\ Bumped(t) \in Rows /\ Bumped(t).version = row[t].version + 1
         /\ Bumped(t).archived = row[t].archived
         /\ Bumped(t).text = row[t].text /\ Bumped(t).keyed = row[t].keyed
         /\ \A b \in BOOLEAN :
              LET new == [Bumped(t) EXCEPT !.archived = b]
              IN  new \in Rows /\ new.version = row[t].version + 1 /\ new.archived = b
                  /\ new.text = row[t].text /\ new.keyed = row[t].keyed
         /\ \A b \in BOOLEAN :
              LET new == [Bumped(t) EXCEPT !.joined = b]
              IN  new \in Rows /\ new.version = row[t].version + 1 /\ new.archived = row[t].archived
                  /\ new.text = row[t].text /\ new.keyed = row[t].keyed
         /\ \A b \in BOOLEAN :
              LET new == [row[t] EXCEPT !.joined = b]
              IN  new \in Rows /\ new.version = row[t].version /\ new.archived = row[t].archived
                  /\ new.text = row[t].text /\ new.labels = row[t].labels /\ new.keyed = row[t].keyed
<1>1. row[t] \in Rows
  BY DEF TypeInv
<1>2. /\ Bumped(t) \in Rows /\ Bumped(t).version = row[t].version + 1
      /\ Bumped(t).archived = row[t].archived
      /\ Bumped(t).text = row[t].text /\ Bumped(t).keyed = row[t].keyed
  BY <1>1 DEF Bumped, Rows
<1>4. \A b \in BOOLEAN :
        LET new == [Bumped(t) EXCEPT !.archived = b]
        IN  new \in Rows /\ new.version = row[t].version + 1 /\ new.archived = b
            /\ new.text = row[t].text /\ new.keyed = row[t].keyed
  BY <1>2 DEF Rows
<1>5. \A b \in BOOLEAN :
        LET new == [Bumped(t) EXCEPT !.joined = b]
        IN  new \in Rows /\ new.version = row[t].version + 1 /\ new.archived = row[t].archived
            /\ new.text = row[t].text /\ new.keyed = row[t].keyed
  BY <1>2 DEF Rows
<1>6. \A b \in BOOLEAN :
        LET new == [row[t] EXCEPT !.joined = b]
        IN  new \in Rows /\ new.version = row[t].version /\ new.archived = row[t].archived
            /\ new.text = row[t].text /\ new.labels = row[t].labels /\ new.keyed = row[t].keyed
  BY <1>1 DEF Rows
<1>7. QED BY <1>2, <1>4, <1>5, <1>6

\* The row an edit writes.
Edited(t, x, l) == [Bumped(t) EXCEPT !.text = x, !.labels = l]

\* What an edit makes of a ticket.
LEMMA EditedRow ==
  ASSUME TypeInv, NEW t \in Ids, NEW x \in Texts, NEW l \in SUBSET Labels
  PROVE  /\ Edited(t, x, l) \in Rows
         /\ Edited(t, x, l).version = row[t].version + 1
         /\ Edited(t, x, l).archived = row[t].archived
         /\ Edited(t, x, l).text = x
         /\ Edited(t, x, l).keyed = row[t].keyed
  BY WrittenRow DEF Rows, Edited

\* Update replaces the ticket with the next version of it.
LEMMA UpdateShape ==
  ASSUME TypeInv, IsInv, NEW r \in Requests, Update(r)
  PROVE  TypeInv' /\ Alone(r) /\ Keeps(r) /\ Shape
<1> DEFINE t == op[r].id
           l == IF op[r].labels = Nil THEN Bumped(t).labels ELSE op[r].labels
           new == Edited(t, op[r].text, l)
<1>1. t \in Ids /\ op[r].text \in Texts /\ op[r].labels \in {Nil} \cup SUBSET Labels
  BY DEF Update, TypeInv, OpInv, Guarded
<1>2. l \in SUBSET Labels
  BY <1>1, WrittenRow DEF Rows
<1>3. new = [Bumped(t) EXCEPT !.text = op[r].text, !.labels = IF op[r].labels = Nil THEN @ ELSE op[r].labels]
  BY DEF Edited
<1>4. Matches(r, row[t]) /\ op[r].kind = "update" /\ at' = [at EXCEPT ![r] = "committed"]
  BY DEF Update, Step
<1>5. ~ row[t].archived
  BY <1>1, <1>4 DEF Matches, TypeInv, Rows
<1>6. PICK e, a : Commit(r, t, new, e, {new.text}, a)
  <2>1. Commit(r, t, new, Diff([row[t] EXCEPT !.labels = seen[r].labels], new), {new.text},
               Frame("updated", t, new, new.labels))
    <3> HIDE DEF l
    <3>1. QED BY <1>3, Zenon DEF Update
  <2> HIDE DEF new, l
  <2>2. QED BY <2>1, Zenon
<1> HIDE DEF l
<1>7. /\ new \in Rows /\ new.version = row[t].version + 1 /\ new.archived = row[t].archived
      /\ new.keyed = row[t].keyed
  BY <1>1, <1>2, EditedRow
<1>8. row[t].version \in Nat
  BY <1>1 DEF TypeInv, Rows
<1> HIDE DEF new
<1>9. Found(new) = {new.text}
  BY <1>5, <1>7, <1>8 DEF Found
<1>10. Follows(row[t], new)
  BY <1>1, <1>7, BumpedRow
<1>11. Is(t)
  BY <1>4 DEF IsInv, Guarded
<1>12. QED BY <1>1, <1>4, <1>6, <1>7, <1>9, <1>10, <1>11, CommitShape

\* Archiving and restoring do too.
LEMMA SetArchivedShape ==
  ASSUME TypeInv, IsInv, NEW r \in Requests, SetArchived(r)
  PROVE  TypeInv' /\ Alone(r) /\ Keeps(r) /\ Shape
<1> DEFINE t == op[r].id
           b == op[r].kind = "archive"
           new == [Bumped(t) EXCEPT !.archived = b]
<1>1. t \in Ids /\ b \in BOOLEAN
  BY DEF SetArchived, TypeInv, OpInv, Guarded
<1>2. at' = [at EXCEPT ![r] = "committed"]
  BY DEF SetArchived, Step
<1>3. PICK e, a : Commit(r, t, new, e, IF b THEN {} ELSE {new.text}, a)
  <2>1. Commit(r, t, new, <<Entry(IF b THEN "archived" ELSE "unarchived", Nil, Nil)>>, IF b THEN {} ELSE {new.text},
               Frame(IF b THEN "archived" ELSE "unarchived", t, new, seen[r].labels))
    BY DEF SetArchived
  <2> HIDE DEF new, b
  <2>2. QED BY <2>1, Zenon
<1>4. /\ new \in Rows /\ new.version = row[t].version + 1 /\ (new.archived <=> b)
      /\ new.keyed = row[t].keyed
  BY <1>1, WrittenRow
<1>5. row[t].version \in Nat
  BY <1>1 DEF TypeInv, Rows
<1> HIDE DEF new, b
<1>6. Found(new) = IF b THEN {} ELSE {new.text}
  BY <1>4, <1>5 DEF Found
<1>7. Follows(row[t], new)
  BY <1>1, <1>4, BumpedRow
<1>8. Is(t)
  BY DEF SetArchived, IsInv, Guarded
<1>9. QED BY <1>1, <1>2, <1>3, <1>4, <1>6, <1>7, <1>8, CommitShape

\* Joining a sprint bumps the ticket, when it changes anything.
LEMMA JoinShape ==
  ASSUME TypeInv, IsInv, SearchInv, NEW r \in Requests, JoinLock(r) \/ Join(r)
  PROVE  TypeInv' /\ Alone(r) /\ Keeps(r) /\ Shape
<1>1. CASE JoinLock(r)
  <2>1. CASE Step(r, "asked", "joining") /\ UNCHANGED <<row, log, first, index, op, read, seen, answer, copy>>
    <3>1. op[r].kind = "join"
      BY <1>1 DEF JoinLock
    <3>2. QED BY <2>1, <3>1, MoveShape DEF Step, TypeInv
  <2>2. CASE Step(r, "asked", "done") /\ Refuse(r, "not_found")
    BY <2>2, RefuseShape DEF Step
  <2>3. QED BY <1>1, <2>1, <2>2 DEF JoinLock
<1>2. CASE Join(r)
  <2> DEFINE t == op[r].id
             new == [Bumped(t) EXCEPT !.joined = TRUE]
  <2>1. op[r].kind = "join" /\ t \in Ids /\ Is(t)
    BY <1>2 DEF Join, TypeInv, OpInv, IsInv
  <2>2. CASE Step(r, "joining", "done") /\ Refuse(r, "no_change")
    BY <2>2, RefuseShape DEF Step
  <2>3. CASE Step(r, "joining", "committed") /\ \E e, a : Commit(r, t, new, e, index[t], a)
    <3>1. PICK e, a : Commit(r, t, new, e, index[t], a)
      BY <2>3
    <3>2. /\ new \in Rows /\ new.version = row[t].version + 1 /\ new.archived = row[t].archived
          /\ new.text = row[t].text /\ new.keyed = row[t].keyed
      BY <2>1, WrittenRow
    <3>3. row[t].version \in Nat
      BY <2>1 DEF TypeInv, Rows
    <3> HIDE DEF new
    <3>4. Found(new) = Found(row[t])
      BY <2>1, <3>2, <3>3 DEF Found, Is
    <3>7. Found(new) = index[t]
      BY <2>1, <3>4 DEF SearchInv
    <3>5. Follows(row[t], new)
      BY <2>1, <3>2, BumpedRow
    <3>6. QED BY <2>1, <2>3, <3>1, <3>2, <3>7, <3>5, CommitShape DEF Step
  <2>4. QED BY <1>2, <2>2, <2>3 DEF Join
<1>3. QED BY <1>1, <1>2

\* Leaving a sprint bumps a live ticket, and of an archived one changes
\* nothing else.
LEMMA LeaveShape ==
  ASSUME TypeInv, IsInv, SearchInv, NEW r \in Requests, LeaveDelete(r) \/ Leave(r)
  PROVE  TypeInv' /\ Alone(r) /\ Keeps(r) /\ Shape
<1> DEFINE t == op[r].id
<1>1. op[r].kind = "leave" /\ t \in Ids /\ Is(t) /\ row[t] \in Rows
  BY DEF LeaveDelete, Leave, TypeInv, OpInv, IsInv
<1>2. CASE LeaveDelete(r)
  <2>1. CASE Step(r, "asked", "done") /\ Refuse(r, "no_change")
    BY <2>1, RefuseShape DEF Step
  <2>2. CASE /\ Step(r, "asked", "leaving")
             /\ seen' = [seen EXCEPT ![r] = row[t]]
             /\ UNCHANGED <<row, log, first, index, op, read, answer, copy>>
    <3>1. seen' \in [Requests -> Rows] /\ \A q \in Requests \ {r} : seen'[q] = seen[q]
      BY <1>1, <2>2 DEF TypeInv
    <3>2. QED BY <1>1, <2>2, <3>1, MoveShape DEF Step
  <2>3. QED BY <1>2, <2>1, <2>2 DEF LeaveDelete
<1>3. CASE Leave(r)
  <2> DEFINE bumped == Live(t) /\ ~seen[r].archived
             left == [Bumped(t) EXCEPT !.joined = FALSE]
             kept == [row[t] EXCEPT !.joined = FALSE]
  <2>1. CASE bumped
    <3>1. PICK e, a : Commit(r, t, left, e, index[t], a)
      BY <1>3, <2>1 DEF Leave
    <3>2. at' = [at EXCEPT ![r] = "committed"]
      BY <1>3, <2>1 DEF Leave, Step
    <3>3. /\ left \in Rows /\ left.version = row[t].version + 1 /\ left.archived = row[t].archived
          /\ left.text = row[t].text /\ left.keyed = row[t].keyed
      BY <1>1, WrittenRow
    <3> HIDE DEF left, bumped
    <3>4. Found(left) = Found(row[t])
      BY <1>1, <3>3 DEF Found, Is, Rows
    <3>5. Found(left) = index[t]
      BY <1>1, <3>4 DEF SearchInv
    <3>6. Follows(row[t], left)
      BY <1>1, <3>3, BumpedRow
    <3>7. QED BY <1>1, <3>1, <3>2, <3>3, <3>5, <3>6, CommitShape
  <2>2. CASE ~bumped
    <3>1. PICK e, a : Commit(r, t, kept, e, index[t], a)
      BY <1>3, <2>2 DEF Leave
    <3>2. at' = [at EXCEPT ![r] = "done"]
      BY <1>3, <2>2 DEF Leave, Step
    <3>3. /\ kept \in Rows /\ kept.version = row[t].version /\ kept.archived = row[t].archived
          /\ kept.text = row[t].text /\ kept.labels = row[t].labels /\ kept.keyed = row[t].keyed
      BY <1>1, WrittenRow
    <3> HIDE DEF kept, bumped
    <3>4. Found(kept) = Found(row[t])
      BY <1>1, <3>3 DEF Found
    <3>5. Found(kept) = index[t]
      BY <1>1, <3>4 DEF SearchInv
    <3>6. Follows(row[t], kept)
      BY <1>1, <3>3 DEF Follows, Rows
    <3>7. QED BY <1>1, <3>1, <3>2, <3>3, <3>5, <3>6, CommitShape
  <2>3. QED BY <2>1, <2>2
<1>4. QED BY <1>2, <1>3

\* Every step of a request that is not its choice: what it may do.
LEMMA ActShape ==
  ASSUME TypeInv, IsInv, SearchInv, NEW r \in Requests, Write(r) \/ Publish(r) \/ PublishFails(r)
  PROVE  TypeInv' /\ Alone(r) /\ Keeps(r) /\ Shape
<1>1. CASE Deadlock(r)
  BY <1>1, RefuseShape DEF Deadlock
<1>2. CASE Publish(r)
  BY <1>2, MoveShape DEF Publish, Step, TypeInv
<1>3. CASE PublishFails(r)
  BY <1>3, MoveShape DEF PublishFails, Step, TypeInv
<1>4. QED
  BY <1>1, <1>2, <1>3, CreateShape, ReplayShape, GuardedRefusalShape, UpdateShape, SetArchivedShape,
     JoinShape, LeaveShape DEF Write

\* No step takes a ticket back to an earlier state.
LEMMA TicketsGoForward ==
  ASSUME TypeInv, Shape
  PROVE  \A t \in Ids : Follows(row[t], row'[t])
<1>1. CASE UNCHANGED <<row, index>>
  BY <1>1, FollowsItself DEF TypeInv
<1>2. ASSUME NEW t \in Ids, NEW new \in Rows, Replaces(t, new)
      PROVE  \A u \in Ids : Follows(row[u], row'[u])
  <2>1. \A u \in Ids : row'[u] = IF u = t THEN new ELSE row[u]
    BY <1>2 DEF Replaces, TypeInv
  <2>2. Follows(row[t], new)
    BY <1>2 DEF Replaces
  <2>3. QED BY <2>1, <2>2, FollowsItself DEF TypeInv
<1>3. QED BY <1>1, <1>2 DEF Shape

\* Once made, a ticket is there.
LEMMA IsStays ==
  ASSUME TypeInv, Shape, NEW t \in Ids, Is(t)
  PROVE  Is(t)'
<1>1. Follows(row[t], row'[t]) /\ row[t] \in Rows
  BY TicketsGoForward DEF TypeInv
<1>2. row'[t] \in Rows
  <2>1. CASE UNCHANGED <<row, index>>
    BY <1>1, <2>1
  <2>2. CASE \E u \in Ids, new \in Rows : Replaces(u, new)
    BY <2>2 DEF Replaces, TypeInv
  <2>3. QED BY <2>1, <2>2 DEF Shape
<1>3. QED BY <1>1, <1>2 DEF Follows, Is, Rows

-----------------------------------------------------------------------------
(* The search index and the keys                                           *)

KeyInv == \A t, u \in Ids : Is(t) /\ row[t].keyed /\ Is(u) /\ row[u].keyed => t = u

Core == TypeInv /\ IsInv /\ SearchInv /\ KeyInv

\* The core holds at the start.
LEMMA InitCore == Init => Core
<1> SUFFICES ASSUME Init PROVE Core OBVIOUS
<1>1. TypeInv
  BY InitTypeInv
<1>2. IsInv
  BY DEF Init, IsInv, NoOp, Guarded
<1>3. SearchInv
  <2>1. \A t \in Ids : index[t] = IF Live(t) THEN {row[t].text} ELSE {}
    BY DEF Init
  <2>2. QED BY <2>1 DEF SearchInv, Found, Live, Is
<1>4. KeyInv
  BY DEF Init, KeyInv
<1>5. QED BY <1>1, <1>2, <1>3, <1>4 DEF Core

\* A step that keeps the shape keeps the core.
LEMMA ShapeCore ==
  ASSUME Core, TypeInv', NEW r \in Requests, Alone(r), Shape,
         op'[r].kind \in Guarded \cup {"join", "leave"} => Is(op'[r].id)
  PROVE  Core'
<1> USE DEF Core
<1>1. IsInv'
  <2>1. ASSUME NEW q \in Requests, op'[q].kind \in Guarded \cup {"join", "leave"} PROVE Is(op'[q].id)
    BY <2>1 DEF Alone, IsInv
  <2>2. ASSUME NEW q \in Requests, op'[q].kind \in Guarded \cup {"join", "leave"} PROVE op'[q].id \in Ids
    BY <2>2 DEF TypeInv, OpInv
  <2>3. ASSUME NEW q \in Requests, op'[q].kind \in Guarded \cup {"join", "leave"} PROVE row'[op'[q].id].version > 0
    BY <2>1, <2>2, <2>3, IsStays DEF Is
  <2>4. QED BY <2>3 DEF IsInv, Is, Guarded
<1>2. CASE UNCHANGED <<row, index>>
  <2>1. SearchInv'
    BY <1>2 DEF SearchInv
  <2>2. KeyInv'
    BY <1>2 DEF KeyInv, Is
  <2>3. QED BY <1>1, <2>1, <2>2
<1>3. ASSUME NEW t \in Ids, NEW new \in Rows, Replaces(t, new)
      PROVE  Core'
  <2>1. \A u \in Ids : row'[u] = (IF u = t THEN new ELSE row[u])
    BY <1>3 DEF Replaces, TypeInv
  <2>2. \A u \in Ids : index'[u] = (IF u = t THEN Found(new) ELSE index[u])
    BY <1>3 DEF Replaces, TypeInv
  <2>3. SearchInv'
    BY <2>1, <2>2 DEF SearchInv
  <2>4. KeyInv'
    <3> SUFFICES ASSUME NEW u \in Ids, NEW v \in Ids,
                        Is(u)', row'[u].keyed, Is(v)', row'[v].keyed
                 PROVE  u = v
      BY DEF KeyInv
    <3>1. /\ Is(t) => new.keyed = row[t].keyed
          /\ new.keyed => Is(t) \/ ~KeyUsed
      BY <1>3 DEF Replaces
    <3>2. \A w \in Ids \ {t} : (Is(w)' <=> Is(w)) /\ row'[w] = row[w]
      BY <2>1 DEF Is
    <3>3. CASE u = t /\ v # t
      <4>1. Is(v) /\ row[v].keyed
        BY <3>2, <3>3
      <4>2. new.keyed
        BY <2>1, <3>3
      <4>3. Is(t) /\ row[t].keyed
        BY <3>1, <4>1, <4>2 DEF KeyUsed
      <4>4. QED BY <4>1, <4>3, <3>3 DEF KeyInv
    <3>4. CASE v = t /\ u # t
      <4>1. Is(u) /\ row[u].keyed
        BY <3>2, <3>4
      <4>2. new.keyed
        BY <2>1, <3>4
      <4>3. Is(t) /\ row[t].keyed
        BY <3>1, <4>1, <4>2 DEF KeyUsed
      <4>4. QED BY <4>1, <4>3, <3>4 DEF KeyInv
    <3>5. CASE u # t /\ v # t
      BY <3>2, <3>5 DEF KeyInv
    <3>6. QED BY <3>3, <3>4, <3>5
  <2>5. QED BY <1>1, <2>3, <2>4
<1>4. QED BY <1>2, <1>3 DEF Shape

\* Every step does.
LEMMA NextCore == Core /\ [Next]_vars => Core'
<1> SUFFICES ASSUME Core, [Next]_vars PROVE Core' OBVIOUS
<1>1. ASSUME NEW r \in Requests, Ask(r) PROVE Core'
  <2>1. TypeInv' /\ Alone(r) /\ UNCHANGED <<row, index>>
    BY <1>1, AskShape DEF Core
  <2>2. op'[r].kind \in Guarded \cup {"join", "leave"} => Is(op'[r].id)
    <3>1. PICK o \in Operations : (o.kind # "create" => Is(o.id)) /\ op' = [op EXCEPT ![r] = o]
      BY <1>1 DEF Ask
    <3>2. op'[r] = o
      BY <3>1 DEF Core, TypeInv
    <3>3. QED BY <3>1, <3>2 DEF Guarded
  <2>3. QED BY <2>1, <2>2, ShapeCore DEF Shape
<1>2. ASSUME NEW r \in Requests, Write(r) \/ Publish(r) \/ PublishFails(r) PROVE Core'
  <2>1. TypeInv' /\ Alone(r) /\ Keeps(r) /\ Shape
    BY <1>2, ActShape DEF Core
  <2>2. op'[r].kind \in Guarded \cup {"join", "leave"} => Is(op'[r].id)
    BY <2>1 DEF Keeps, NoOp, Guarded, Core, IsInv
  <2>3. QED BY <2>1, <2>2, ShapeCore
<1>3. CASE UNCHANGED vars
  <2>1. UNCHANGED <<row, index, at, op, read, seen, answer>>
    BY <1>3 DEF vars
  <2>2. TypeInv'
    BY <2>1 DEF Core, TypeInv, OpInv, StageInv
  <2>3. IsInv' /\ SearchInv' /\ KeyInv'
    BY <2>1 DEF Core, IsInv, SearchInv, KeyInv, Is
  <2>4. QED BY <2>2, <2>3 DEF Core
<1>4. QED BY <1>1, <1>2, <1>3 DEF Next, Finished

\* The core holds throughout.
LEMMA CoreHolds == Spec => []Core
<1>1. QED BY InitCore, NextCore, PTL DEF Spec

\* The search index is right after every step of every operation, in whatever
\* order edits, archiving and restoring come (ticket.go:491-497, 593-602).
THEOREM SearchIsRight == Spec => []SearchFollowsTickets
<1>1. Core => SearchFollowsTickets
  <2> SUFFICES ASSUME Core, NEW t \in Ids PROVE index[t] = IF Live(t) THEN {row[t].text} ELSE {}
    BY DEF SearchFollowsTickets
  <2>1. index[t] = Found(row[t])
    BY DEF Core, SearchInv
  <2>2. QED BY <2>1 DEF Found, Live, Is
<1>2. QED BY <1>1, CoreHolds, PTL

\* One key never makes two tickets, however many requests carry it and whatever
\* became of the first ticket (ticket.go:298-302).
THEOREM KeyMakesOneTicket == Spec => []OneTicketPerKey
<1>1. Core => OneTicketPerKey
  <2> SUFFICES ASSUME Core PROVE OneTicketPerKey OBVIOUS
  <2> DEFINE S == {t \in Ids : Is(t) /\ row[t].keyed}
  <2>1. CASE S = {}
    BY <2>1, FS_EmptySet DEF OneTicketPerKey
  <2>2. CASE S # {}
    <3>1. PICK t : t \in S
      BY <2>2
    <3>2. S = {t}
      BY <3>1 DEF Core, KeyInv
    <3>3. Cardinality(S) = 1
      BY <3>2, FS_Singleton
    <3>4. QED BY <3>3 DEF OneTicketPerKey
  <2>3. QED BY <2>1, <2>2
<1>2. QED BY <1>1, CoreHolds, PTL

-----------------------------------------------------------------------------
(* The version a caller sends                                              *)

Sends(r) == op[r].kind \in Guarded /\ op[r].ifMatch

\* What a request knows is an earlier state of the ticket; one that was
\* refused has a reason that still holds.
Knows(r) ==
    /\ at[r] \in {"asked", "waiting", "refused"} /\ Sends(r) => Follows(read[r], row[op[r].id])
    /\ at[r] = "waiting" /\ Sends(r) => Follows(read[r], seen[r]) /\ Follows(seen[r], row[op[r].id])
    /\ at[r] = "refused" /\ Sends(r) /\ row[op[r].id].version = read[r].version
         => row[op[r].id].archived # (op[r].kind = "unarchive")

ReadInv == \A r \in Requests : Knows(r)

\* What others write does not make a request know less.
LEMMA OthersKnow ==
  ASSUME Core, Core', Shape, NEW q \in Requests, Knows(q),
         at'[q] = at[q], op'[q] = op[q], read'[q] = read[q], seen'[q] = seen[q]
  PROVE  Knows(q)'
<1> DEFINE t == op[q].id
<1> SUFFICES ASSUME Sends(q), at[q] \in {"asked", "waiting", "refused"} PROVE Knows(q)'
  BY DEF Knows, Sends
<1>1. t \in Ids
  BY DEF Sends, Core, TypeInv, OpInv
<1>2. row[t] \in Rows /\ row'[t] \in Rows /\ read[q] \in Rows /\ seen[q] \in Rows
  BY <1>1 DEF Core, TypeInv
<1>3. Follows(row[t], row'[t])
  BY <1>1, TicketsGoForward DEF Core
<1>4. Follows(read[q], row'[t])
  BY <1>2, <1>3, FollowsOn DEF Knows
<1>5. at[q] = "waiting" => Follows(seen[q], row'[t])
  BY <1>2, <1>3, FollowsOn DEF Knows
<1>6. ASSUME at[q] = "refused", row'[t].version = read[q].version
      PROVE  row'[t].archived # (op[q].kind = "unarchive")
  <2>1. row[t].version = read[q].version
    BY <1>2, <1>3, <1>6 DEF Follows, Knows, Rows
  <2>2. row'[t].archived = row[t].archived
    BY <1>3, <1>6, <2>1 DEF Follows
  <2>3. row[t].archived # (op[q].kind = "unarchive")
    BY <1>6, <2>1 DEF Knows
  <2>4. QED BY <2>2, <2>3
<1>7. QED BY <1>4, <1>5, <1>6 DEF Knows, Sends

\* The start of a statement sees the ticket, and a refusal has its reason.
LEMMA OwnKnowledge ==
  ASSUME Core, ReadInv, NEW r \in Requests, Wait(r) \/ NoMatch(r)
  PROVE  Knows(r)'
<1> DEFINE t == op[r].id
<1>1. op[r].kind \in Guarded /\ t \in Ids
  BY DEF Wait, NoMatch, Guarded, Core, TypeInv, OpInv
<1>2. row[t] \in Rows /\ read[r] \in Rows /\ seen[r] \in Rows
  BY <1>1 DEF Core, TypeInv
<1>3. UNCHANGED <<row, op, read>>
  BY DEF Wait, NoMatch
<1>4. CASE Wait(r)
  <2>1. at[r] = "asked" /\ at'[r] = "waiting" /\ seen'[r] = row[t]
    BY <1>4 DEF Wait, Step, Core, TypeInv
  <2>2. Sends(r) => Follows(read[r], row[t])
    BY <2>1 DEF ReadInv, Knows
  <2>3. Follows(row[t], row[t])
    BY <1>2, FollowsItself
  <2>4. QED BY <1>3, <2>1, <2>2, <2>3 DEF Knows, Sends
<1>5. CASE NoMatch(r)
  <2>1. at[r] = "waiting" /\ at'[r] = "refused"
    BY <1>5 DEF NoMatch, Step, Core, TypeInv
  <2>2. Sends(r) => Follows(read[r], row[t]) /\ Follows(read[r], seen[r]) /\ Follows(seen[r], row[t])
    BY <2>1 DEF ReadInv, Knows
  <2>3. ASSUME Sends(r), row[t].version = read[r].version
        PROVE  row[t].archived # (op[r].kind = "unarchive")
    <3>1. seen[r].version = read[r].version /\ row[t].archived = seen[r].archived
      BY <1>2, <2>2, <2>3 DEF Follows, Rows
    <3>2. ~Matches(r, seen[r]) \/ ~Matches(r, row[t])
      BY <1>5 DEF NoMatch
    <3>3. QED BY <2>3, <3>1, <3>2 DEF Matches
  <2>4. QED BY <1>3, <2>1, <2>2, <2>3 DEF Knows, Sends
<1>6. QED BY <1>4, <1>5

\* Every step keeps what is known.
LEMMA NextReadInv == Core /\ ReadInv /\ [Next]_vars => ReadInv'
<1> SUFFICES ASSUME Core, ReadInv, [Next]_vars PROVE ReadInv' OBVIOUS
<1>1. Core'
  BY NextCore
<1>2. ASSUME NEW r \in Requests, Alone(r), Shape, Knows(r)' PROVE ReadInv'
  BY <1>1, <1>2, OthersKnow DEF ReadInv, Alone
<1>3. ASSUME NEW r \in Requests, Ask(r) PROVE ReadInv'
  <2>1. Alone(r) /\ UNCHANGED <<row, index>>
    BY <1>3, AskShape DEF Core
  <2>2. PICK o \in Operations :
          /\ op' = [op EXCEPT ![r] = o]
          /\ read' = [read EXCEPT ![r] = IF "ifMatch" \in DOMAIN o /\ o.ifMatch THEN row[o.id] ELSE Absent]
    BY <1>3 DEF Ask
  <2>3. op'[r] = o /\ read'[r] = (IF "ifMatch" \in DOMAIN o /\ o.ifMatch THEN row[o.id] ELSE Absent)
    BY <2>2 DEF Core, TypeInv
  <2>4. at'[r] = "asked"
    BY <1>3 DEF Ask, Step, Core, TypeInv
  <2>5. ASSUME o.kind \in Guarded, o.ifMatch PROVE Follows(read'[r], row[o.id])
    <3>1. "ifMatch" \in DOMAIN o /\ row[o.id] \in Rows
      BY <2>5, OpsAre DEF Operations, Guarded, Core, TypeInv
    <3>2. QED BY <2>3, <2>5, <3>1, FollowsItself
  <2>6. Knows(r)'
    BY <2>1, <2>3, <2>4, <2>5 DEF Knows, Sends
  <2>7. QED BY <1>2, <2>1, <2>6 DEF Shape
<1>4. ASSUME NEW r \in Requests, Write(r) \/ Publish(r) \/ PublishFails(r) PROVE ReadInv'
  <2>1. Alone(r) /\ Shape
    BY <1>4, ActShape DEF Core
  <2>2. CASE Wait(r) \/ NoMatch(r)
    BY <1>2, <2>1, <2>2, OwnKnowledge
  <2>3. CASE at'[r] \notin {"asked", "waiting", "refused"}
    BY <1>2, <2>1, <2>3 DEF Knows
  <2>4. ~(Wait(r) \/ NoMatch(r)) => at'[r] \notin {"asked", "waiting", "refused"}
    BY <1>4 DEF Write, Publish, PublishFails, Create, CreateConflicts, AfterEmptyInsert, Update, SetArchived,
                NoRow, JoinLock, Join, LeaveDelete, Leave, Deadlock, Step, Core, TypeInv
  <2>5. QED BY <2>2, <2>3, <2>4
<1>5. CASE UNCHANGED vars
  BY <1>5 DEF vars, ReadInv, Knows, Sends
<1>6. QED BY <1>3, <1>4, <1>5 DEF Next, Finished

\* What is known at the start, nothing, is true.
LEMMA ReadHolds == Spec => [](Core /\ ReadInv)
<1>1. Init => ReadInv
  BY DEF Init, ReadInv, Knows
<1>2. QED BY <1>1, InitCore, NextCore, NextReadInv, PTL DEF Spec

\* A ticket at the version that was read is the ticket that was read: only
\* its membership, in a table of its own, can be another.
LEMMA SameVersionSameTicket ==
  ASSUME NEW old \in Rows, NEW now \in Rows, Follows(old, now), now.version = old.version
  PROVE  now = [old EXCEPT !.joined = now.joined]
<1>1. now = [version |-> now.version, archived |-> now.archived, text |-> now.text, labels |-> now.labels,
             joined |-> now.joined, keyed |-> now.keyed]
  BY DEF Rows
<1>2. [old EXCEPT !.joined = now.joined]
        = [version |-> old.version, archived |-> old.archived, text |-> old.text, labels |-> old.labels,
           joined |-> now.joined, keyed |-> old.keyed]
  BY DEF Rows
<1>3. now.archived = old.archived /\ now.text = old.text /\ now.labels = old.labels /\ now.keyed = old.keyed
  BY DEF Follows
<1>4. QED BY <1>1, <1>2, <1>3

\* A write with If-Match replaces exactly what its caller read, behind however
\* many other writes it waited (ticket.go:446-451).
THEOREM NothingIsLost == Spec => NoLostUpdate
<1>1. Core /\ ReadInv /\ [Next]_vars =>
        [\A r \in Requests :
           /\ at[r] = "waiting" /\ at'[r] = "committed"
           /\ op[r].ifMatch
           => row[op[r].id] = [read[r] EXCEPT !.joined = row[op[r].id].joined]]_vars
  <2> SUFFICES ASSUME Core, ReadInv, [Next]_vars, NEW r \in Requests,
                      at[r] = "waiting", at'[r] = "committed", op[r].ifMatch
               PROVE  row[op[r].id] = [read[r] EXCEPT !.joined = row[op[r].id].joined]
    OBVIOUS
  <2> DEFINE t == op[r].id
  <2>1. op[r].kind \in Guarded /\ t \in Ids
    BY DEF Core, TypeInv, OpInv, StageInv
  <2>2. Update(r) \/ SetArchived(r)
    <3>1. ASSUME NEW q \in Requests, q # r, Ask(q) \/ Write(q) \/ Publish(q) \/ PublishFails(q)
          PROVE  at'[r] = at[r]
      <4>1. Alone(q)
        BY <3>1, AskShape, ActShape DEF Core
      <4>2. QED BY <3>1, <4>1 DEF Alone
    <3>2. ~ (Finished \/ UNCHANGED vars)
      BY DEF Finished, vars
    <3>3. Ask(r) \/ Write(r) \/ Publish(r) \/ PublishFails(r)
      BY <3>1, <3>2 DEF Next
    <3>4. QED
      BY <3>3 DEF Write, Ask, Publish, PublishFails, Create, CreateConflicts, AfterEmptyInsert, Wait, NoMatch,
                  NoRow, JoinLock, Join, LeaveDelete, Leave, Deadlock, Step, Core, TypeInv
  <2>3. Matches(r, row[t])
    BY <2>2 DEF Update, SetArchived
  <2>4. row[t].version = read[r].version
    BY <2>3 DEF Matches
  <2>5. Follows(read[r], row[t])
    BY <2>1 DEF ReadInv, Knows, Sends
  <2>6. read[r] \in Rows /\ row[t] \in Rows
    BY <2>1 DEF Core, TypeInv
  <2>7. QED BY <2>4, <2>5, <2>6, SameVersionSameTicket
<1>2. QED BY <1>1, ReadHolds, PTL DEF Spec, NoLostUpdate

\* noRow always finds a reason: when it reads the ticket, in a later snapshot
\* than the write that matched nothing, what the write missed can still be
\* seen (conflict.go:137-140).
THEOREM NoRowFindsAReason == Spec => []NoRowIsExplained
<1>1. Init => NoRowIsExplained
  BY DEF Init, NoRowIsExplained
<1>2. Core /\ ReadInv /\ NoRowIsExplained /\ [Next]_vars => NoRowIsExplained'
  <2> SUFFICES ASSUME Core, ReadInv, NoRowIsExplained, [Next]_vars PROVE NoRowIsExplained' OBVIOUS
  <2>1. ASSUME NEW r \in Requests, Alone(r), answer'[r].type # "fault" PROVE NoRowIsExplained'
    BY <2>1 DEF Alone, NoRowIsExplained
  <2>2. ASSUME NEW r \in Requests, NEW a, Return(r, a) PROVE answer'[r] = a
    BY <2>2 DEF Return, Core, TypeInv
  <2>3. ASSUME NEW r \in Requests, NEW why, Refuse(r, why), why # "fault" PROVE answer'[r].type # "fault"
    BY <2>2, <2>3 DEF Refuse
  <2>4. ASSUME NEW r \in Requests, NEW type, NEW t, NEW new, NEW labels, type # "fault",
               Return(r, Frame(type, t, new, labels))
        PROVE  answer'[r].type # "fault"
    BY <2>2, <2>4 DEF Frame
  <2>5. ASSUME NEW r \in Requests, Return(r, [type |-> "no_change"]) PROVE answer'[r].type # "fault"
    BY <2>2, <2>5
  <2>6. ASSUME NEW r \in Requests, Ask(r) PROVE NoRowIsExplained'
    BY <2>1, <2>6, AskShape DEF Ask, Core, NoRowIsExplained
  <2>7. ASSUME NEW r \in Requests, Write(r) \/ Publish(r) \/ PublishFails(r) PROVE NoRowIsExplained'
    <3>1. Alone(r)
      BY <2>7, ActShape DEF Core
    <3>2. SUFFICES answer'[r].type # "fault"
      BY <2>1, <3>1
    <3>3. CASE Create(r)
      BY <2>2, <3>3 DEF Create, Commit, Frame
    <3>4. CASE AfterEmptyInsert(r)
      BY <2>3, <3>4 DEF AfterEmptyInsert
    <3>5. CASE Update(r)
      <4>1. \E t, new, labels : Return(r, Frame("updated", t, new, labels))
        BY <3>5, Zenon DEF Update, Commit
      <4>2. QED BY <2>4, <4>1
    <3>6. CASE SetArchived(r)
      BY <2>2, <3>6 DEF SetArchived, Commit, Frame
    <3>7. CASE NoRow(r)
      <4> DEFINE t == row[op[r].id]
                 needsArchived == op[r].kind = "unarchive"
      <4>1. at[r] = "refused" /\ op[r].kind \in Guarded
        BY <3>7 DEF NoRow, Step, Core, TypeInv, StageInv
      <4>2. op[r].ifMatch /\ t.version = read[r].version => t.archived # needsArchived
        BY <4>1 DEF ReadInv, Knows, Sends
      <4>3. PICK why : why # "fault" /\ Refuse(r, why)
        BY <3>7, <4>2 DEF NoRow
      <4>4. QED BY <2>3, <4>3
    <3>8. CASE JoinLock(r) \/ Join(r)
      <4>1. \/ UNCHANGED answer
            \/ Refuse(r, "not_found") \/ Refuse(r, "no_change")
            \/ \E t, new, labels : Return(r, Frame("updated", t, new, labels))
        BY <3>8, Zenon DEF JoinLock, Join, Commit
      <4>2. QED BY <2>3, <2>4, <4>1 DEF NoRowIsExplained
    <3>9. CASE LeaveDelete(r) \/ Leave(r)
      <4>1. \/ UNCHANGED answer
            \/ Refuse(r, "no_change") \/ Return(r, [type |-> "no_change"])
            \/ \E t, new, labels : Return(r, Frame("updated", t, new, labels))
        BY <3>9, Zenon DEF LeaveDelete, Leave, Commit
      <4>2. QED BY <2>3, <2>4, <2>5, <4>1 DEF NoRowIsExplained
    <3>10. CASE Deadlock(r)
      BY <2>3, <3>10 DEF Deadlock
    <3>11. CASE CreateConflicts(r) \/ Wait(r) \/ NoMatch(r) \/ Publish(r) \/ PublishFails(r)
      BY <3>11 DEF CreateConflicts, Wait, NoMatch, Publish, PublishFails, NoRowIsExplained
    <3>12. QED BY <2>7, <3>3, <3>4, <3>5, <3>6, <3>7, <3>8, <3>9, <3>10, <3>11 DEF Write
  <2>8. CASE UNCHANGED vars
    BY <2>8 DEF vars, NoRowIsExplained
  <2>9. QED BY <2>6, <2>7, <2>8 DEF Next, Finished
<1>3. QED BY <1>1, <1>2, ReadHolds, PTL DEF Spec

-----------------------------------------------------------------------------
(* The frames and the client                                               *)

\* A frame of r is on its way, or was never published.
Pending(r) == at[r] \in {"committed", "silent"}

\* Frame a tells of a ticket what it was at a's version.
TellsOf(a, now) ==
    /\ a.version <= now.version
    /\ a.version = now.version => (a.type = "archived" <=> now.archived) /\ a.text = now.text

FramesInv ==
    \A r \in Requests : Pending(r) =>
        /\ answer[r].id \in Ids /\ answer[r].version \in Nat
        /\ TellsOf(answer[r], row[answer[r].id])

\* The client's copy of a ticket is of a version the ticket has had, and right
\* when it is of the latest.
Holds(held, now) ==
    /\ held.version \in Nat /\ held.version <= now.version
    /\ held.version = now.version =>
        /\ held.there = (now.version > 0 /\ ~now.archived)
        /\ held.there => held.text = now.text

CopyInv == DOMAIN copy = Ids /\ \A t \in Ids : Holds(copy[t], row[t])

\* The latest version is the client's, or somebody has its frame.
LatestInv ==
    \A t \in Ids :
        \/ copy[t].version = row[t].version
        \/ \E r \in Requests : Pending(r) /\ answer[r].id = t /\ answer[r].version = row[t].version

\* A ticket that is being joined to a sprint is locked, so it stays live.
JoinInv == \A r \in Requests : at[r] = "joining" => ~row[op[r].id].archived

Feed == FramesInv /\ CopyInv /\ LatestInv /\ JoinInv

\* A step that writes the next version of a ticket has its frame to publish,
\* and archives or restores no ticket that is being joined to a sprint.
Announces(r) ==
    /\ ~Pending(r) /\ at'[r] = "committed"
    /\ UNCHANGED copy
    /\ \E t \in Ids, new \in Rows :
        /\ row' = [row EXCEPT ![t] = new]
        /\ new.version = row[t].version + 1
        /\ answer'[r].id = t /\ answer'[r].version = new.version /\ answer'[r].text = new.text
        /\ answer'[r].type = "archived" <=> new.archived
        /\ Is(t) /\ ~RowFree(t) => new.archived = row[t].archived

\* A step after which every ticket is, to the client, what it was.
Silent(r) ==
    /\ ~Pending(r) /\ at'[r] \notin {"committed", "silent"}
    /\ UNCHANGED copy
    /\ \A t \in Ids : /\ row'[t].version = row[t].version
                      /\ row'[t].archived = row[t].archived
                      /\ row'[t].text = row[t].text

\* A commit with the frame of what it wrote announces it.
LEMMA CommitAnnounces ==
  ASSUME TypeInv, NEW r \in Requests, NEW t \in Ids, NEW new \in Rows, NEW type, NEW labels,
         ~Pending(r), at'[r] = "committed", UNCHANGED copy, row' = [row EXCEPT ![t] = new],
         answer'[r] = Frame(type, t, new, labels),
         new.version = row[t].version + 1, type = "archived" <=> new.archived,
         Is(t) /\ ~RowFree(t) => new.archived = row[t].archived
  PROVE  Announces(r)
<1>1. answer'[r].id = t /\ answer'[r].version = new.version /\ answer'[r].text = new.text /\ answer'[r].type = type
  BY DEF Frame
<1>2. QED BY <1>1 DEF Announces

\* What a commit does to the client's side of it.
LEMMA CommitGives ==
  ASSUME TypeInv, NEW r \in Requests, NEW t \in Ids, NEW new, NEW e, NEW x, NEW a, Commit(r, t, new, e, x, a)
  PROVE  UNCHANGED copy /\ row' = [row EXCEPT ![t] = new] /\ answer'[r] = a
BY DEF Commit, Return, TypeInv

\* What leaves the tickets alone is silent.
LEMMA StillSilent ==
  ASSUME TypeInv, NEW r \in Requests, NEW to, at[r] \notin {"committed", "silent"}, at' = [at EXCEPT ![r] = to],
         to \notin {"committed", "silent"}, UNCHANGED <<row, copy>>
  PROVE  Silent(r)
BY DEF Silent, Pending, TypeInv

\* A create announces the ticket.
LEMMA CreateAnnounces ==
  ASSUME TypeInv, NEW r \in Requests, Create(r)
  PROVE  Announces(r)
<1> DEFINE new == New(op[r].text, op[r].labels, FALSE, op[r].keyed)
<1>1. PICK t \in Ids :
        /\ ~ Is(t)
        /\ Commit(r, t, new, <<Entry("created", Nil, Nil)>>, {op[r].text}, Frame("created", t, new, op[r].labels))
  BY DEF Create
<1>2. op[r].kind = "create" /\ at' = [at EXCEPT ![r] = "committed"]
  BY DEF Create, Step
<1>3. op[r].text \in Texts /\ op[r].labels \in SUBSET Labels /\ op[r].keyed \in BOOLEAN
  BY <1>2 DEF TypeInv, OpInv
<1>4. new \in Rows
  BY <1>3, NewRow
<1>5. new.version = 1 /\ new.archived = FALSE
  BY DEF New
<1>6. row[t].version = 0
  BY <1>1 DEF Is, TypeInv, Rows
<1> HIDE DEF new
<1>7. new.version = row[t].version + 1
  BY <1>5, <1>6
<1>8. UNCHANGED copy /\ row' = [row EXCEPT ![t] = new] /\ answer'[r] = Frame("created", t, new, op[r].labels)
  <2>1. PICK e, x, f : Commit(r, t, new, e, x, f) /\ f = Frame("created", t, new, op[r].labels)
    BY <1>1
  <2>2. QED BY <2>1, CommitGives
<1>9. at'[r] = "committed"
  BY <1>2 DEF TypeInv
<1>10. "created" = "archived" <=> new.archived
  BY <1>5
<1>11. ~Pending(r)
  BY DEF Create, Step, Pending
<1>12. QED BY <1>1, <1>4, <1>7, <1>8, <1>9, <1>10, <1>11, CommitAnnounces, Zenon

\* So does an edit, of a ticket that is live.
LEMMA UpdateAnnounces ==
  ASSUME TypeInv, NEW r \in Requests, Update(r)
  PROVE  Announces(r)
<1> DEFINE t == op[r].id
           l == IF op[r].labels = Nil THEN Bumped(t).labels ELSE op[r].labels
           new == Edited(t, op[r].text, l)
<1>1. t \in Ids /\ op[r].text \in Texts /\ op[r].labels \in {Nil} \cup SUBSET Labels
  BY DEF Update, TypeInv, OpInv, Guarded
<1>2. l \in SUBSET Labels
  BY <1>1, WrittenRow DEF Rows
<1>3. new = [Bumped(t) EXCEPT !.text = op[r].text, !.labels = IF op[r].labels = Nil THEN @ ELSE op[r].labels]
  BY DEF Edited
<1>4. Matches(r, row[t]) /\ op[r].kind = "update" /\ at' = [at EXCEPT ![r] = "committed"]
  BY DEF Update, Step
<1>5. row[t].archived = FALSE
  BY <1>1, <1>4 DEF Matches, TypeInv, Rows
<1>6. Commit(r, t, new, Diff([row[t] EXCEPT !.labels = seen[r].labels], new), {new.text}, Frame("updated", t, new, new.labels))
  <2> HIDE DEF l
  <2>1. QED BY <1>3, Zenon DEF Update
<1> HIDE DEF l
<1>7. new \in Rows /\ new.version = row[t].version + 1 /\ new.archived = row[t].archived
  BY <1>1, <1>2, EditedRow
<1> HIDE DEF new
<1> HIDE DEF t
<1>8. UNCHANGED copy /\ row' = [row EXCEPT ![t] = new] /\ answer'[r] = Frame("updated", t, new, new.labels)
  <2>1. PICK e, x, f : Commit(r, t, new, e, x, f) /\ f = Frame("updated", t, new, new.labels)
    BY <1>6
  <2>2. QED BY <1>1, <2>1, CommitGives
<1>9. at'[r] = "committed"
  BY <1>4 DEF TypeInv
<1>10. "updated" = "archived" <=> new.archived
  BY <1>5, <1>7
<1>11. ~Pending(r)
  BY DEF Update, Step, Pending
<1>12. QED BY <1>1, <1>7, <1>8, <1>9, <1>10, <1>11, CommitAnnounces, Zenon

\* Archiving is announced as archiving, restoring as restoring.
LEMMA SetArchivedAnnounces ==
  ASSUME TypeInv, NEW r \in Requests, SetArchived(r)
  PROVE  Announces(r)
<1> DEFINE t == op[r].id
           b == op[r].kind = "archive"
           kind == IF b THEN "archived" ELSE "unarchived"
           new == [Bumped(t) EXCEPT !.archived = b]
<1>1. t \in Ids /\ b \in BOOLEAN
  BY DEF SetArchived, TypeInv, OpInv, Guarded
<1>2. at' = [at EXCEPT ![r] = "committed"]
  BY DEF SetArchived, Step
<1>3. Commit(r, t, new, <<Entry(kind, Nil, Nil)>>, IF b THEN {} ELSE {new.text}, Frame(kind, t, new, seen[r].labels))
  BY DEF SetArchived
<1>4. new \in Rows /\ new.version = row[t].version + 1 /\ (new.archived <=> b)
  BY <1>1, WrittenRow
<1>5. kind = "archived" <=> b
  OBVIOUS
<1> HIDE DEF new, b, kind
<1> HIDE DEF t
<1>6. UNCHANGED copy /\ row' = [row EXCEPT ![t] = new] /\ answer'[r] = Frame(kind, t, new, seen[r].labels)
  BY <1>1, <1>3, CommitGives
<1>7. at'[r] = "committed"
  BY <1>2 DEF TypeInv
<1>8. ~Pending(r)
  BY DEF SetArchived, Step, Pending
<1>9. RowFree(t)
  BY DEF SetArchived, t
<1>10. kind = "archived" <=> new.archived
  BY <1>4, <1>5
<1>11. QED BY <1>1, <1>4, <1>6, <1>7, <1>8, <1>9, <1>10, CommitAnnounces, Zenon

\* Joining and leaving, of live tickets, are edits to the client.
LEMMA MembersAnnounce ==
  ASSUME TypeInv, JoinInv, NEW r \in Requests, Join(r) \/ Leave(r)
  PROVE  Announces(r) \/ Silent(r)
<1> DEFINE t == op[r].id
<1>1. CASE Join(r)
  <2> DEFINE new == [Bumped(t) EXCEPT !.joined = TRUE]
  <2>1. t \in Ids /\ at[r] = "joining"
    BY <1>1 DEF Join, TypeInv, OpInv, Step
  <2>2. row[t].archived = FALSE
    BY <2>1 DEF JoinInv, TypeInv, Rows
  <2>3. CASE Step(r, "joining", "done") /\ Refuse(r, "no_change")
    <3>1. Silent(r)
      BY <2>3 DEF Step, Refuse, Silent, Pending, TypeInv
    <3>2. QED BY <3>1
  <2>4. CASE /\ Step(r, "joining", "committed")
             /\ Commit(r, t, new, <<Entry("sprint_added", Nil, Nil)>>, index[t], Frame("updated", t, new, row[t].labels))
    <3>1. new \in Rows /\ new.version = row[t].version + 1 /\ new.archived = row[t].archived
      BY <2>1, WrittenRow
    <3> HIDE DEF new
    <3> HIDE DEF t
    <3>3. UNCHANGED copy /\ row' = [row EXCEPT ![t] = new] /\ answer'[r] = Frame("updated", t, new, row[t].labels)
      <4>1. PICK e, x, f : Commit(r, t, new, e, x, f) /\ f = Frame("updated", t, new, row[t].labels)
        BY <2>4
      <4>2. QED BY <2>1, <4>1, CommitGives
    <3>4. at'[r] = "committed"
      BY <2>4 DEF Step, TypeInv
    <3>5. "updated" = "archived" <=> new.archived
      BY <2>2, <3>1
    <3>2. Announces(r)
      <4>1. ~Pending(r)
        BY <2>1 DEF Pending
      <4>2. QED BY <2>1, <3>1, <3>3, <3>4, <3>5, <4>1, CommitAnnounces, Zenon
    <3>6. QED BY <3>2
  <2>5. QED BY <1>1, <2>3, <2>4 DEF Join
<1>2. CASE Leave(r)
  <2> DEFINE bumped == Live(t) /\ ~seen[r].archived
             left == [Bumped(t) EXCEPT !.joined = FALSE]
             kept == [row[t] EXCEPT !.joined = FALSE]
  <2>1. t \in Ids /\ at[r] = "leaving"
    BY <1>2 DEF Leave, TypeInv, OpInv, Step
  <2>2. CASE bumped
    <3>1. Commit(r, t, left, <<Entry("sprint_removed", Nil, Nil)>>, index[t], Frame("updated", t, left, seen[r].labels))
      BY <1>2, <2>2 DEF Leave
    <3>2. at' = [at EXCEPT ![r] = "committed"]
      BY <1>2, <2>2 DEF Leave, Step
    <3>3. left \in Rows /\ left.version = row[t].version + 1 /\ left.archived = row[t].archived
      BY <2>1, WrittenRow
    <3>4. row[t].archived = FALSE
      BY <2>1, <2>2 DEF Live, TypeInv, Rows
    <3> HIDE DEF left, bumped
    <3> HIDE DEF t
    <3>5. UNCHANGED copy /\ row' = [row EXCEPT ![t] = left] /\ answer'[r] = Frame("updated", t, left, seen[r].labels)
      <4>1. PICK e, x, f : Commit(r, t, left, e, x, f) /\ f = Frame("updated", t, left, seen[r].labels)
        BY <3>1
      <4>2. QED BY <2>1, <4>1, CommitGives
    <3>6. at'[r] = "committed"
      BY <3>2 DEF TypeInv
    <3>7. "updated" = "archived" <=> left.archived
      BY <3>3, <3>4
    <3>8. Announces(r)
      <4>1. ~Pending(r)
        BY <2>1 DEF Pending
      <4>2. QED BY <2>1, <3>3, <3>5, <3>6, <3>7, <4>1, CommitAnnounces, Zenon
    <3>9. QED BY <3>8
  <2>3. CASE ~bumped
    <3>1. row' = [row EXCEPT ![t] = kept] /\ UNCHANGED copy
      <4>1. Commit(r, t, kept, <<>>, index[t], [type |-> "no_change"])
        BY <1>2, <2>3 DEF Leave
      <4> HIDE DEF kept, bumped, t
      <4>2. QED BY <4>1 DEF Commit
    <3>2. at' = [at EXCEPT ![r] = "done"]
      BY <1>2, <2>3 DEF Leave, Step
    <3>3. kept.version = row[t].version /\ kept.archived = row[t].archived /\ kept.text = row[t].text
      BY <2>1, WrittenRow
    <3> HIDE DEF kept, bumped
    <3>4. Silent(r)
      BY <2>1, <3>1, <3>2, <3>3 DEF Silent, Pending, TypeInv
    <3>5. QED BY <3>4
  <2>4. QED BY <2>2, <2>3
<1>3. QED BY <1>1, <1>2

\* The other steps of a request write nothing.
LEMMA RestSilent ==
  ASSUME TypeInv, NEW r \in Requests,
         \/ Ask(r) \/ CreateConflicts(r) \/ AfterEmptyInsert(r) \/ Wait(r) \/ NoMatch(r) \/ NoRow(r)
         \/ JoinLock(r) \/ LeaveDelete(r) \/ Deadlock(r)
  PROVE  Silent(r)
<1>1. at[r] \notin {"committed", "silent"}
  BY DEF Ask, CreateConflicts, AfterEmptyInsert, Wait, NoMatch, NoRow, JoinLock, LeaveDelete, Deadlock, Step
<1>2. \E to \in {"asked", "replaying", "done", "waiting", "refused", "joining", "leaving"} : at' = [at EXCEPT ![r] = to]
  BY DEF Ask, CreateConflicts, AfterEmptyInsert, Wait, NoMatch, NoRow, JoinLock, LeaveDelete, Deadlock, Step
<1>3. UNCHANGED <<row, copy>>
  BY DEF Ask, CreateConflicts, AfterEmptyInsert, Wait, NoMatch, NoRow, JoinLock, LeaveDelete, Deadlock, Refuse
<1>4. QED BY <1>1, <1>2, <1>3, StillSilent

\* What every step of a request but its publishing does to the feed.
LEMMA StepFeed ==
  ASSUME Core, Core', Feed, NEW r \in Requests, Alone(r), Announces(r) \/ Silent(r),
         at'[r] = "joining" => ~row'[op'[r].id].archived
  PROVE  Feed'
<1>1. row \in [Ids -> Rows] /\ row' \in [Ids -> Rows]
  BY DEF Core, TypeInv
<1>2. \A q \in Requests \ {r} : (Pending(q)' <=> Pending(q)) /\ answer'[q] = answer[q] /\ at'[q] = at[q] /\ op'[q] = op[q]
  BY DEF Alone, Pending
<1>3. \A q \in Requests : at[q] = "joining" => op[q].id \in Ids /\ Is(op[q].id) /\ ~RowFree(op[q].id)
  BY DEF Core, TypeInv, StageInv, OpInv, IsInv, RowFree
<1>4. CASE Silent(r)
  <2>1. /\ copy' = copy /\ ~Pending(r) /\ ~Pending(r)'
        /\ \A t \in Ids : row'[t].version = row[t].version /\ row'[t].archived = row[t].archived /\ row'[t].text = row[t].text
    BY <1>4 DEF Silent, Pending
  <2>2. FramesInv'
    BY <1>2, <2>1 DEF Feed, FramesInv, TellsOf
  <2>3. CopyInv'
    BY <2>1 DEF Feed, CopyInv, Holds
  <2>4. LatestInv'
    BY <1>2, <2>1 DEF Feed, LatestInv
  <2>5. JoinInv'
    BY <1>2, <1>3, <2>1 DEF Feed, JoinInv
  <2>6. QED BY <2>2, <2>3, <2>4, <2>5 DEF Feed
<1>5. CASE Announces(r)
  <2>1. /\ copy' = copy /\ ~Pending(r) /\ Pending(r)' /\ at'[r] = "committed"
    BY <1>5 DEF Announces, Pending
  <2>2. PICK t \in Ids, new \in Rows :
        /\ row' = [row EXCEPT ![t] = new]
        /\ new.version = row[t].version + 1
        /\ answer'[r].id = t /\ answer'[r].version = new.version /\ answer'[r].text = new.text
        /\ answer'[r].type = "archived" <=> new.archived
        /\ Is(t) /\ ~RowFree(t) => new.archived = row[t].archived
    BY <1>5 DEF Announces
  <2>3. \A u \in Ids : row'[u] = IF u = t THEN new ELSE row[u]
    BY <1>1, <2>2
  <2>4. row[t].version \in Nat /\ new.version \in Nat /\ new.version > row[t].version
    BY <1>1, <2>2 DEF Rows
  <2>5. FramesInv'
    <3>1. ASSUME NEW q \in Requests, q # r, Pending(q)
          PROVE  answer[q].id \in Ids /\ answer[q].version \in Nat /\ TellsOf(answer[q], row'[answer[q].id])
      <4>1. answer[q].id \in Ids /\ answer[q].version \in Nat /\ TellsOf(answer[q], row[answer[q].id])
        BY <3>1 DEF Feed, FramesInv
      <4>2. CASE answer[q].id = t
        <5>1. answer[q].version < new.version
          BY <2>4, <4>1, <4>2 DEF TellsOf
        <5>2. QED BY <2>3, <2>4, <4>1, <4>2, <5>1 DEF TellsOf
      <4>3. QED BY <2>3, <4>1, <4>2
    <3>2. answer'[r].id \in Ids /\ answer'[r].version \in Nat /\ TellsOf(answer'[r], row'[answer'[r].id])
      BY <2>2, <2>3, <2>4 DEF TellsOf
    <3>3. QED BY <1>2, <3>1, <3>2 DEF FramesInv
  <2>6. CopyInv'
    <3>1. ASSUME NEW u \in Ids PROVE Holds(copy[u], row'[u])
      <4>1. Holds(copy[u], row[u])
        BY DEF Feed, CopyInv
      <4>2. CASE u = t
        BY <2>3, <2>4, <4>1, <4>2 DEF Holds
      <4>3. QED BY <2>3, <4>1, <4>2
    <3>2. QED BY <2>1, <3>1 DEF Feed, CopyInv
  <2>7. LatestInv'
    <3> SUFFICES ASSUME NEW u \in Ids
                 PROVE  \/ copy'[u].version = row'[u].version
                        \/ \E q \in Requests : Pending(q)' /\ answer'[q].id = u /\ answer'[q].version = row'[u].version
      BY DEF LatestInv
    <3>1. CASE u = t
      BY <2>1, <2>2, <2>3, <3>1
    <3>2. CASE u # t /\ copy[u].version # row[u].version
      <4>1. PICK q \in Requests : Pending(q) /\ answer[q].id = u /\ answer[q].version = row[u].version
        BY <3>2 DEF Feed, LatestInv
      <4>2. q # r
        BY <2>1, <4>1
      <4>3. QED BY <1>2, <2>3, <3>2, <4>1, <4>2
    <3>3. QED BY <2>1, <2>3, <3>1, <3>2
  <2>8. JoinInv'
    <3> SUFFICES ASSUME NEW q \in Requests, at'[q] = "joining" PROVE ~row'[op'[q].id].archived
      BY DEF JoinInv
    <3>1. q # r
      BY <2>1
    <3>2. /\ at[q] = "joining" /\ op'[q] = op[q]
          /\ op[q].id \in Ids /\ Is(op[q].id) /\ ~RowFree(op[q].id) /\ ~row[op[q].id].archived
      BY <1>2, <1>3, <3>1 DEF Feed, JoinInv
    <3>3. QED BY <2>2, <2>3, <3>2
  <2>9. QED BY <2>5, <2>6, <2>7, <2>8 DEF Feed
<1>6. QED BY <1>4, <1>5

\* A client that applies a frame has, of its ticket, the newer of the two
\* versions, and of the latest the truth.
LEMMA PublishFeed ==
  ASSUME Core, Feed, NEW r \in Requests, Publish(r)
  PROVE  Feed'
<1> DEFINE f == answer[r]
           t == f.id
           held == copy[t]
           takes == f.version > held.version \/ (f.type = "archived" /\ f.version = held.version)
<1>1. /\ at[r] = "committed" /\ at' = [at EXCEPT ![r] = "done"]
      /\ UNCHANGED <<row, op, answer>>
      /\ copy' = [copy EXCEPT ![t] = IF takes THEN [version |-> f.version, there |-> f.type # "archived", text |-> f.text, labels |-> f.labels]
                                               ELSE held]
  BY DEF Publish, Step, Receive
<1>2. Pending(r)
  BY <1>1 DEF Pending
<1>3. t \in Ids /\ f.version \in Nat /\ TellsOf(f, row[t])
  BY <1>2 DEF Feed, FramesInv
<1>4. DOMAIN copy = Ids /\ \A u \in Ids : Holds(copy[u], row[u])
  BY DEF Feed, CopyInv
<1>5. row \in [Ids -> Rows] /\ row[t].version \in Nat /\ DOMAIN at = Requests
  BY <1>3 DEF Core, TypeInv, Rows
<1>6. at'[r] = "done" /\ \A q \in Requests \ {r} : at'[q] = at[q]
  BY <1>1, <1>5
<1>7. \A q \in Requests : (Pending(q)' => Pending(q)) /\ (Pending(q) /\ q # r => Pending(q)')
  BY <1>2, <1>6 DEF Pending
<1>8. \A u \in Ids \ {t} : copy'[u] = copy[u]
  BY <1>1, <1>4
<1>9. copy'[t] = IF takes THEN [version |-> f.version, there |-> f.type # "archived", text |-> f.text, labels |-> f.labels] ELSE held
  BY <1>1, <1>3, <1>4
<1>10. Holds(held, row[t])
  BY <1>3, <1>4
<1> HIDE DEF f, t, held
<1>11. CASE takes
  <2>1. copy'[t].version = f.version /\ copy'[t].there = (f.type # "archived") /\ copy'[t].text = f.text
    BY <1>9, <1>11
  <2>2. f.version >= held.version
    BY <1>3, <1>10, <1>11 DEF Holds
  <2>3. Holds(copy'[t], row[t])
    <3>1. f.version <= row[t].version
      BY <1>3 DEF TellsOf
    <3>2. ASSUME f.version = row[t].version
          PROVE  /\ copy'[t].there = (row[t].version > 0 /\ ~row[t].archived)
                 /\ copy'[t].text = row[t].text
      <4>1. (f.type = "archived" <=> row[t].archived) /\ f.text = row[t].text
        BY <1>3, <3>2 DEF TellsOf
      <4>2. row[t].version > 0 \/ f.type = "archived"
        BY <1>3, <1>5, <1>10, <1>11, <3>2 DEF Holds
      <4>3. row[t].archived \in BOOLEAN
        BY <1>3, <1>5 DEF Rows
      <4>4. QED BY <2>1, <4>1, <4>2, <4>3
    <3>3. QED BY <1>3, <2>1, <3>1, <3>2 DEF Holds
  <2>4. CopyInv'
    BY <1>1, <1>3, <1>4, <1>8, <2>3 DEF CopyInv
  <2>5. LatestInv'
    <3> SUFFICES ASSUME NEW u \in Ids
                 PROVE  \/ copy'[u].version = row'[u].version
                        \/ \E q \in Requests : Pending(q)' /\ answer'[q].id = u /\ answer'[q].version = row'[u].version
      BY DEF LatestInv
    <3>1. CASE copy[u].version = row[u].version
      <4>1. CASE u = t
        <5>1. held.version = row[t].version
          BY <3>1, <4>1 DEF held
        <5>2. f.version = row[t].version
          BY <1>3, <1>5, <2>2, <5>1 DEF TellsOf
        <5>3. QED BY <1>1, <2>1, <4>1, <5>2
      <4>2. QED BY <1>1, <1>8, <3>1, <4>1
    <3>2. CASE copy[u].version # row[u].version
      <4>1. PICK q \in Requests : Pending(q) /\ answer[q].id = u /\ answer[q].version = row[u].version
        BY <3>2 DEF Feed, LatestInv
      <4>2. CASE q = r
        BY <1>1, <2>1, <4>1, <4>2 DEF f, t
      <4>3. CASE q # r
        BY <1>1, <1>7, <4>1, <4>3
      <4>4. QED BY <4>2, <4>3
    <3>3. QED BY <3>1, <3>2
  <2>6. QED BY <2>4, <2>5, <1>1, <1>6, <1>7 DEF Feed, FramesInv, JoinInv
<1>12. CASE ~takes
  <2>1. \A u \in Ids : copy'[u] = copy[u]
    BY <1>8, <1>9, <1>12 DEF held
  <2>2. CopyInv'
    BY <1>1, <1>4, <2>1 DEF CopyInv
  <2>3. LatestInv'
    <3> SUFFICES ASSUME NEW u \in Ids, copy[u].version # row[u].version
                 PROVE  \E q \in Requests : Pending(q)' /\ answer'[q].id = u /\ answer'[q].version = row'[u].version
      BY <1>1, <2>1 DEF LatestInv
    <3>1. PICK q \in Requests : Pending(q) /\ answer[q].id = u /\ answer[q].version = row[u].version
      BY DEF Feed, LatestInv
    <3>2. CASE q = r
      <4>1. u = t /\ f.version = row[t].version /\ held.version # row[t].version
        BY <3>1, <3>2 DEF f, t, held
      <4>2. held.version < f.version
        BY <1>3, <1>5, <1>10, <4>1 DEF Holds
      <4>3. QED BY <1>12, <4>2
    <3>3. CASE q # r
      BY <1>1, <1>7, <3>1, <3>3
    <3>4. QED BY <3>2, <3>3
  <2>4. QED BY <2>2, <2>3, <1>1, <1>6, <1>7 DEF Feed, FramesInv, JoinInv
<1>13. QED BY <1>11, <1>12

\* The client starts with the tickets there are.
LEMMA InitFeed == Init => Feed
<1> SUFFICES ASSUME Init PROVE Feed OBVIOUS
<1>1. \A r \in Requests : at[r] = "idle"
  BY DEF Init
<1>2. row \in [Ids -> Rows]
  BY InitTypeInv DEF TypeInv
<1>3. CopyInv
  <2>1. DOMAIN copy = Ids
    BY DEF Init
  <2>2. \A t \in Ids : copy[t] = CopyOf(row[t])
    BY DEF Init
  <2>3. \A t \in Ids : Holds(CopyOf(row[t]), row[t])
    BY <1>2 DEF Holds, CopyOf, Rows
  <2>4. QED BY <2>1, <2>2, <2>3 DEF CopyInv
<1>4. LatestInv
  BY DEF Init, LatestInv, CopyOf
<1>5. QED BY <1>1, <1>3, <1>4 DEF Feed, FramesInv, JoinInv, Pending

\* Every step keeps the feed.
LEMMA NextFeed == Core /\ Feed /\ [Next]_vars => Feed'
<1> SUFFICES ASSUME Core, Feed, [Next]_vars PROVE Feed' OBVIOUS
<1>1. Core'
  BY NextCore
<1>2. ASSUME NEW r \in Requests, Ask(r) \/ Write(r) \/ PublishFails(r) PROVE Alone(r)
  <2>1. CASE Ask(r)
    BY <2>1, AskShape DEF Core
  <2>2. CASE Write(r) \/ PublishFails(r)
    BY <2>2, ActShape DEF Core
  <2>3. QED BY <1>2, <2>1, <2>2
<1>3. ASSUME NEW r \in Requests, Ask(r) \/ Write(r) PROVE Feed'
  <2>1. TypeInv /\ JoinInv
    BY DEF Core, Feed
  <2>2. Announces(r) \/ Silent(r)
    BY <1>3, <2>1, CreateAnnounces, UpdateAnnounces, SetArchivedAnnounces, MembersAnnounce, RestSilent DEF Write
  <2>3. at'[r] = "joining" => ~row'[op'[r].id].archived
    <3> SUFFICES ASSUME at'[r] = "joining" PROVE ~row'[op'[r].id].archived
      OBVIOUS
    <3>1. JoinLock(r)
      BY <1>3, <2>1 DEF Write, Ask, Create, CreateConflicts, AfterEmptyInsert, Wait, Update, SetArchived, NoMatch,
                 NoRow, Join, LeaveDelete, Leave, Deadlock, Step, TypeInv
    <3>2. Live(op[r].id) /\ UNCHANGED <<row, op>>
      BY <2>1, <3>1 DEF JoinLock, Step, TypeInv
    <3>3. QED BY <3>2 DEF Live
  <2>4. QED BY <1>1, <1>2, <1>3, <2>2, <2>3, StepFeed
<1>4. ASSUME NEW r \in Requests, PublishFails(r) PROVE Feed'
  <2>1. at[r] = "committed" /\ at' = [at EXCEPT ![r] = "silent"] /\ UNCHANGED <<row, op, answer, copy>>
    BY <1>4 DEF PublishFails, Step
  <2>2. \A q \in Requests : (Pending(q)' <=> Pending(q)) /\ (at'[q] = "joining" => at[q] = "joining")
    BY <2>1 DEF Pending, Core, TypeInv
  <2>3. QED BY <2>1, <2>2 DEF Feed, FramesInv, CopyInv, LatestInv, JoinInv
<1>5. CASE UNCHANGED vars
  BY <1>5 DEF vars, Feed, FramesInv, CopyInv, LatestInv, JoinInv, Pending
<1>6. QED BY <1>3, <1>4, <1>5, PublishFeed DEF Next, Finished

\* When no frame is on its way the client has the tickets there are, whatever
\* order the frames came in and whoever committed first (docs/realtime.md:127-130).
THEOREM ClientGetsThere == Spec => []ClientConverges
<1>1. Core /\ Feed => ClientConverges
  <2> SUFFICES ASSUME Core, Feed, Settled, NEW t \in Ids
               PROVE  /\ copy[t].version = row[t].version
                      /\ copy[t].there = Live(t)
                      /\ copy[t].there => copy[t].text = row[t].text
    BY DEF ClientConverges
  <2>1. copy[t].version = row[t].version
    BY DEF Feed, LatestInv, Settled, Pending
  <2>2. Holds(copy[t], row[t])
    BY DEF Feed, CopyInv
  <2>3. QED BY <2>1, <2>2 DEF Holds, Live, Is
<1>2. QED BY <1>1, InitCore, NextCore, InitFeed, NextFeed, PTL DEF Spec
-----------------------------------------------------------------------------
(* Reading a history                                                       *)

\* A set of naturals has a least member.
LEMMA LeastMember ==
  ASSUME NEW S, S \subseteq Nat, S # {}
  PROVE  \E m \in S : \A u \in S : m <= u
<1> DEFINE Before == {ss \in Nat \X Nat : ss[1] < ss[2]}
<1>1. IsWellFoundedOn(Before, Nat)
  BY NatLessThanWellFounded DEF OpToRel
<1>2. \A u, n \in Nat : u < n => <<u, n>> \in Before
  OBVIOUS
<1> HIDE DEF Before
<1>3. PICK m \in S : \A u \in S : ~ (<<u, m>> \in Before)
  BY <1>1, WFMin
<1>4. \A u \in S : u \in Nat /\ m \in Nat /\ ~(u < m)
  BY <1>2, <1>3
<1>5. QED BY <1>4

\* h is what a reader knows after each of the first n entries of l.
Reads(h, s, l, n) == h = [i \in 0 .. n |-> IF i = 0 THEN s ELSE Tell(h[i - 1], l[i])]

\* A history can be read as far as one likes.
LEMMA CanRead ==
  ASSUME NEW s, NEW l, NEW n \in Nat
  PROVE  \E h : Reads(h, s, l, n)
<1> DEFINE Unread == {k \in Nat : ~ \E h : Reads(h, s, l, k)}
<1>1. SUFFICES ASSUME Unread # {} PROVE FALSE
  OBVIOUS
<1>2. PICK k \in Unread : \A u \in Unread : k <= u
  BY <1>1, LeastMember
<1>3. k # 0
  <2> DEFINE h == [i \in 0 .. 0 |-> s]
  <2>1. h = [i \in 0 .. 0 |-> IF i = 0 THEN s ELSE Tell(h[i - 1], l[i])]
    OBVIOUS
  <2>2. Reads(h, s, l, 0)
    BY <2>1 DEF Reads
  <2>3. QED BY <2>2
<1>4. k - 1 \in Nat /\ k - 1 \notin Unread
  BY <1>2, <1>3
<1>5. PICK h : Reads(h, s, l, k - 1)
  BY <1>4
<1> DEFINE g == [i \in 0 .. k |-> IF i = k THEN Tell(h[k - 1], l[k]) ELSE h[i]]
<1>6. \A i \in 0 .. k - 1 : h[i] = IF i = 0 THEN s ELSE Tell(h[i - 1], l[i])
  BY <1>4, <1>5 DEF Reads
<1>7. \A i \in 0 .. k : g[i] = IF i = 0 THEN s ELSE Tell(g[i - 1], l[i])
  <2> TAKE i \in 0 .. k
  <2>1. CASE i = k
    <3>1. g[i] = Tell(h[k - 1], l[k]) /\ g[i - 1] = h[k - 1]
      BY <1>2, <1>3, <2>1
    <3>2. QED BY <1>3, <2>1, <3>1
  <2>2. CASE i # k
    <3>1. i \in 0 .. k - 1 /\ g[i] = h[i] /\ (i # 0 => g[i - 1] = h[i - 1])
      BY <1>2, <2>2
    <3>2. QED BY <1>6, <3>1
  <2>3. QED BY <2>1, <2>2
<1>8. g = [i \in 0 .. k |-> IF i = 0 THEN s ELSE Tell(g[i - 1], l[i])]
  <2> DEFINE f == [i \in 0 .. k |-> IF i = 0 THEN s ELSE Tell(g[i - 1], l[i])]
  <2>1. \A i \in 0 .. k : g[i] = f[i]
    BY <1>7
  <2>2. DOMAIN g = 0 .. k /\ DOMAIN f = 0 .. k /\ g = [i \in DOMAIN g |-> g[i]] /\ f = [i \in DOMAIN f |-> f[i]]
    OBVIOUS
  <2> HIDE DEF f, g
  <2>3. f = g
    BY <2>1, <2>2
  <2>4. QED BY <2>3 DEF f
<1> HIDE DEF g
<1>9. Reads(g, s, l, k)
  BY <1>8 DEF Reads
<1>10. QED BY <1>2, <1>9

\* What a reader is told in the end is what one knows after the last entry.
LEMMA TaleRead ==
  ASSUME NEW s, NEW l, Len(l) \in Nat
  PROVE  \E h : Reads(h, s, l, Len(l)) /\ Tale(s, l) = h[Len(l)]
<1> DEFINE told == CHOOSE h : h = [i \in 0 .. Len(l) |-> IF i = 0 THEN s ELSE Tell(h[i - 1], l[i])]
<1>1. Reads(told, s, l, Len(l))
  BY CanRead DEF Reads
<1>2. Tale(s, l) = told[Len(l)]
  BY DEF Tale
<1>3. QED BY <1>1, <1>2

\* Reading on: what more entries make of what was known.
LEMMA TaleGoesOn ==
  ASSUME NEW E, NEW s, NEW l \in Seq(E), NEW m \in Seq(E)
  PROVE  \E h : /\ h[0] = Tale(s, l)
                /\ \A i \in 1 .. Len(m) : h[i] = Tell(h[i - 1], m[i])
                /\ Tale(s, l \o m) = h[Len(m)]
<1>1. /\ l \o m \in Seq(E) /\ Len(l) \in Nat /\ Len(m) \in Nat /\ Len(l \o m) = Len(l) + Len(m)
      /\ \A i \in 1 .. Len(l) : (l \o m)[i] = l[i]
      /\ \A i \in 1 .. Len(m) : (l \o m)[Len(l) + i] = m[i]
  BY ConcatProperties, LenProperties
<1>2. PICK a : Reads(a, s, l, Len(l)) /\ Tale(s, l) = a[Len(l)]
  BY <1>1, TaleRead
<1>3. PICK b : Reads(b, s, l \o m, Len(l \o m)) /\ Tale(s, l \o m) = b[Len(l \o m)]
  <2>1. Len(l \o m) \in Nat
    BY <1>1
  <2>2. QED BY <2>1, TaleRead, Zenon
<1>4. \A i \in 0 .. Len(l) : a[i] = IF i = 0 THEN s ELSE Tell(a[i - 1], l[i])
  BY <1>2 DEF Reads
<1>5. \A i \in 0 .. Len(l) + Len(m) : b[i] = IF i = 0 THEN s ELSE Tell(b[i - 1], (l \o m)[i])
  BY <1>1, <1>3 DEF Reads
<1> DEFINE Differ == {i \in 0 .. Len(l) : a[i] # b[i]}
<1>6. Differ = {}
  <2>1. SUFFICES ASSUME Differ # {} PROVE FALSE
    OBVIOUS
  <2>0. Differ \subseteq Nat
    BY <1>1
  <2>2. PICK i \in Differ : \A u \in Differ : i <= u
    <3> HIDE DEF Differ
    <3>1. QED BY <2>0, <2>1, LeastMember
  <2>3. a[0] = s /\ b[0] = s
    BY <1>1, <1>4, <1>5
  <2>4. i # 0 /\ i \in 1 .. Len(l) /\ i - 1 \in 0 .. Len(l) /\ i \in 0 .. Len(l) + Len(m)
    BY <1>1, <2>2, <2>3
  <2>5. a[i - 1] = b[i - 1]
    BY <2>2, <2>4
  <2>6. a[i] = Tell(a[i - 1], l[i]) /\ b[i] = Tell(b[i - 1], l[i])
    BY <1>1, <1>4, <1>5, <2>4
  <2>7. QED BY <2>2, <2>5, <2>6
<1> DEFINE h == [i \in 0 .. Len(m) |-> b[Len(l) + i]]
<1>7. h[0] = Tale(s, l)
  <2>1. h[0] = b[Len(l)] /\ Len(l) \in 0 .. Len(l)
    BY <1>1
  <2>2. QED BY <1>2, <1>6, <2>1
<1>8. \A i \in 1 .. Len(m) : h[i] = Tell(h[i - 1], m[i])
  <2> TAKE i \in 1 .. Len(m)
  <2>1. Len(l) + i \in 0 .. Len(l) + Len(m) /\ Len(l) + i # 0 /\ Len(l) + i - 1 = Len(l) + (i - 1)
        /\ i \in 0 .. Len(m) /\ i - 1 \in 0 .. Len(m)
    BY <1>1
  <2>2. h[i] = b[Len(l) + i] /\ h[i - 1] = b[Len(l) + i - 1]
    BY <2>1
  <2>3. b[Len(l) + i] = Tell(b[Len(l) + i - 1], (l \o m)[Len(l) + i])
    BY <1>5, <2>1
  <2>4. QED BY <1>1, <2>2, <2>3
<1>9. h[Len(m)] = b[Len(l \o m)]
  BY <1>1
<1> HIDE DEF h
<1>10. QED BY <1>3, <1>7, <1>8, <1>9
\* A reader's idea x of a ticket agrees with it as it is now; that an archived
\* ticket left its sprint is not told.
Agrees(x, now) ==
    /\ {"text", "archived", "joined", "labels"} \subseteq DOMAIN x
    /\ x.text = now.text /\ x.archived \in BOOLEAN /\ (x.archived <=> now.archived)
    /\ now.joined => x.joined

IsLabelEntry(e) == e.kind \in {"label_added", "label_removed"}

\* No entry, no news.
LEMMA NothingTold ==
  ASSUME NEW s
  PROVE  Tale(s, <<>>) = s
<1>1. Len(<<>>) = 0 /\ <<>> \in Seq({})
  BY EmptySeq
<1>2. PICK h : Reads(h, s, <<>>, 0) /\ Tale(s, <<>>) = h[0]
  BY <1>1, TaleRead
<1>3. h[0] = s
  BY <1>2 DEF Reads
<1>4. QED BY <1>2, <1>3

\* One more entry.
LEMMA OneTold ==
  ASSUME NEW E, NEW s, NEW l \in Seq(E), NEW e \in E
  PROVE  Tale(s, l \o <<e>>) = Tell(Tale(s, l), e)
<1>1. <<e>> \in Seq(E) /\ Len(<<e>>) = 1 /\ <<e>>[1] = e
  OBVIOUS
<1> DEFINE m == <<e>>
<1>2. m \in Seq(E) /\ Len(m) = 1 /\ m[1] = e
  BY <1>1
<1> HIDE DEF m
<1>3. PICK h : /\ h[0] = Tale(s, l)
               /\ \A i \in 1 .. Len(m) : h[i] = Tell(h[i - 1], m[i])
               /\ Tale(s, l \o m) = h[Len(m)]
  BY <1>2, TaleGoesOn
<1>4. h[1] = Tell(h[0], m[1])
  <2>1. 1 \in 1 .. Len(m) /\ 1 - 1 = 0
    BY <1>2
  <2>2. QED BY <1>3, <2>1
<1>5. QED BY <1>2, <1>3, <1>4 DEF m

\* Entries about labels tell of labels only.
LEMMA LabelsTold ==
  ASSUME NEW E, NEW s, NEW l \in Seq(E), NEW m \in Seq(E), NEW now,
         \A i \in 1 .. Len(m) : IsLabelEntry(m[i]),
         Agrees(Tale(s, l), now)
  PROVE  Agrees(Tale(s, l \o m), now)
<1>1. PICK h : /\ h[0] = Tale(s, l)
               /\ \A i \in 1 .. Len(m) : h[i] = Tell(h[i - 1], m[i])
               /\ Tale(s, l \o m) = h[Len(m)]
  BY TaleGoesOn
<1>2. Len(m) \in Nat
  BY LenProperties
<1> DEFINE Wrong == {i \in 0 .. Len(m) : ~Agrees(h[i], now)}
<1>3. Wrong = {}
  <2>1. SUFFICES ASSUME Wrong # {} PROVE FALSE
    OBVIOUS
  <2>2. Wrong \subseteq Nat
    BY <1>2
  <2>3. PICK i \in Wrong : \A u \in Wrong : i <= u
    <3> HIDE DEF Wrong
    <3>1. QED BY <2>1, <2>2, LeastMember
  <2>4. i # 0
    BY <1>1, <2>3
  <2>5. i \in 1 .. Len(m) /\ i - 1 \in 0 .. Len(m) /\ ~(i <= i - 1)
    BY <1>2, <2>3, <2>4
  <2>6. Agrees(h[i - 1], now)
    BY <2>3, <2>5
  <2>7. h[i] = Tell(h[i - 1], m[i]) /\ IsLabelEntry(m[i])
    BY <1>1, <2>5
  <2> DEFINE x == h[i - 1]
             e == m[i]
  <2>8. Tell(x, e) = [x EXCEPT !.labels = @ \cup {e.after}] \/ Tell(x, e) = [x EXCEPT !.labels = @ \ {e.before}]
    <3> HIDE DEF x
    <3>1. IsLabelEntry(e)
      BY <2>7
    <3> HIDE DEF e
    <3>2. QED BY <3>1 DEF Tell, IsLabelEntry
  <2>9. Agrees(x, now)
    BY <2>6
  <2> HIDE DEF x, e
  <2>10. Agrees(Tell(x, e), now)
    BY <2>8, <2>9 DEF Agrees
  <2>11. Agrees(h[i], now)
    BY <2>7, <2>10 DEF x, e
  <2>12. QED BY <2>3, <2>11
<1>4. Len(m) \in 0 .. Len(m)
  BY <1>2
<1>5. QED BY <1>1, <1>3, <1>4
EntryKinds == {"created", "field_changed", "label_added", "label_removed", "archived", "unarchived",
               "sprint_added", "sprint_removed"}
Entries == [kind : EntryKinds, before : Texts \cup Labels \cup {Nil}, after : Texts \cup Labels \cup {Nil}]

\* What is written of a finite set is of its members.
LEMMA SetInSequence ==
  ASSUME NEW E, NEW S \in SUBSET E, IsFiniteSet(S)
  PROVE  SetToSeq(S) \in Seq(E) /\ \A i \in 1 .. Len(SetToSeq(S)) : SetToSeq(S)[i] \in S
<1>1. Cardinality(S) \in Nat /\ ExistsBijection(1 .. Cardinality(S), S)
  BY FS_CardinalityType
<1>2. PICK f : f \in Bijection(1 .. Cardinality(S), S)
  BY <1>1 DEF ExistsBijection
<1>3. f \in [1 .. Cardinality(S) -> S] /\ IsInjective(f)
  BY <1>2 DEF Bijection, Injection, IsInjective
<1>4. SetToSeq(S) \in [1 .. Cardinality(S) -> S]
  BY <1>3 DEF SetToSeq
<1>5. SetToSeq(S) \in Seq(S) /\ Len(SetToSeq(S)) = Cardinality(S)
  BY <1>1, <1>4
<1>6. QED BY <1>1, <1>4, <1>5, SeqMonotonic

\* Labels given and taken make entries about labels.
LEMMA LabelEntries ==
  ASSUME NEW S \in SUBSET Labels,
         NEW k \in {"label_added", "label_removed"}, NEW T, T = {Entry(k, Nil, x) : x \in S} \/ T = {Entry(k, x, Nil) : x \in S}
  PROVE  SetToSeq(T) \in Seq(Entries) /\ \A i \in 1 .. Len(SetToSeq(T)) : IsLabelEntry(SetToSeq(T)[i])
<1>1. IsFiniteSet(S)
  BY TicketsAssumption, FS_Subset
<1>2. CASE T = {Entry(k, Nil, x) : x \in S}
  <2>1. [e \in T |-> e.after] \in Injection(T, S)
    BY <1>2 DEF Injection, IsInjective, Entry
  <2>2. IsFiniteSet(T)
    BY <1>1, <2>1, FS_Injection
  <2>3. \A e \in T : e \in Entries /\ IsLabelEntry(e)
    BY <1>2 DEF Entries, EntryKinds, Entry, IsLabelEntry
  <2>4. QED BY <2>2, <2>3, SetInSequence
<1>3. CASE T = {Entry(k, x, Nil) : x \in S}
  <2>1. [e \in T |-> e.before] \in Injection(T, S)
    BY <1>3 DEF Injection, IsInjective, Entry
  <2>2. IsFiniteSet(T)
    BY <1>1, <2>1, FS_Injection
  <2>3. \A e \in T : e \in Entries /\ IsLabelEntry(e)
    BY <1>3 DEF Entries, EntryKinds, Entry, IsLabelEntry
  <2>4. QED BY <2>2, <2>3, SetInSequence
<1>4. QED BY <1>2, <1>3

\* An edit's entries take a reader from the ticket before to the ticket after.
LEMMA DiffTold ==
  ASSUME NEW s, NEW l \in Seq(Entries), NEW before, NEW now,
         before.text \in Texts \cup {Nil}, now.text \in Texts,
         before.labels \in SUBSET Labels, now.labels \in SUBSET Labels,
         now.archived <=> before.archived, now.joined => before.joined,
         Agrees(Tale(s, l), before)
  PROVE  Diff(before, now) \in Seq(Entries) /\ Agrees(Tale(s, l \o Diff(before, now)), now)
<1> DEFINE a == IF before.text = now.text THEN <<>> ELSE <<Entry("field_changed", before.text, now.text)>>
           b == SetToSeq({Entry("label_added", Nil, x) : x \in now.labels \ before.labels})
           c == SetToSeq({Entry("label_removed", x, Nil) : x \in before.labels \ now.labels})
           e == Entry("field_changed", before.text, now.text)
<1>1. e \in Entries
  BY DEF Entry, Entries, EntryKinds
<1>2. a \in Seq(Entries)
  <2> HIDE DEF e
  <2>1. <<e>> \in Seq(Entries) /\ <<>> \in Seq(Entries)
    BY <1>1
  <2>2. a = <<>> \/ a = <<e>>
    BY DEF e
  <2>3. QED BY <2>1, <2>2
<1>3. b \in Seq(Entries) /\ \A i \in 1 .. Len(b) : IsLabelEntry(b[i])
  <2>1. now.labels \ before.labels \in SUBSET Labels
    OBVIOUS
  <2>2. QED BY <2>1, LabelEntries
<1>4. c \in Seq(Entries) /\ \A i \in 1 .. Len(c) : IsLabelEntry(c[i])
  <2>1. before.labels \ now.labels \in SUBSET Labels
    OBVIOUS
  <2>2. QED BY <2>1, LabelEntries
<1>5. Diff(before, now) = (a \o b) \o c
  BY DEF Diff
<1>6. Agrees(Tale(s, l \o a), now)
  <2>1. CASE before.text = now.text
    <3>1. l \o a = l
      BY <2>1
    <3>2. QED BY <2>1, <3>1 DEF Agrees
  <2>2. CASE before.text # now.text
    <3>1. Tale(s, l \o <<e>>) = Tell(Tale(s, l), e)
      BY <1>1, OneTold
    <3> DEFINE x == Tale(s, l)
    <3>2. e.kind = "field_changed" /\ e.before = before.text /\ e.after = now.text
      BY DEF Entry
    <3>3. Agrees(x, before)
      OBVIOUS
    <3> HIDE DEF x, e
    <3>4. Tell(x, e) = [x EXCEPT !.text = IF @ = e.before THEN e.after ELSE Nil]
      BY <3>2 DEF Tell
    <3>5. Agrees(Tell(x, e), now)
      BY <3>2, <3>3, <3>4 DEF Agrees
    <3>6. QED BY <2>2, <3>1, <3>5 DEF x, e
  <2>3. QED BY <2>1, <2>2
<1> HIDE DEF a, b, c
<1>7. l \o a \in Seq(Entries) /\ (l \o a) \o b \in Seq(Entries) /\ (a \o b) \o c \in Seq(Entries)
  BY <1>2, <1>3, <1>4, ConcatProperties
<1>8. Agrees(Tale(s, (l \o a) \o b), now)
  BY <1>3, <1>6, <1>7, LabelsTold
<1>9. Agrees(Tale(s, ((l \o a) \o b) \o c), now)
  BY <1>4, <1>7, <1>8, LabelsTold
<1>10. l \o ((a \o b) \o c) = ((l \o a) \o b) \o c
  <2>1. PICK u \in Seq(Entries), v \in Seq(Entries), w \in Seq(Entries) : u = a /\ v = b /\ w = c
    BY <1>2, <1>3, <1>4
  <2>2. l \o ((u \o v) \o w) = ((l \o u) \o v) \o w
    BY SMT
  <2>3. QED BY <2>1, <2>2
<1>11. QED BY <1>5, <1>7, <1>9, <1>10
\* An entry of a ticket archived, restored, or of its sprint.
LEMMA EntryTold ==
  ASSUME NEW s, NEW l \in Seq(Entries), NEW old, NEW new,
         NEW k \in {"archived", "unarchived", "sprint_added", "sprint_removed"},
         Agrees(Tale(s, l), old), new.text = old.text,
         k = "archived" => new.archived /\ (new.joined => old.joined),
         k = "unarchived" => ~new.archived /\ (new.joined => old.joined),
         k \in {"sprint_added", "sprint_removed"} => (new.archived <=> old.archived),
         k = "sprint_removed" => ~new.joined
  PROVE  /\ <<Entry(k, Nil, Nil)>> \in Seq(Entries)
         /\ Agrees(Tale(s, l \o <<Entry(k, Nil, Nil)>>), new)
<1> DEFINE e == Entry(k, Nil, Nil)
           x == Tale(s, l)
<1>1. e \in Entries /\ e.kind = k
  BY DEF Entry, Entries, EntryKinds
<1>2. Agrees(x, old)
  OBVIOUS
<1> HIDE DEF e
<1>3. <<e>> \in Seq(Entries)
  BY <1>1
<1>4. Tale(s, l \o <<e>>) = Tell(x, e)
  BY <1>1, OneTold
<1> HIDE DEF x
<1>5. CASE k = "archived"
  <2>1. Tell(x, e) = [x EXCEPT !.archived = TRUE]
    BY <1>1, <1>5 DEF Tell
  <2>2. Agrees(Tell(x, e), new)
    BY <1>2, <1>5, <2>1 DEF Agrees
  <2>3. QED BY <1>3, <1>4, <2>2 DEF e
<1>6. CASE k = "unarchived"
  <2>1. Tell(x, e) = [x EXCEPT !.archived = FALSE]
    BY <1>1, <1>6 DEF Tell
  <2>2. Agrees(Tell(x, e), new)
    BY <1>2, <1>6, <2>1 DEF Agrees
  <2>3. QED BY <1>3, <1>4, <2>2 DEF e
<1>7. CASE k = "sprint_added"
  <2>1. Tell(x, e) = [x EXCEPT !.joined = TRUE]
    BY <1>1, <1>7 DEF Tell
  <2>2. Agrees(Tell(x, e), new)
    BY <1>2, <1>7, <2>1 DEF Agrees
  <2>3. QED BY <1>3, <1>4, <2>2 DEF e
<1>8. CASE k = "sprint_removed"
  <2>1. Tell(x, e) = [x EXCEPT !.joined = FALSE]
    BY <1>1, <1>8 DEF Tell
  <2>2. Agrees(Tell(x, e), new)
    BY <1>2, <1>8, <2>1 DEF Agrees
  <2>3. QED BY <1>3, <1>4, <2>2 DEF e
<1>9. QED BY <1>5, <1>6, <1>7, <1>8

\* The history of every ticket leads to it; that of one not made yet is empty.
TaleInv ==
    /\ DOMAIN log = Ids /\ DOMAIN first = Ids
    /\ \A t \in Ids : log[t] \in Seq(Entries)
    /\ \A t \in Ids : ~Is(t) => log[t] = <<>>
    /\ \A t \in Ids : Agrees(Tale(first[t], log[t]), row[t])

\* A write whose entries lead from the ticket that was to the one it leaves.
LEMMA WrittenTale ==
  ASSUME TypeInv, TaleInv, NEW t \in Ids, NEW new, NEW e \in Seq(Entries),
         row' = [row EXCEPT ![t] = new], log' = [log EXCEPT ![t] = @ \o e], UNCHANGED first,
         new.version > 0, Agrees(Tale(first[t], log[t] \o e), new)
  PROVE  TaleInv'
<1>1. \A u \in Ids : row'[u] = IF u = t THEN new ELSE row[u]
  BY DEF TypeInv
<1>2. \A u \in Ids : log'[u] = IF u = t THEN log[t] \o e ELSE log[u]
  BY DEF TaleInv
<1>3. log[t] \o e \in Seq(Entries)
  BY ConcatProperties DEF TaleInv
<1>4. DOMAIN log' = Ids /\ DOMAIN first' = Ids
  BY DEF TaleInv
<1>5. \A u \in Ids : log'[u] \in Seq(Entries)
  BY <1>2, <1>3 DEF TaleInv
<1>6. \A u \in Ids : ~(row'[u].version > 0) => log'[u] = <<>>
  BY <1>1, <1>2 DEF TaleInv, Is
<1>7. \A u \in Ids : Agrees(Tale(first'[u], log'[u]), row'[u])
  BY <1>1, <1>2 DEF TaleInv
<1>8. QED BY <1>4, <1>5, <1>6, <1>7 DEF TaleInv, Is

\* The history of a new ticket starts with the ticket.
LEMMA CreateTale ==
  ASSUME Core, TaleInv, NEW r \in Requests, Create(r)
  PROVE  TaleInv'
<1> DEFINE new == New(op[r].text, op[r].labels, FALSE, op[r].keyed)
           e == Entry("created", Nil, Nil)
<1>1. PICK t \in Ids :
        /\ ~ Is(t)
        /\ row' = [row EXCEPT ![t] = new] /\ log' = [log EXCEPT ![t] = @ \o <<e>>]
        /\ first' = [first EXCEPT ![t] = new]
  BY DEF Create, Commit
<1>2. new.version = 1 /\ ~new.joined /\ new.archived \in BOOLEAN /\ {"text", "archived", "joined", "labels"} \subseteq DOMAIN new
  BY DEF New
<1>3. e \in Entries /\ e.kind = "created"
  BY DEF Entry, Entries, EntryKinds
<1> HIDE DEF new, e
<1>4. log[t] = <<>> /\ log[t] \in Seq(Entries) /\ <<e>> \in Seq(Entries)
  BY <1>1, <1>3 DEF TaleInv
<1> DEFINE l == log[t]
<1>5. Tale(new, l \o <<e>>) = Tell(Tale(new, l), e)
  <2>1. l \in Seq(Entries) /\ e \in Entries
    BY <1>3, <1>4
  <2> HIDE DEF l
  <2>2. QED BY <2>1, OneTold
<1>6. Tell(new, e) = new
  BY <1>3 DEF Tell
<1>7. Tale(new, log[t] \o <<e>>) = new
  BY <1>4, <1>5, <1>6, NothingTold
<1>8. Agrees(Tale(new, log[t] \o <<e>>), new)
  BY <1>2, <1>7 DEF Agrees
<1>9. \A u \in Ids : /\ row'[u] = IF u = t THEN new ELSE row[u]
                     /\ log'[u] = IF u = t THEN log[t] \o <<e>> ELSE log[u]
                     /\ first'[u] = IF u = t THEN new ELSE first[u]
  BY <1>1 DEF TaleInv, Core, TypeInv
<1>10. log[t] \o <<e>> \in Seq(Entries)
  BY <1>4, ConcatProperties
<1>11. DOMAIN log' = Ids /\ DOMAIN first' = Ids
  BY <1>1 DEF TaleInv
<1>12. \A u \in Ids : log'[u] \in Seq(Entries)
  BY <1>9, <1>10 DEF TaleInv
<1>13. \A u \in Ids : ~(row'[u].version > 0) => log'[u] = <<>>
  BY <1>2, <1>9 DEF TaleInv, Is
<1>14. \A u \in Ids : Agrees(Tale(first'[u], log'[u]), row'[u])
  BY <1>8, <1>9 DEF TaleInv
<1>15. QED BY <1>11, <1>12, <1>13, <1>14 DEF TaleInv, Is
\* An edit tells of its text and labels; the labels it compares with may be old.
LEMMA UpdateTale ==
  ASSUME Core, TaleInv, NEW r \in Requests, Update(r)
  PROVE  TaleInv'
<1> DEFINE t == op[r].id
           l == IF op[r].labels = Nil THEN Bumped(t).labels ELSE op[r].labels
           new == Edited(t, op[r].text, l)
           before == [row[t] EXCEPT !.labels = seen[r].labels]
           s == first[t]
           told == log[t]
<1>1. /\ t \in Ids /\ op[r].text \in Texts /\ op[r].labels \in {Nil} \cup SUBSET Labels
      /\ row[t] \in Rows /\ seen[r] \in Rows
  BY DEF Update, Core, TypeInv, OpInv, Guarded
<1>2. l \in SUBSET Labels
  BY <1>1, WrittenRow DEF Rows, Core
<1>3. new = [Bumped(t) EXCEPT !.text = op[r].text, !.labels = IF op[r].labels = Nil THEN @ ELSE op[r].labels]
  BY DEF Edited
<1>4. Commit(r, t, new, Diff(before, new), {new.text}, Frame("updated", t, new, new.labels)) /\ UNCHANGED first
  <2> HIDE DEF l
  <2>1. QED BY <1>3, Zenon DEF Update
<1>5. /\ new \in Rows /\ new.version = row[t].version + 1 /\ new.archived = row[t].archived
      /\ new.text = op[r].text /\ new.labels = l
      /\ new.joined = row[t].joined
  <2>1. Bumped(t) \in Rows /\ Bumped(t).joined = row[t].joined
    BY <1>1, WrittenRow DEF Bumped, Rows, Core
  <2> HIDE DEF l
  <2>2. new.labels = l /\ new.joined = Bumped(t).joined
    BY <2>1 DEF Edited, Rows
  <2>3. QED BY <1>1, <1>2, <2>1, <2>2, EditedRow DEF Core
<1>6. /\ before.text = row[t].text /\ before.archived = row[t].archived /\ before.joined = row[t].joined
      /\ before.labels = seen[r].labels
  BY <1>1 DEF Rows
<1>7. row[t].version \in Nat /\ row[t].text \in Texts \cup {Nil} /\ seen[r].labels \in SUBSET Labels
  BY <1>1 DEF Rows
<1>8. told \in Seq(Entries) /\ Agrees(Tale(s, told), row[t])
  BY <1>1 DEF TaleInv
<1> HIDE DEF l, new, before, s, told
<1>9. Agrees(Tale(s, told), before)
  BY <1>6, <1>8 DEF Agrees
<1>10. Diff(before, new) \in Seq(Entries) /\ Agrees(Tale(s, told \o Diff(before, new)), new)
  BY <1>1, <1>2, <1>5, <1>6, <1>7, <1>8, <1>9, DiffTold
<1>11. row' = [row EXCEPT ![t] = new] /\ log' = [log EXCEPT ![t] = @ \o Diff(before, new)]
  BY <1>4 DEF Commit
<1>12. new.version > 0
  BY <1>5, <1>7
<1>13. Agrees(Tale(first[t], log[t] \o Diff(before, new)), new)
  BY <1>10 DEF s, told
<1>14. QED BY <1>1, <1>4, <1>10, <1>11, <1>12, <1>13, WrittenTale DEF Core

\* A step that writes one entry, that tells what it did to the ticket.
LEMMA EntryTale ==
  ASSUME Core, TaleInv, NEW t \in Ids, NEW new \in Rows, new.version = row[t].version + 1,
         NEW k \in {"archived", "unarchived", "sprint_added", "sprint_removed"},
         row' = [row EXCEPT ![t] = new], log' = [log EXCEPT ![t] = @ \o <<Entry(k, Nil, Nil)>>], UNCHANGED first,
         new.text = row[t].text,
         k = "archived" => new.archived /\ (new.joined => row[t].joined),
         k = "unarchived" => ~new.archived /\ (new.joined => row[t].joined),
         k \in {"sprint_added", "sprint_removed"} => (new.archived <=> row[t].archived),
         k = "sprint_removed" => ~new.joined
  PROVE  TaleInv'
<1> DEFINE s == first[t]
           l == log[t]
           e == <<Entry(k, Nil, Nil)>>
<1>1. l \in Seq(Entries) /\ Agrees(Tale(s, l), row[t])
  BY DEF TaleInv
<1>2. new.version > 0
  BY DEF Core, TypeInv, Rows
<1> HIDE DEF s, l
<1>3. e \in Seq(Entries) /\ Agrees(Tale(s, l \o e), new)
  BY <1>1, EntryTold
<1>4. log' = [log EXCEPT ![t] = @ \o e]
  OBVIOUS
<1> HIDE DEF e
<1>5. Agrees(Tale(first[t], log[t] \o e), new)
  BY <1>3 DEF s, l
<1>6. QED BY <1>2, <1>3, <1>4, <1>5, WrittenTale DEF Core

\* Archiving and restoring tell of it.
LEMMA SetArchivedTale ==
  ASSUME Core, TaleInv, NEW r \in Requests, SetArchived(r)
  PROVE  TaleInv'
<1> DEFINE t == op[r].id
           b == op[r].kind = "archive"
           k == IF b THEN "archived" ELSE "unarchived"
           new == [Bumped(t) EXCEPT !.archived = b]
<1>1. t \in Ids /\ b \in BOOLEAN
  BY DEF SetArchived, Core, TypeInv, OpInv, Guarded
<1>2. /\ row' = [row EXCEPT ![t] = new] /\ log' = [log EXCEPT ![t] = @ \o <<Entry(k, Nil, Nil)>>]
      /\ UNCHANGED first
  BY DEF SetArchived, Commit
<1>3. /\ new \in Rows /\ new.version = row[t].version + 1 /\ (new.archived <=> b)
      /\ new.text = row[t].text
  BY <1>1, WrittenRow DEF Core
<1>4. new.joined = row[t].joined
  BY <1>1 DEF Bumped, Core, TypeInv, Rows
<1>5. k \in {"archived", "unarchived"} /\ (k = "archived" <=> b)
  OBVIOUS
<1> HIDE DEF new, b, k
<1>6. QED BY <1>1, <1>2, <1>3, <1>4, <1>5, EntryTale

\* Joining a sprint tells of it.
LEMMA JoinTale ==
  ASSUME Core, TaleInv, NEW r \in Requests, Join(r), row' # row \/ log' # log \/ first' # first
  PROVE  TaleInv'
<1> DEFINE t == op[r].id
           new == [Bumped(t) EXCEPT !.joined = TRUE]
<1>1. t \in Ids
  BY DEF Join, Core, TypeInv, OpInv
<1>2. /\ row' = [row EXCEPT ![t] = new] /\ log' = [log EXCEPT ![t] = @ \o <<Entry("sprint_added", Nil, Nil)>>]
      /\ UNCHANGED first
  BY DEF Join, Commit, Refuse
<1>3. /\ new \in Rows /\ new.version = row[t].version + 1 /\ new.archived = row[t].archived
      /\ new.text = row[t].text
  BY <1>1, WrittenRow DEF Core
<1> HIDE DEF new
<1>4. QED BY <1>1, <1>2, <1>3, EntryTale

\* Leaving one tells of it, but of a ticket that is archived by then or was
\* when the statement began.
LEMMA LeaveTale ==
  ASSUME Core, TaleInv, NEW r \in Requests, Leave(r)
  PROVE  TaleInv'
<1> DEFINE t == op[r].id
           bumped == Live(t) /\ ~seen[r].archived
           left == [Bumped(t) EXCEPT !.joined = FALSE]
           kept == [row[t] EXCEPT !.joined = FALSE]
<1>1. t \in Ids /\ Is(t) /\ UNCHANGED first
  BY DEF Leave, Core, TypeInv, OpInv, IsInv
<1>2. CASE bumped
  <2>1. /\ row' = [row EXCEPT ![t] = left]
        /\ log' = [log EXCEPT ![t] = @ \o <<Entry("sprint_removed", Nil, Nil)>>]
    BY <1>2 DEF Leave, Commit
  <2>2. /\ left \in Rows /\ left.version = row[t].version + 1 /\ left.archived = row[t].archived
        /\ left.text = row[t].text
    BY <1>1, WrittenRow DEF Core
  <2>3. ~left.joined
    BY <1>1 DEF Bumped, Core, TypeInv, Rows
  <2> HIDE DEF left
  <2>4. QED BY <1>1, <2>1, <2>2, <2>3, EntryTale
<1>3. CASE ~bumped
  <2>1. row' = [row EXCEPT ![t] = kept] /\ log' = [log EXCEPT ![t] = @ \o <<>>]
    BY <1>3 DEF Leave, Commit
  <2>2. kept.version = row[t].version /\ kept.archived = row[t].archived /\ kept.text = row[t].text
    BY <1>1, WrittenRow DEF Core
  <2>3. ~kept.joined
    BY <1>1 DEF Core, TypeInv, Rows
  <2> DEFINE l == log[t]
  <2>4. l \in Seq(Entries) /\ Agrees(Tale(first[t], l), row[t])
    BY <1>1 DEF TaleInv
  <2>5. <<>> \in Seq(Entries) /\ l \o <<>> = l
    BY <2>4, EmptySeq, ConcatEmptySeq
  <2> HIDE DEF kept
  <2>6. Agrees(Tale(first[t], l \o <<>>), kept)
    BY <2>2, <2>3, <2>4, <2>5 DEF Agrees
  <2>7. kept.version > 0
    BY <1>1, <2>2 DEF Is
  <2>8. QED BY <1>1, <2>1, <2>5, <2>6, <2>7, WrittenTale DEF Core
<1>4. QED BY <1>2, <1>3

\* Every step leaves the histories true.
LEMMA NextTale == Core /\ TaleInv /\ [Next]_vars => TaleInv'
<1> SUFFICES ASSUME Core, TaleInv, [Next]_vars PROVE TaleInv' OBVIOUS
<1>1. CASE UNCHANGED <<row, log, first>>
  BY <1>1 DEF TaleInv, Is
<1>2. ASSUME NEW r \in Requests, Write(r) PROVE TaleInv'
  <2>1. CASE Create(r) \/ Update(r) \/ SetArchived(r) \/ Leave(r)
    BY <2>1, CreateTale, UpdateTale, SetArchivedTale, LeaveTale
  <2>2. CASE Join(r)
    BY <1>1, <2>2, JoinTale
  <2>3. CASE ~(Create(r) \/ Update(r) \/ SetArchived(r) \/ Leave(r) \/ Join(r))
    BY <1>1, <1>2, <2>3 DEF Write, CreateConflicts, AfterEmptyInsert, Wait, NoMatch, NoRow, JoinLock, LeaveDelete,
       Deadlock, Refuse
  <2>4. QED BY <2>1, <2>2, <2>3
<1>3. ASSUME NEW r \in Requests, Ask(r) \/ Publish(r) \/ PublishFails(r) PROVE TaleInv'
  BY <1>1, <1>3 DEF Ask, Publish, PublishFails
<1>4. CASE UNCHANGED vars
  BY <1>1, <1>4 DEF vars
<1>5. QED BY <1>2, <1>3, <1>4 DEF Next, Finished

\* Nothing has been told yet.
LEMMA InitTale == Init => TaleInv
<1> SUFFICES ASSUME Init PROVE TaleInv OBVIOUS
<1>1. row \in [Ids -> Rows] /\ first = row /\ log = [t \in Ids |-> <<>>]
  BY InitTypeInv DEF Init, TypeInv
<1>2. <<>> \in Seq(Entries)
  BY EmptySeq
<1>3. \A t \in Ids : Tale(first[t], log[t]) = row[t]
  BY <1>1, NothingTold
<1>4. \A t \in Ids : Agrees(row[t], row[t])
  BY <1>1 DEF Agrees, Rows
<1>5. QED BY <1>1, <1>2, <1>3, <1>4 DEF TaleInv

\* The history, read in the order it was written, leads to the ticket as it is,
\* for any number of writes and labels; only leaving a sprint while archived is
\* not in it (history.go:134-137, membership.go:137-140).
THEOREM HistoryIsTrue == Spec => []HistoryTellsTheTicket
<1>1. Core /\ TaleInv => HistoryTellsTheTicket
  <2> SUFFICES ASSUME Core, TaleInv, NEW t \in Ids
               PROVE  Told(t).text = row[t].text /\ Told(t).archived = row[t].archived /\ (row[t].joined => Told(t).joined)
    BY DEF HistoryTellsTheTicket
  <2>1. Agrees(Told(t), row[t])
    BY DEF TaleInv, Told
  <2>2. row[t].archived \in BOOLEAN
    BY DEF Core, TypeInv, Rows
  <2> DEFINE x == Told(t)
             y == row[t]
  <2>3. /\ x.text = y.text /\ (y.joined => x.joined)
        /\ x.archived \in BOOLEAN /\ y.archived \in BOOLEAN /\ (x.archived <=> y.archived)
    BY <2>1, <2>2 DEF Agrees
  <2> HIDE DEF x, y
  <2>4. x.archived = y.archived
    BY <2>3
  <2>5. QED BY <2>3, <2>4 DEF x, y
<1>2. QED BY <1>1, InitCore, NextCore, InitTale, NextTale, PTL DEF Spec
=============================================================================
