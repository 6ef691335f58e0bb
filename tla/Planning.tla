-------------------------------- MODULE Planning --------------------------------
(***************************************************************************)
(* What a project and a team are planned with: epics, sprints, milestones  *)
(* and labels (internal/epic, sprint, milestone, label), the settings      *)
(* (internal/setting), their handlers in internal/api, and a client of the *)
(* change feed that keeps a copy of them.                                  *)
(*                                                                         *)
(* These resources have no version.  A client replaces what it holds by    *)
(* the last frame it was sent, and a delete says nothing of the tickets    *)
(* that pointed at the resource: the client drops those references itself. *)
(* Each handler commits first and publishes afterwards, so the frames of   *)
(* two writes may be queued in the other order than the writes were made.  *)
(*                                                                         *)
(* The four packages have one shape and share one set of actions here;     *)
(* KindOf says which resource is which.  Frames are never lost: module Hub *)
(* has the subscriber that is dropped.  Left out: descriptions, colours,   *)
(* length limits, lists, archived tickets (module Tickets), and the replay *)
(* of a keyed create, which reads and publishes nothing (Idempotency).     *)
(***************************************************************************)
EXTENDS Integers, Sequences, FiniteSets, TLC

CONSTANTS
    Requests,     \* calls of the API, each of one operation
    Callers,      \* accounts
    Members,      \* those of the workspace
    Ids,          \* epics, sprints, milestones and labels
    KindOf,       \* what each of them is
    Cards,        \* tickets
    Titles,       \* names of resources
    Days,         \* dates
    Registry,     \* the setting keys: what each may be set on, "workspace" or "team"
    Stray,        \* keys of rows an older program left on the team
    Rows0,        \* the resources when the model starts
    Points0       \* what the tickets name then

Kinds == {"epic", "milestone", "sprint", "label"}
NoDay == 0
Keep == -1         \* a date the patch leaves alone
NoTitle == "none"  \* a name the patch leaves alone
Absent == "no row"
Scopes == {"workspace", "team"}

\* A resource before it is created, while it is there, and after its deletion.
Resources == [is : {"unborn", "there", "gone"}, name : Titles \cup {NoTitle},
              from : Days \cup {NoDay}, till : Days \cup {NoDay}]

ASSUME PlanningAssumption ==
    /\ Members \subseteq Callers
    /\ KindOf \in [Ids -> Kinds]
    /\ Days \subseteq Nat \ {NoDay}
    /\ Stray \cap DOMAIN Registry = {}
    /\ \A x \in Rows0 : x \in [Ids -> Resources]
    /\ \A x \in Points0 : x \in [Cards -> SUBSET Ids]

VARIABLES
    row,       \* the resources: [is, name, from, till]
    points,    \* per ticket, the resources its row and its join tables name
    version,   \* per ticket
    setting,   \* per scope and key: the stored value, or Absent
    feed,      \* frames queued for the client
    held,      \* the client's copy of the resources
    seen,      \* the client's copy of the tickets
    writes,    \* per resource, how many commits changed it
    told,      \* per resource, how many of them a published frame has reported
    crossed,   \* resources a frame of older data was published about
    behind,    \* per ticket, the labels its newest version was announced with from before a wait
    at, op, tx

stored == <<row, points, version, writes>>
client == <<held, seen>>
sent == <<feed, told, crossed, behind>>
planning == <<row, points, version, setting, feed, held, seen, writes, told, crossed, behind>>

NoOp == [kind |-> "none"]
\* What a ticket write adds and takes away, the labels its statement began
\* with, those of them (or missing from them) that are not so any more, and
\* what is to be announced.
NoTx == [new |-> {}, left |-> {}, labels |-> {}, behind |-> {}, frame |-> <<>>]

OfKind(s, k) == {i \in s : KindOf[i] = k}
\* The members of a ticket's body: its sprints are read with the sprint filter.
Body(s) == s \ OfKind(s, "sprint")

PlanningInit ==
    /\ row \in Rows0
    /\ points \in Points0
    /\ \A t \in Cards : \A i \in points[t] : row[i].is = "there"
    /\ version = [t \in Cards |-> 1]
    /\ setting = [s \in Scopes |-> [k \in DOMAIN Registry \cup Stray |->
                    IF s = "team" /\ k \in Stray THEN "left over" ELSE Absent]]
    /\ feed = <<>> /\ crossed = {} /\ behind = [t \in Cards |-> {}]
    /\ held = row
    /\ seen = [t \in Cards |-> [version |-> 1, points |-> Body(points[t])]]
    /\ writes = [i \in Ids |-> 0] /\ told = [i \in Ids |-> 0]
    /\ at = [r \in Requests |-> "idle"]
    /\ op = [r \in Requests |-> NoOp]
    /\ tx = [r \in Requests |-> NoTx]

Go(r, from, to) == at[r] = from /\ at' = [at EXCEPT ![r] = to]

End(r) ==
    /\ at' = [at EXCEPT ![r] = "done"]
    /\ op' = [op EXCEPT ![r] = NoOp]
    /\ tx' = [tx EXCEPT ![r] = NoTx]

Refuse(r) == End(r) /\ UNCHANGED planning

Asked(r, kind) == at[r] = "asked" /\ op[r].kind = kind

Reaches(r) == op[r].by \in Members

-----------------------------------------------------------------------------
(* Requests                                                                *)

\* The record o with the members of m, as o @@ m of TLC's module has them.
Extended(o, m) == [x \in DOMAIN o \cup DOMAIN m |-> IF x \in DOMAIN o THEN o[x] ELSE m[x]]

Asks(r, ops) ==
    /\ Go(r, "idle", "asked")
    /\ \E o \in ops, a \in Callers : op' = [op EXCEPT ![r] = Extended(o, [by |-> a])]
    /\ UNCHANGED <<planning, tx>>

Known(k) == {i \in OfKind(Ids, k) : row[i].is # "unborn"}
New(k) == {i \in OfKind(Ids, k) : /\ row[i].is = "unborn"
                                 /\ \A q \in Requests : op[q].kind = "create" => op[q].id # i}

\* A patch leaves a date alone, clears it or sets it, if there is such a date.
Patches(days) == {Keep} \cup (IF days = {NoDay} THEN {} ELSE days)

\* A create, an update of any of the members, a delete.
Writes(k, from, till) ==
    [kind : {"create"}, id : New(k), name : Titles, from : from, till : till]
    \cup [kind : {"update"}, id : Known(k), name : Titles \cup {NoTitle},
          from : Patches(from), till : Patches(till)]
    \cup [kind : {"delete"}, id : Known(k)]

EpicRequests == Writes("epic", {NoDay}, {NoDay})
SprintRequests == Writes("sprint", Days \cup {NoDay}, Days \cup {NoDay})
MilestoneRequests == Writes("milestone", Days \cup {NoDay}, {NoDay})
LabelRequests == Writes("label", {NoDay}, {NoDay})

AskPlan(r) == Asks(r, EpicRequests \cup SprintRequests \cup MilestoneRequests \cup LabelRequests)

\* An update of a ticket that carries its epic, its milestone or its labels.
References ==
    UNION {[kind : {"point"}, card : Cards, of : {k}, to : {{}} \cup {{i} : i \in Known(k)}] :
           k \in Kinds \ {"sprint"}}

AddRequests == [kind : {"join"}, card : Cards, sprint : Known("sprint")]
RemoveRequests == [kind : {"leave"}, card : Cards, sprint : Known("sprint")]

AskPoint(r) == Asks(r, References \cup AddRequests \cup RemoveRequests)

-----------------------------------------------------------------------------
(* Frames                                                                  *)

\* What the handler publishes once the service has returned: the row as it
\* was written, or as it was deleted.
ResourceFrame(type, i, r) ==
    [type |-> type, id |-> i, row |-> r, nth |-> writes[i] + 1]

CardFrame(t, s) == [type |-> "ticket", id |-> t, version |-> version[t] + 1, points |-> Body(s)]

\* Nothing is written after a delete.
DeleteTold(i) == row[i].is = "gone" /\ told[i] = writes[i]

\* The resources a frame tells something older of than a frame before it did.
Overtaken(f) ==
    IF f.type = "ticket" THEN {i \in f.points : DeleteTold(i)}
                         ELSE {i \in {f.id} : f.nth < told[i]}

Wrote(r, i, frame) ==
    /\ writes' = [writes EXCEPT ![i] = @ + 1]
    /\ at' = [at EXCEPT ![r] = "written"]
    /\ tx' = [tx EXCEPT ![r].frame = <<frame>>]
    /\ UNCHANGED <<op, client, sent, setting>>

\* After the commit.
Publish(r) ==
    /\ at[r] = "written"
    /\ LET f == tx[r].frame[1] IN
        /\ feed' = Append(feed, f)
        /\ told' = IF f.type # "ticket" /\ f.nth > told[f.id] THEN [told EXCEPT ![f.id] = f.nth] ELSE told
        /\ crossed' = crossed \cup Overtaken(f)
    /\ End(r)
    /\ UNCHANGED <<stored, setting, client, behind>>

-----------------------------------------------------------------------------
(* Epics, sprints, milestones, labels                                      *)

\* The row an update waits for, or the reference of a ticket to it.
DeletesNow(i) == {q \in Requests : at[q] = "locked" /\ op[q].id = i}

\* 0012's CHECK, on the row as it would be written.
EndsBeforeItStarts(x) == x.from # NoDay /\ x.till # NoDay /\ x.till < x.from

\* 0023's unique key: the name of a label of the team.
NameTaken(i, name) ==
    KindOf[i] = "label" /\ \E j \in OfKind(Ids, "label") \ {i} : row[j].is = "there" /\ row[j].name = name

Created(r) == [is |-> "there", name |-> op[r].name, from |-> op[r].from, till |-> op[r].till]

\* Member by member, over the row as it is now.
Patched(r) ==
    LET old == row[op[r].id] IN
    [old EXCEPT !.name = IF op[r].name = NoTitle THEN @ ELSE op[r].name,
                !.from = IF op[r].from = Keep THEN @ ELSE op[r].from,
                !.till = IF op[r].till = Keep THEN @ ELSE op[r].till]

Legal(i, x) ==
    /\ KindOf[i] = "sprint" => ~EndsBeforeItStarts(x)
    /\ KindOf[i] = "label" => ~NameTaken(i, x.name)

\* One INSERT ... SELECT, which finds the project or team only for a member.
Insert(r, k) ==
    /\ Asked(r, "create") /\ KindOf[op[r].id] = k
    /\ Reaches(r) /\ Legal(op[r].id, Created(r))
    /\ row' = [row EXCEPT ![op[r].id] = Created(r)]
    /\ Wrote(r, op[r].id, ResourceFrame("created", op[r].id, Created(r)))
    /\ UNCHANGED <<points, version>>

CreateEpic(r) == Insert(r, "epic")
CreateSprint(r) == Insert(r, "sprint")
CreateMilestone(r) == Insert(r, "milestone")
CreateLabel(r) == Insert(r, "label")

CreateRefused(r) ==
    /\ Asked(r, "create")
    /\ ~Reaches(r) \/ ~Legal(op[r].id, Created(r))
    /\ Refuse(r)

\* Mutant of Written: the frame reports the row the update found.
Written_Before(r) == row[op[r].id]

\* RETURNING: the row the update wrote.
Written(r) == Patched(r)

\* One UPDATE, which waits for a delete that has locked the row.
Rewrite(r, k) ==
    /\ Asked(r, "update") /\ KindOf[op[r].id] = k
    /\ Reaches(r) /\ row[op[r].id].is = "there" /\ DeletesNow(op[r].id) = {}
    /\ Legal(op[r].id, Patched(r))
    /\ row' = [row EXCEPT ![op[r].id] = Patched(r)]
    /\ Wrote(r, op[r].id, ResourceFrame("updated", op[r].id, Written(r)))
    /\ UNCHANGED <<points, version>>

UpdateEpic(r) == Rewrite(r, "epic")
UpdateSprint(r) == Rewrite(r, "sprint")
UpdateMilestone(r) == Rewrite(r, "milestone")
UpdateLabel(r) == Rewrite(r, "label")

UpdateRefused(r) ==
    /\ Asked(r, "update")
    /\ \/ ~Reaches(r) \/ row[op[r].id].is # "there"
       \/ DeletesNow(op[r].id) = {} /\ ~Legal(op[r].id, Patched(r))
    /\ Refuse(r)

\* SELECT ... FOR UPDATE: waits for a ticket that is being pointed at it.
LockToDelete(r) ==
    /\ Asked(r, "delete")
    /\ Reaches(r) /\ row[op[r].id].is = "there" /\ DeletesNow(op[r].id) = {}
    /\ \A q \in Requests : at[q] = "pointed" => op[r].id \notin tx[q].new
    /\ Go(r, "asked", "locked")
    /\ UNCHANGED <<planning, op, tx>>

DeleteRefused(r) ==
    /\ Asked(r, "delete")
    /\ ~Reaches(r) \/ row[op[r].id].is # "there"
    /\ Refuse(r)

\* A ticket write under way holds the row, or the join row, the delete must change.
Holds(q, i) ==
    /\ at[q] \in {"leaving", "pointed"} /\ i \in points[op[q].card]
    /\ \/ i \in tx[q].left
       \/ at[q] = "pointed" /\ KindOf[i] \in {"epic", "milestone"}

\* The tickets stay: SET NULL for epic_id and milestone_id, and the join rows
\* of a label or a sprint cascade.  No ticket's version moves.
Erase(r, k) ==
    /\ at[r] = "locked" /\ KindOf[op[r].id] = k
    /\ LET i == op[r].id IN
        /\ \A q \in Requests : ~Holds(q, i)
        /\ row' = [row EXCEPT ![i].is = "gone"]
        /\ points' = [t \in Cards |-> points[t] \ {i}]
        /\ Wrote(r, i, ResourceFrame("deleted", i, row[i]))
    /\ UNCHANGED version

DeleteEpic(r) == Erase(r, "epic")
DeleteSprint(r) == Erase(r, "sprint")
DeleteMilestone(r) == Erase(r, "milestone")
DeleteLabel(r) == Erase(r, "label")

-----------------------------------------------------------------------------
(* Tickets, as far as they name these resources                            *)

CardFree(t) == \A q \in Requests : at[q] = "pointed" => op[q].card # t

\* A leave has deleted the membership and not committed.
BeingLeft(t, i) == \E q \in Requests : at[q] \in {"leaving", "pointed"} /\ op[q].card = t /\ i \in tx[q].left

\* The references of the ticket as the request leaves them.
Pointed(r) ==
    LET now == points[op[r].card] IN
    IF op[r].kind = "point" THEN (now \ OfKind(now, op[r].of)) \cup op[r].to
                            ELSE now \cup {op[r].sprint}

Names(r) == Pointed(r) \ points[op[r].card]

AsksToPoint(r) == at[r] = "asked" /\ op[r].kind \in {"point", "join"}

\* The ticket is locked first.  What the request names must be there for the
\* statement, and the foreign key waits for a delete under way.  The body is
\* read under the lock.
Point(r) ==
    /\ AsksToPoint(r) /\ Reaches(r) /\ CardFree(op[r].card)
    /\ \A i \in Names(r) : row[i].is = "there" /\ DeletesNow(i) = {}
    /\ op[r].kind = "join" => Pointed(r) # points[op[r].card]
    /\ tx' = [tx EXCEPT ![r] = [NoTx EXCEPT !.new = Names(r), !.left = points[op[r].card] \ Pointed(r),
                                            !.frame = <<CardFrame(op[r].card, Pointed(r))>>]]
    /\ Go(r, "asked", "pointed")
    /\ UNCHANGED <<planning, op>>

\* The reference is gone, or the ticket is a member already.
PointRefused(r) ==
    /\ AsksToPoint(r)
    /\ \/ ~Reaches(r)
       \/ \E i \in Names(r) : row[i].is # "there"
       \/ /\ op[r].kind = "join" /\ CardFree(op[r].card) /\ Pointed(r) = points[op[r].card]
          /\ ~BeingLeft(op[r].card, op[r].sprint)
    /\ Refuse(r)

AsksToLeave(r) == Asked(r, "leave") /\ Reaches(r) /\ row[op[r].sprint].is = "there"

\* DELETE FROM ticket_sprint, and the start of the bump: its snapshot has the
\* labels it will answer with.
Leave(r) ==
    /\ AsksToLeave(r)
    /\ op[r].sprint \in points[op[r].card] /\ ~BeingLeft(op[r].card, op[r].sprint)
    /\ tx' = [tx EXCEPT ![r] = [NoTx EXCEPT !.left = {op[r].sprint},
                                            !.labels = OfKind(points[op[r].card], "label")]]
    /\ Go(r, "asked", "leaving")
    /\ UNCHANGED <<planning, op>>

LeaveRefused(r) ==
    /\ Asked(r, "leave")
    /\ ~AsksToLeave(r) \/ op[r].sprint \notin points[op[r].card]
    /\ Refuse(r)

\* The bump gets the ticket.  The row is read again after the wait, the join
\* table of the labels is not.
Bump(r) ==
    /\ Go(r, "leaving", "pointed") /\ CardFree(op[r].card)
    /\ LET now == points[op[r].card]
           labels == OfKind(now, "label")
           old == tx[r].labels IN
        tx' = [tx EXCEPT ![r].frame = <<CardFrame(op[r].card, (now \ labels) \cup old)>>,
                         ![r].behind = {i \in (old \ labels) \cup (labels \ old) : row[i].is = "there"}]
    /\ UNCHANGED <<planning, op>>

\* The join has the ticket and waits for the membership, the leave has the
\* membership and waits for the ticket.
InEachOthersWay(j, l) ==
    /\ Asked(j, "join") /\ Reaches(j) /\ CardFree(op[j].card)
    /\ at[l] = "leaving" /\ op[l].card = op[j].card /\ op[l].sprint = op[j].sprint

\* Postgres ends one of them; nothing of it is written.
Deadlock(r) ==
    /\ \E q \in Requests : InEachOthersWay(r, q) \/ InEachOthersWay(q, r)
    /\ Refuse(r)

\* A label that stayed has no lock on it and may have been deleted since.
CommitPoint(r) ==
    /\ Go(r, "pointed", "written")
    /\ points' = [points EXCEPT ![op[r].card] = (@ \ tx[r].left) \cup tx[r].new]
    /\ version' = [version EXCEPT ![op[r].card] = @ + 1]
    /\ behind' = [behind EXCEPT ![op[r].card] = tx[r].behind]
    /\ UNCHANGED <<row, writes, setting, client, feed, told, crossed, op, tx>>

-----------------------------------------------------------------------------
(* Settings                                                                *)

\* The path's key goes through Lookup; a value "fits" when its Validate takes it.
AskSetting(r) ==
    Asks(r, [kind : {"set"}, on : Scopes, key : DOMAIN Registry \cup Stray, value : {"fits", "does not"}]
            \cup [kind : {"unset"}, on : Scopes, key : DOMAIN Registry \cup Stray])

Lookup(k) == k \in DOMAIN Registry

\* Mutant of Check: the key's scope is not looked at.
Check_AnyScope(k, scope, value) == Lookup(k) /\ value = "fits"

Check(k, scope, value) == Lookup(k) /\ Registry[k] = scope /\ value = "fits"

\* Check, then one transaction: the caller reaches the target, and an upsert.
Set(r) ==
    /\ Asked(r, "set") /\ Reaches(r) /\ Check(op[r].key, op[r].on, op[r].value)
    /\ setting' = [setting EXCEPT ![op[r].on][op[r].key] = op[r].value]
    /\ End(r)
    /\ UNCHANGED <<stored, client, sent>>

\* Any registered key at either level; nothing there to delete is ErrNotSet.
Unset(r) ==
    /\ Asked(r, "unset") /\ Reaches(r) /\ Lookup(op[r].key)
    /\ setting[op[r].on][op[r].key] # Absent
    /\ setting' = [setting EXCEPT ![op[r].on][op[r].key] = Absent]
    /\ End(r)
    /\ UNCHANGED <<stored, client, sent>>

SettingRefused(r) ==
    /\ \/ Asked(r, "set") /\ ~(Reaches(r) /\ Check(op[r].key, op[r].on, op[r].value))
       \/ Asked(r, "unset")
          /\ ~(Reaches(r) /\ Lookup(op[r].key) /\ setting[op[r].on][op[r].key] # Absent)
    /\ Refuse(r)

\* Get: refused unless the key is registered for that level.
Gettable(s, k) == Lookup(k) /\ Registry[k] = s /\ setting[s][k] # Absent

\* List: the rows whose key is registered.  Unregistered: the rest, instance-wide.
Listed(s) == {k \in DOMAIN setting[s] : setting[s][k] # Absent /\ Lookup(k)}
Unregistered == {x \in Scopes \X Stray : setting[x[1]][x[2]] # Absent /\ ~Lookup(x[2])}

-----------------------------------------------------------------------------
(* The client                                                              *)

Dropped(s, i) == s \ {i}

ApplyResource(f) ==
    /\ held' = [held EXCEPT ![f.id] = IF f.type = "deleted" THEN [f.row EXCEPT !.is = "gone"] ELSE f.row]
    /\ seen' = IF f.type = "deleted"
               THEN [t \in Cards |-> [seen[t] EXCEPT !.points = Dropped(@, f.id)]]
               ELSE seen

ApplyCard(f) ==
    /\ seen' = IF f.version > seen[f.id].version
               THEN [seen EXCEPT ![f.id] = [version |-> f.version, points |-> f.points]]
               ELSE seen
    /\ UNCHANGED held

Receive ==
    /\ feed # <<>>
    /\ feed' = Tail(feed)
    /\ LET f == Head(feed) IN IF f.type = "ticket" THEN ApplyCard(f) ELSE ApplyResource(f)
    /\ UNCHANGED <<stored, setting, told, crossed, behind, at, op, tx>>

\* One page, always.
ListEpics == {i \in OfKind(Ids, "epic") : row[i].is = "there"}
ListSprints == {i \in OfKind(Ids, "sprint") : row[i].is = "there"}
ListMilestones == {i \in OfKind(Ids, "milestone") : row[i].is = "there"}
ListLabels == {i \in OfKind(Ids, "label") : row[i].is = "there"}

\* Nothing is on its way to the client.
Delivered == feed = <<>> /\ \A r \in Requests : at[r] \notin {"written", "pointed"}

\* A client in doubt reads everything again.
Relist ==
    /\ crossed # {} \/ \E t \in Cards : behind[t] # {}
    /\ LET all == ListEpics \cup ListSprints \cup ListMilestones \cup ListLabels IN
        held' = [i \in Ids |-> IF i \in all THEN row[i]
                               ELSE IF held[i].is = "there" THEN [held[i] EXCEPT !.is = "gone"] ELSE held[i]]
    /\ seen' = [t \in Cards |-> [version |-> version[t], points |-> Body(points[t])]]
    /\ crossed' = IF Delivered THEN {} ELSE crossed
    /\ behind' = IF Delivered THEN [t \in Cards |-> {}] ELSE behind
    /\ UNCHANGED <<stored, setting, feed, told, at, op, tx>>

-----------------------------------------------------------------------------
(* Properties                                                              *)

\* docs/realtime.md: "There is no version: replace the resource you hold, and
\* re-list on doubt", and "the database nulls epic_id / milestone_id and drops
\* the label from label_ids; a client applies the same to the tickets it holds".
\* Once all frames are delivered the client's resources are the stored ones and
\* its tickets name what the stored ones name, but for those resources of which
\* a frame was published that was older than one before it, and for the labels
\* that changed while a leave waited for the ticket, which announced them as they
\* had been: there the two may differ until the client re-lists, or until the
\* ticket is announced again.  The latter are labels there are: what is gone, and
\* not among the former, no ticket names.
ClientFollowsPlan ==
    Delivered =>
        /\ \A i \in Ids \ crossed : held[i].is = row[i].is /\ (row[i].is = "there" => held[i] = row[i])
        /\ \A t \in Cards :
            /\ seen[t].points \ (crossed \cup behind[t]) = Body(points[t]) \ (crossed \cup behind[t])
            /\ \A i \in seen[t].points \ crossed : row[i].is = "there"

\* internal/setting: a list answers the keys a get answers, one by one, and a
\* row neither answers is one Unregistered shows: no row is out of everyone's
\* sight, whatever keys an older program left on the team.
SettingsAgree ==
    \A s \in Scopes, k \in DOMAIN Registry \cup Stray :
        /\ k \in Listed(s) <=> Gettable(s, k)
        /\ setting[s][k] # Absent => k \in Listed(s) \/ <<s, k>> \in Unregistered

=============================================================================
