------------------------------- MODULE Tickets -------------------------------
(***************************************************************************)
(* A project's tickets, as src/internal/ticket writes them: creates that a *)
(* key makes safe to retry, writes guarded by the version the caller last  *)
(* saw, archiving, one sprint's members; the history (activity) and the    *)
(* search row each write keeps in step, the frame the API publishes after  *)
(* the commit, and a client of the change feed that applies the frames.    *)
(*                                                                         *)
(* Every write is a transaction of Postgres under READ COMMITTED.  A       *)
(* statement that has to wait for a row lock evaluates its conditions      *)
(* again on the row it waited for, but reads every OTHER table in the      *)
(* snapshot it began with: a ticket's labels are rows of ticket_label.     *)
(* "Wait" is where such a statement begins.  What a transaction does       *)
(* between its first row lock and its commit, where nobody else can see or *)
(* change it, is one step.                                                 *)
(*                                                                         *)
(* Left out: who may reach the ticket (every caller here can) and the      *)
(* references (status: TeamBoards; assignee, epic, milestone); title and   *)
(* description are one text.                                               *)
(***************************************************************************)
EXTENDS Naturals, FiniteSets, Sequences, SequencesExt

CONSTANTS
    Requests,   \* calls of the API, each of one operation
    Ids,        \* ticket ids, compared as numbers: creates take the next one
    Existing,   \* the tickets there are at the start
    Texts,
    Labels,
    Nil,        \* UpdateParams.LabelIDs = nil: leave the labels alone
    Ops         \* the operations of the model

AllOps == {"create", "update", "archive", "unarchive", "join", "leave"}

ASSUME TicketsAssumption ==
    /\ IsFiniteSet(Requests) /\ IsFiniteSet(Labels)
    /\ Ids \subseteq Nat /\ Existing \subseteq Ids
    /\ Nil \notin Texts \cup Labels /\ \A l \in SUBSET Labels : l # Nil
    /\ Ops \subseteq AllOps

VARIABLES
    row,     \* ticket, its ticket_label rows, and its row of ticket_sprint
    log,     \* activity: per ticket its entries, in the order of the commits
    first,   \* what the ticket held when its log began (no code: for the properties)
    index,   \* search_index: the texts a search for the ticket matches
    at,      \* where each request stands
    op,      \* its operation
    read,    \* the ticket it read to know the version it sends, when it sends one
    seen,    \* the ticket in the snapshot of the statement that waits
    answer,  \* what the service returned: a frame or the name of a refusal
    copy     \* the client's copies and tombstones

vars == <<row, log, first, index, at, op, read, seen, answer, copy>>

Absent == [version |-> 0, archived |-> FALSE, text |-> Nil, labels |-> {}, joined |-> FALSE, keyed |-> FALSE]

\* A ticket as it is created.
New(text, labels, joined, keyed) ==
    [version |-> 1, archived |-> FALSE, text |-> text, labels |-> labels, joined |-> joined, keyed |-> keyed]

NoOp == [kind |-> "none"]

Operations ==
    [kind : {"create"}, text : Texts, labels : SUBSET Labels, keyed : BOOLEAN]
    \cup [kind : {"update"}, id : Ids, text : Texts, labels : {Nil} \cup SUBSET Labels, ifMatch : BOOLEAN]
    \cup [kind : {"archive", "unarchive"}, id : Ids, ifMatch : BOOLEAN]
    \cup [kind : {"join", "leave"}, id : Ids]

Refusals == {"none", "not_found", "ticket_archived", "ticket_conflict", "fault", "no_change", "replayed", "deadlock"}

Rows == [version : Nat, archived : BOOLEAN, text : Texts \cup {Nil}, labels : SUBSET Labels,
         joined : BOOLEAN, keyed : BOOLEAN]

Frames == [type : {"created", "updated", "archived", "unarchived"}, id : Ids, version : Nat,
           text : Texts, labels : SUBSET Labels]

Copies == [version : Nat, there : BOOLEAN, text : Texts \cup {Nil}, labels : SUBSET Labels]

Entry(kind, before, after) == [kind |-> kind, before |-> before, after |-> after]

Is(t)   == row[t].version > 0
Live(t) == Is(t) /\ ~row[t].archived

CopyOf(t) == [version |-> t.version, there |-> t.version > 0 /\ ~t.archived, text |-> t.text, labels |-> t.labels]

Init ==
    /\ row \in [Ids -> {Absent} \cup [version : {1}, archived : BOOLEAN, text : Texts, labels : SUBSET Labels,
                                     joined : BOOLEAN, keyed : BOOLEAN]]
    /\ \A t \in Ids : (Is(t) <=> t \in Existing) /\ ~row[t].keyed
    /\ log = [t \in Ids |-> <<>>]
    /\ first = row
    /\ index = [t \in Ids |-> IF Live(t) THEN {row[t].text} ELSE {}]
    /\ at = [r \in Requests |-> "idle"]
    /\ op = [r \in Requests |-> NoOp]
    /\ read = [r \in Requests |-> Absent]
    /\ seen = [r \in Requests |-> Absent]
    /\ answer = [r \in Requests |-> [type |-> "none"]]
    /\ copy = [t \in Ids |-> CopyOf(row[t])]

-----------------------------------------------------------------------------
(* Locks: where a request stands says what it holds.                       *)

\* A join holds the ticket's row, FOR UPDATE, while it inserts.
RowFree(t) == \A q \in Requests : at[q] = "joining" => op[q].id # t

\* A leave holds the membership it deleted until it has bumped the ticket.
MemberFree(t) == \A q \in Requests : at[q] = "leaving" => op[q].id # t

Step(r, from, to) == at[r] = from /\ at' = [at EXCEPT ![r] = to]

\* The service returns: its arguments and what it read are gone.
Return(r, a) ==
    /\ answer' = [answer EXCEPT ![r] = a]
    /\ op' = [op EXCEPT ![r] = NoOp]
    /\ read' = [read EXCEPT ![r] = Absent]
    /\ seen' = [seen EXCEPT ![r] = Absent]

\* An answer that wrote nothing; the transaction rolls back.
Refuse(r, why) == Return(r, [type |-> why]) /\ UNCHANGED <<row, log, first, index, copy>>

\* The ticket a write returns, as the API announces it.  The version is the
\* written row's; the labels are those the statement that returned them saw.
Frame(type, t, new, labels) ==
    [type |-> type, id |-> t, version |-> new.version, text |-> new.text, labels |-> labels]

\* The write commits: the row, its history and its search row, at once.
Commit(r, t, new, entries, found, frame) ==
    /\ row' = [row EXCEPT ![t] = new]
    /\ log' = [log EXCEPT ![t] = @ \o entries]
    /\ index' = [index EXCEPT ![t] = found]
    /\ Return(r, frame)
    /\ UNCHANGED copy

Bumped(t) == [row[t] EXCEPT !.version = @ + 1]

-----------------------------------------------------------------------------
(* A caller chooses what to do.  One that sends If-Match has read the      *)
(* ticket before.  Bound: no more creates than there are ids left.         *)
Ask(r) ==
    /\ Step(r, "idle", "asked")
    /\ \E o \in Operations :
        /\ o.kind \in Ops
        /\ o.kind # "create" => Is(o.id)
        /\ o.kind = "create" => Cardinality({q \in Requests : op[q].kind = "create"}) < Cardinality({t \in Ids : ~Is(t)})
        /\ op' = [op EXCEPT ![r] = o]
        /\ read' = [read EXCEPT ![r] = IF "ifMatch" \in DOMAIN o /\ o.ifMatch THEN row[o.id] ELSE Absent]
    /\ UNCHANGED <<row, log, first, index, seen, answer, copy>>

-----------------------------------------------------------------------------
(* CreateIdempotent                                                        *)

\* Mutant of KeyUsed: the unique index leaves archived tickets out.
KeyUsed_LiveOnly == \E t \in Ids : Live(t) /\ row[t].keyed

KeyUsed == \E t \in Ids : Is(t) /\ row[t].keyed

Create(r) ==
    /\ op[r].kind = "create"
    /\ ~ (op[r].keyed /\ KeyUsed)
    /\ \E t \in Ids :
        /\ ~ Is(t) /\ \A u \in Ids : u < t => Is(u)
        /\ LET new == New(op[r].text, op[r].labels, FALSE, op[r].keyed)
           IN  /\ Commit(r, t, new, <<Entry("created", Nil, Nil)>>, {op[r].text}, Frame("created", t, new, op[r].labels))
               /\ first' = [first EXCEPT ![t] = new]
    /\ Step(r, "asked", "committed")

\* ON CONFLICT DO NOTHING: the key has made a ticket.
CreateConflicts(r) ==
    /\ op[r].kind = "create"
    /\ op[r].keyed /\ KeyUsed
    /\ Step(r, "asked", "replaying")
    /\ UNCHANGED <<row, log, first, index, op, read, seen, answer, copy>>

\* A new statement reads the ticket the key made, as it is now.
AfterEmptyInsert(r) ==
    /\ Step(r, "replaying", "done")
    /\ \E t \in Ids :
        /\ Is(t) /\ row[t].keyed
        /\ Refuse(r, IF row[t].archived THEN "ticket_archived" ELSE "replayed")

-----------------------------------------------------------------------------
(* Update, Archive, Unarchive                                              *)

\* The statement that will wait for the ticket's row begins: Update's
\* lockSnapshot, or the UPDATE of setArchived.
Wait(r) ==
    /\ op[r].kind \in {"update", "archive", "unarchive"}
    /\ Step(r, "asked", "waiting")
    /\ seen' = [seen EXCEPT ![r] = row[op[r].id]]
    /\ UNCHANGED <<row, log, first, index, op, read, answer, copy>>

\* The row the write needs: live (to restore: archived) and, with If-Match,
\* at the version the caller read.
Matches(r, t) ==
    /\ t.archived = (op[r].kind = "unarchive")
    /\ op[r].ifMatch => t.version = read[r].version

\* diff: one entry for the text, one per label added and removed.
Diff(before, now) ==
    (IF before.text = now.text THEN <<>> ELSE <<Entry("field_changed", before.text, now.text)>>)
    \o SetToSeq({Entry("label_added", Nil, l) : l \in now.labels \ before.labels})
    \o SetToSeq({Entry("label_removed", l, Nil) : l \in before.labels \ now.labels})

\* Mutant of Update: the version is checked on a read before the lock.
Update_ChecksFirst(r) ==
    LET o == op[r]
        t == o.id
        new == [Bumped(t) EXCEPT !.text = o.text, !.labels = IF o.labels = Nil THEN @ ELSE o.labels]
    IN  /\ o.kind = "update"
        /\ RowFree(t)
        /\ Matches(r, seen[r]) /\ ~row[t].archived
        /\ Step(r, "waiting", "committed")
        /\ Commit(r, t, new, Diff([row[t] EXCEPT !.labels = seen[r].labels], new),
                  {new.text}, Frame("updated", t, new, new.labels))
        /\ UNCHANGED first

\* Mutant of Update: what diff compares with is read without FOR UPDATE.
Update_DiffsUnlocked(r) ==
    LET o == op[r]
        t == o.id
        new == [Bumped(t) EXCEPT !.text = o.text, !.labels = IF o.labels = Nil THEN @ ELSE o.labels]
    IN  /\ o.kind = "update"
        /\ RowFree(t)
        /\ Matches(r, row[t])
        /\ Step(r, "waiting", "committed")
        /\ Commit(r, t, new, Diff(seen[r], new),
                  {new.text}, Frame("updated", t, new, new.labels))
        /\ UNCHANGED first

\* The UPDATE of Update comes after the lock: its conditions and the labels
\* it returns are of now.  What diff compares with is the locked row, and
\* the labels of the snapshot lockSnapshot began with.
Update(r) ==
    LET o == op[r]
        t == o.id
        new == [Bumped(t) EXCEPT !.text = o.text, !.labels = IF o.labels = Nil THEN @ ELSE o.labels]
    IN  /\ o.kind = "update"
        /\ RowFree(t)
        /\ Matches(r, row[t])
        /\ Step(r, "waiting", "committed")
        /\ Commit(r, t, new, Diff([row[t] EXCEPT !.labels = seen[r].labels], new),
                  {new.text}, Frame("updated", t, new, new.labels))
        /\ UNCHANGED first

\* Mutant of SetArchived: archiving is no new version.
SetArchived_SameVersion(r) ==
    LET t == op[r].id
        archived == op[r].kind = "archive"
        kind == IF archived THEN "archived" ELSE "unarchived"
        new == [row[t] EXCEPT !.archived = archived]
    IN  /\ op[r].kind \in {"archive", "unarchive"}
        /\ RowFree(t)
        /\ Matches(r, seen[r]) /\ Matches(r, row[t])
        /\ Step(r, "waiting", "committed")
        /\ Commit(r, t, new, <<Entry(kind, Nil, Nil)>>, IF archived THEN {} ELSE {new.text},
                  Frame(kind, t, new, seen[r].labels))
        /\ UNCHANGED first

\* Mutant of SetArchived: only the column is set.
SetArchived_KeepsIndex(r) ==
    LET t == op[r].id
        archived == op[r].kind = "archive"
        kind == IF archived THEN "archived" ELSE "unarchived"
        new == [Bumped(t) EXCEPT !.archived = archived]
    IN  /\ op[r].kind \in {"archive", "unarchive"}
        /\ RowFree(t)
        /\ Matches(r, seen[r]) /\ Matches(r, row[t])
        /\ Step(r, "waiting", "committed")
        /\ Commit(r, t, new, <<Entry(kind, Nil, Nil)>>, index[t] \cup {new.text},
                  Frame(kind, t, new, seen[r].labels))
        /\ UNCHANGED first

\* Mutant of SetArchived: announced as an edit.
SetArchived_Updated(r) ==
    LET t == op[r].id
        archived == op[r].kind = "archive"
        kind == IF archived THEN "archived" ELSE "unarchived"
        new == [Bumped(t) EXCEPT !.archived = archived]
    IN  /\ op[r].kind \in {"archive", "unarchive"}
        /\ RowFree(t)
        /\ Matches(r, seen[r]) /\ Matches(r, row[t])
        /\ Step(r, "waiting", "committed")
        /\ Commit(r, t, new, <<Entry(kind, Nil, Nil)>>, IF archived THEN {} ELSE {new.text},
                  Frame("updated", t, new, seen[r].labels))
        /\ UNCHANGED first

\* The UPDATE of setArchived is the statement that waits: the row it began
\* with must match as well as the one it waited for, and the labels it
\* returns are the snapshot's.
SetArchived(r) ==
    LET t == op[r].id
        archived == op[r].kind = "archive"
        kind == IF archived THEN "archived" ELSE "unarchived"
        new == [Bumped(t) EXCEPT !.archived = archived]
    IN  /\ op[r].kind \in {"archive", "unarchive"}
        /\ RowFree(t)
        /\ Matches(r, seen[r]) /\ Matches(r, row[t])
        /\ Step(r, "waiting", "committed")
        /\ Commit(r, t, new, <<Entry(kind, Nil, Nil)>>, IF archived THEN {} ELSE {new.text},
                  Frame(kind, t, new, seen[r].labels))
        /\ UNCHANGED first

\* The write matched no row.
NoMatch(r) ==
    LET t == op[r].id
    IN  /\ op[r].kind \in {"update", "archive", "unarchive"}
        /\ \/ op[r].kind # "update" /\ ~Matches(r, seen[r])
           \/ RowFree(t) /\ ~Matches(r, row[t])
        /\ Step(r, "waiting", "refused")
        /\ UNCHANGED <<row, log, first, index, op, read, seen, answer, copy>>

\* noRow: in a new statement, why.
NoRow(r) ==
    LET t == row[op[r].id]
        needsArchived == op[r].kind = "unarchive"
    IN  /\ Step(r, "refused", "done")
        /\ Refuse(r, CASE ~op[r].ifMatch -> "not_found"
                       [] op[r].ifMatch /\ t.archived /\ ~needsArchived -> "ticket_archived"
                       [] op[r].ifMatch /\ (~t.archived \/ needsArchived) /\ t.version # read[r].version -> "ticket_conflict"
                       [] OTHER -> IF t.archived # needsArchived THEN "not_found" ELSE "fault")

-----------------------------------------------------------------------------
(* AddToSprint, RemoveFromSprint                                           *)

\* SELECT ... FOR UPDATE OF t, of a live ticket.
JoinLock(r) ==
    LET t == op[r].id
    IN  /\ op[r].kind = "join"
        /\ RowFree(t)
        /\ \/ Live(t) /\ Step(r, "asked", "joining")
              /\ UNCHANGED <<row, log, first, index, op, read, seen, answer, copy>>
           \/ ~Live(t) /\ Step(r, "asked", "done") /\ Refuse(r, "not_found")

\* INSERT ... ON CONFLICT DO NOTHING waits for whoever is deleting the row;
\* a new member bumps the ticket.
Join(r) ==
    LET t == op[r].id
        new == [Bumped(t) EXCEPT !.joined = TRUE]
    IN  /\ op[r].kind = "join"
        /\ MemberFree(t)
        /\ \/ row[t].joined /\ Step(r, "joining", "done") /\ Refuse(r, "no_change")
           \/ /\ ~row[t].joined
              /\ Step(r, "joining", "committed")
              /\ Commit(r, t, new, <<Entry("sprint_added", Nil, Nil)>>, index[t], Frame("updated", t, new, row[t].labels))
              /\ UNCHANGED first

\* DELETE FROM ticket_sprint, and the start of the bump.
LeaveDelete(r) ==
    LET t == op[r].id
    IN  /\ op[r].kind = "leave"
        /\ MemberFree(t)
        /\ \/ ~row[t].joined /\ Step(r, "asked", "done") /\ Refuse(r, "no_change")
           \/ /\ row[t].joined
              /\ Step(r, "asked", "leaving")
              /\ seen' = [seen EXCEPT ![r] = row[t]]
              /\ UNCHANGED <<row, log, first, index, op, read, answer, copy>>

\* The bump is the statement that waits.  An archived ticket is taken out of
\* the sprint, and that is all.
Leave(r) ==
    LET t == op[r].id
        bumped == Live(t) /\ ~seen[r].archived
        new == [(IF bumped THEN Bumped(t) ELSE row[t]) EXCEPT !.joined = FALSE]
    IN  /\ op[r].kind = "leave"
        /\ RowFree(t) \/ seen[r].archived
        /\ \/ /\ bumped
              /\ Step(r, "leaving", "committed")
              /\ Commit(r, t, new, <<Entry("sprint_removed", Nil, Nil)>>, index[t], Frame("updated", t, new, seen[r].labels))
           \/ /\ ~bumped
              /\ Step(r, "leaving", "done")
              /\ Commit(r, t, new, <<>>, index[t], [type |-> "no_change"])
        /\ UNCHANGED first

\* A join waits for the leave that holds the membership, the leave for the
\* join that holds the ticket: Postgres ends one of them, the caller gets an
\* error and nothing is written.
Deadlock(r) ==
    /\ at[r] \in {"joining", "leaving"}
    /\ at[r] = "leaving" => ~seen[r].archived
    /\ \E q \in Requests : {at[r], at[q]} = {"joining", "leaving"} /\ op[q].id = op[r].id
                           /\ (at[q] = "leaving" => ~seen[q].archived)
    /\ at' = [at EXCEPT ![r] = "done"]
    /\ Refuse(r, "deadlock")

-----------------------------------------------------------------------------
(* ticketFeed.publish, after the commit: the frames of two writers reach a  *)
(* client in the order they are published, whichever committed first.      *)

\* The client of the feed (not in this repository: docs/realtime.md has its
\* rules) keeps the version of what it removed.
Receive(f) ==
    LET held == copy[f.id]
    IN  copy' = [copy EXCEPT ![f.id] =
            IF f.version > held.version \/ (f.type = "archived" /\ f.version = held.version)
            THEN [version |-> f.version, there |-> f.type # "archived", text |-> f.text, labels |-> f.labels]
            ELSE held]

Publish(r) ==
    /\ Step(r, "committed", "done")
    /\ Receive(answer[r])
    /\ UNCHANGED <<row, log, first, index, op, read, seen, answer>>

\* The workspace could not be looked up: logged and swallowed.
PublishFails(r) ==
    /\ Step(r, "committed", "silent")
    /\ UNCHANGED <<row, log, first, index, op, read, seen, answer, copy>>

Write(r) ==
    \/ Create(r) \/ CreateConflicts(r) \/ AfterEmptyInsert(r)
    \/ Wait(r) \/ Update(r) \/ SetArchived(r) \/ NoMatch(r) \/ NoRow(r)
    \/ JoinLock(r) \/ Join(r) \/ LeaveDelete(r) \/ Leave(r) \/ Deadlock(r)

AllEnded == \A r \in Requests : at[r] \in {"done", "silent"}

Finished == AllEnded /\ UNCHANGED vars

Next ==
    \/ \E r \in Requests : Ask(r) \/ Write(r) \/ Publish(r) \/ PublishFails(r)
    \/ Finished

Spec == Init /\ [][Next]_vars

-----------------------------------------------------------------------------
(* Properties                                                              *)

\* Every variable keeps its type; a version never exceeds one plus the number
\* of requests (each writes at most once).
TypeOK ==
    /\ row \in [Ids -> Rows]
    /\ \A t \in Ids : row[t].version <= 1 + Cardinality(Requests)
    /\ log \in [Ids -> Seq([kind : STRING, before : Texts \cup Labels \cup {Nil}, after : Texts \cup Labels \cup {Nil}])]
    /\ index \in [Ids -> SUBSET Texts]
    /\ at \in [Requests -> {"idle", "asked", "waiting", "replaying", "refused", "joining", "leaving",
                            "committed", "silent", "done"}]
    /\ \A r \in Requests : op[r] = NoOp \/ op[r] \in Operations
    /\ read \in [Requests -> Rows] /\ seen \in [Requests -> Rows]
    /\ \A r \in Requests : answer[r] \in [type : Refusals] \/ answer[r] \in Frames
    /\ copy \in [Ids -> Copies]

\* The frames of the writes that committed to t.
Wrote(t) == {r \in Requests : at[r] \in {"committed", "done", "silent"} /\ answer[r].type \notin Refusals /\ answer[r].id = t}

\* A write that carried a version replaces exactly what its caller read, even
\* when it waited behind another write (ticket.go:446-451).
NoLostUpdate ==
    [][\A r \in Requests :
          /\ at[r] = "waiting" /\ at'[r] = "committed"
          /\ op[r].ifMatch
          => row[op[r].id] = [read[r] EXCEPT !.joined = row[op[r].id].joined]]_vars

\* However often a create is retried with one key, and whatever became of the
\* first ticket, the key makes one ticket (ticket.go:298-302).
OneTicketPerKey ==
    Cardinality({t \in Ids : Is(t) /\ row[t].keyed}) <= 1

\* "Right version, right state, and still no row.  Nothing can produce this,
\* because version only rises" (conflict.go:137-140).
NoRowIsExplained == \A r \in Requests : answer[r].type # "fault"

\* A search for a ticket finds a live ticket by the text it has now, and no
\* archived one (ticket.go:491-497, 593-602).
SearchFollowsTickets ==
    \A t \in Ids : index[t] = IF Live(t) THEN {row[t].text} ELSE {}

\* What a reader of the history makes of its next entry; an entry that does
\* not start where the one before it ended makes no sense (Nil).
Tell(s, e) ==
    CASE e.kind = "field_changed"  -> [s EXCEPT !.text = IF @ = e.before THEN e.after ELSE Nil]
      [] e.kind = "label_added"    -> [s EXCEPT !.labels = @ \cup {e.after}]
      [] e.kind = "label_removed"  -> [s EXCEPT !.labels = @ \ {e.before}]
      [] e.kind = "archived"       -> [s EXCEPT !.archived = TRUE]
      [] e.kind = "unarchived"     -> [s EXCEPT !.archived = FALSE]
      [] e.kind = "sprint_added"   -> [s EXCEPT !.joined = TRUE]
      [] e.kind = "sprint_removed" -> [s EXCEPT !.joined = FALSE]
      [] OTHER -> s

\* What a reader makes of the entries l of a ticket that was s before them.
Tale(s, l) ==
    LET told[n \in 0 .. Len(l)] == IF n = 0 THEN s ELSE Tell(told[n - 1], l[n])
    IN  told[Len(l)]

Told(t) == Tale(first[t], log[t])

\* The history, read in the order it was written, leads to the ticket as it
\* is; only leaving a sprint while archived is not in it (history.go:134-137,
\* membership.go:137-140).
HistoryTellsTheTicket ==
    \A t \in Ids :
        /\ Told(t).text = row[t].text
        /\ Told(t).archived = row[t].archived
        /\ row[t].joined => Told(t).joined

\* "One entry per thing that changed between before and the ticket as
\* written: ... then each label added and removed" (history.go:134-137), with
\* before "the state the write that follows replaces" (history.go:36-37).
HistoryTellsTheLabels == \A t \in Ids : Told(t).labels = row[t].labels

\* Every write that committed has been announced.
Settled == \A r \in Requests : at[r] \notin {"committed", "silent"}

\* When no frame is on its way, and whatever order they came in, the client
\* has the tickets there are ("version 3 can arrive before version 2.  The
\* rule above makes that harmless", docs/realtime.md:127-130).
ClientConverges ==
    Settled => \A t \in Ids :
        /\ copy[t].version = row[t].version
        /\ copy[t].there = Live(t)
        /\ copy[t].there => copy[t].text = row[t].text

\* The same of what a frame carries beside: "the whole ticket, in exactly the
\* shape of TicketBody" (docs/realtime.md:108), with its labels.
ClientHasTheLabels ==
    Settled => \A t \in Ids : copy[t].there /\ copy[t].version = row[t].version => copy[t].labels = row[t].labels
=============================================================================
