# LaminarFlow backend: models, checks and proofs

This directory is a verification development of the LaminarFlow backend: TLA+
modules translated from the Go source, TLC configurations that check them on
small instances, and theorems the TLA+ proof system checks for every instance.
Paths are relative to the repository root; `internal/` is its Go code.

1. [The system](#1-the-system): its parts, their state and what is hard about it
2. [The project](#2-the-project): the modules, what each shows, what is left
3. [Modules](#3-modules): how each one corresponds to the code
4. [Runs](#4-runs): what TLC checks, within which bounds
5. [Fairness](#5-fairness)
6. [Proofs](#6-proofs)
7. [Where the code and its documents disagree](#7-where-the-code-and-its-documents-disagree)
8. [What is not modelled](#8-what-is-not-modelled)

To check it: `tlc -config X.cfg M` for each run of section 4, `tlapm M.tla` for
each of the `...Proofs` modules.

## 1. The system

A Go server in front of Postgres. A *service* package per resource
(`internal/ticket`, `internal/board`, ...) does the work in SQL transactions;
`internal/api` translates HTTP and MCP calls into service calls and publishes an
event after each write; `internal/realtime` carries the events to websocket
clients. The server keeps almost no state in memory: the hub's registry is all.
Several instances may run on one database.

So there are two kinds of concurrency. Within the process, the hub's goroutines
share a registry, queues and contexts. In the database, requests are
transactions under READ COMMITTED: each *statement* has a snapshot of its own,
a statement that waits for a row lock evaluates its WHERE clause again on the
row it waited for but reads every other table as of the snapshot it began with,
and what is not locked may change between two statements of one transaction.
Two stores have no transaction over both (a row and its file, a commit and the
frame published after it), and there the end of the process, or another request,
may come in between. Nearly every hazard listed in PROJECT.json is one of those
facts at one line.

| Part | State | Operations | Interacts with | What makes it correct |
|---|---|---|---|---|
| Change feed hub, `realtime/hub.go` | registry of connections, a queue per connection, wait group, contexts | Serve, its reader, Publish, drop, Close | every handler that writes publishes through it; `main` closes it | no silent gap; publishers never wait; Close returns and leaves nothing |
| Idempotency keys, `idempotency/` | a row of `idempotency_key`: the claim and later the resource | Do: claim, create, record, release, lookup, drop | wraps the creates of `api/idempotent.go` | one create per key, replay after, no claim stolen, every request ends |
| Statuses and boards, `team/status.go`, `board/board.go` | statuses of a team, boards, columns with positions, which status a column holds | create, update, delete, reorder statuses; create and delete boards; add, set, delete, reorder columns; reads | a new status joins every board; a deleted one moves its tickets | one column per status on a board; every status on every board; no ticket loses its status by accident |
| Tickets, `ticket/` | the row and its version, its labels, its sprint memberships, history, search row | create (with a key), update, archive, unarchive, sprints, move, links, reads | activity, search and the feed follow each write | no lost update, one ticket per key, history, search and clients agree with the row |
| Ticket order, `ticket/move.go` | `position` within a column | Move, place, between, renumber | statuses (columns), versions | the card lands beside its neighbour, and nobody else's order changes |
| Search index, `search/` | a row per searchable thing, a version of the whole | row kept by each write; Rebuild, EnsureCurrent | every service | the row is that of the current text, once |
| Documents, `document/` | body by an aspect's fields, version, history, search row | create, update, convert, archive, restore | aspects, comments and reviews | a versioned register; the search rows follow |
| Comments, reviews, `comment/` | comments; review requests, their decision and anchor | comment, request, decide, StaleReviews | called inside document writes | an approval is of the text that stands |
| Aspect types, `aspect/` | types and their fields | edits, Reorder, import and export | documents | an order stands until the next; names stay apart |
| Accounts, saved views, `account/`, `savedview/` | members; private and shared views | Register, Delete with its sweep; edit a view | sessions | one owner; no view without an owner |
| Sessions, tokens, `auth/` | sessions with a deadline, tokens | open, read and extend, end | every request | the deadline follows the last use |
| Attachments, `attachment/`, `storage/` | a row and a file | upload, download, delete | tickets, documents | no row without its file; stray files have a known reason |
| Migrations, start-up, `migrate/`, `main.go` | the schema and the list of what was applied | Up, Down, Baseline, Pending, serve, stop | index rebuild | nothing applied twice; a server serves the schema it knows |
| Epics, sprints, milestones, labels, settings | one row each, no version | one-row writes, a delete that takes references along | tickets; the feed | a client of frames ends with the stored plan |
| Filters, paging, saved configurations, `filter/` | none: a compiler to SQL; a cursor in the client's hands | compile, sort, cursor | every list | pages add up to the list |
| Projects, teams, export, config, frontend, HTTP and MCP handlers | none, or one row | reads, translations, one-row writes | | |

PROJECT.json lists every part with its files and says of each whether it is
modelled, and every hazard with its line and the properties aimed at it.

## 2. The project

Each module has its parameters as CONSTANTS under a named assumption, one
action per statement or operation, and no RECURSIVE operator, so that it can be
proved about.

| Module | Models | Shows | Proved |
|---|---|---|---|
| Hub | `realtime/hub.go` | the registry, the queues and Close keep the documented promises | types, CloseDrains, RegistryIsExact, NoSilentGap |
| Idempotency | `idempotency/` | at most once, takeover, release, an answer for everyone | AtMostOnce, RetryFindsIt, ClaimsAreNotStolen, without the two faults of section 7 |
| TeamBoards | `team/status.go`, `board/board.go` | one column per status, joins, no ticket loses its status | all: OneColumnPerBoard, StatusesJoinOldBoards, NoTicketLosesItsStatus |
| Tickets | `ticket/*.go`, `api/realtime.go`, a client | versions, history, search, feed | all: SearchFollowsTickets, OneTicketPerKey, NoRowIsExplained, HistoryTellsTheTicket, ClientConverges, NoLostUpdate |
| Moving | `ticket/move.go` | a drop lands beside its neighbour; a renumbering changes no order; a client has the board | all: LandsBeside, OrderIsKept, BoardConverges |
| Documents, Register | `document/`, `comment/`, `api/document.go`, `api/comment.go`, `api/review_request.go` | search rows, approvals and anchors follow the text; a versioned register | all: SearchFollowsDocument, ApprovalHolds, AnchorsFollowTheText, ImplementsRegister |
| Accounts | `account/`, `auth/`, `savedview/` | one workspace and owner; private views swept; deadlines | all: OneWorkspaceOneOwner, PrivateViewsAreSwept, DeadlineFollowsUse |
| Attachments | `attachment/`, `storage/` | row and file | both |
| Startup | `migrate/`, `main.go`, `search/`, `cmd/` | nothing applied twice; a server serves its schema; the index follows its sources | all: NoCollision, IndexFollowsSources, ServesItsSchema |
| Filter, Lists | `filter/`, the lists of ten packages, `savedview/` | pages add up; what could be saved can be opened | both: PagesAddUp, SavedViewsOpen |
| Planning, Aspects | `epic/`, `sprint/`, `milestone/`, `label/`, `setting/`, `aspect/` | a client of unversioned frames; settings; orders that stand; imports | ClientFollowsPlan, SettingsAgree, ReorderStands, ImportsDiffer |

Compositions. Tickets composes the ticket service, the history, the search row,
the publishing handler and a client. Documents composes the document service
with comments, reviews and the fields of the aspect type, because a document
write calls StaleReviews inside its transaction and reads the fields before it.
Accounts composes accounts with the credentials that speak for them and the
views they own. Startup composes migrations, the start of a server, rebuilds of
the index and live writers of it, by servers of two releases. Lists composes the
filter language with the lists and the saved views; Aspects extends Planning, one
pool of requests serving both.

Abstract specification: *a versioned register* (Register), which Documents
implements under the map "the row" (`Register` has one variable for the value and
one for its version, a phase for each writer; the property ImplementsRegister in
TLC, the theorem Implements for every instance).

What is left, in order: links between tickets and documents, ReorderStatuses, and the
projects and teams themselves.

## 3. Modules

### Hub (`internal/realtime/hub.go`)

A connection is one call of Serve, a publisher one call of Publish and so named
by its event, a closer one call of Close.

| Variable | Code |
|---|---|
| `stage[c]` | where Serve stands: before `enter`, refused by it, after it, after Accept, in the select loop, writing, pinging, in its three deferred functions, returned |
| `reader[c]`, `ctxDone[c]` | the reader goroutine; the connection's context |
| `queue[c]`, `frame[c]`, `wire[c]` | `conn.send`, the frame taken from it, what the client was sent |
| `once[c]` | `conn.once`: unused, being run by a publisher, used |
| `registered`, `wg`, `closed`, `hubDone` | `Hub.conns`, `Hub.wg`, `Hub.closed`, `Hub.ctx` |
| `pub[e]`, `todo[e]`, `slow[e]` | Publish: before, under the read lock, dropping, returned; the connections its loop has not reached; those it found full |
| `closer[k]` | Close: marked, cancelled and waiting, returned |
| `owed` | history: what a greeted client must learn of |

A step is a stretch of one goroutine between two points where another can see
it: a lock, a channel operation, a socket call. The lock `h.mu` needs no
variable: publishers in `sending` hold it for reading, and whatever takes it for
writing is one step, guarded by NoReadLock. The select of Serve is one action
per ready case. Accept, Write, Ping and Read of the websocket library are the
choice of their outcomes; a ping needs the reader (the library reads pongs
there), so PingEnds succeeds only while it reads. Publish's loop ranges over a
Go map: `todo` is a set and the next is any of it. JSON and the connection
counter that only logs are left out.

### Idempotency (`internal/idempotency/idempotency.go`)

Keys do not interact, so there is one: `row` is its row, `by` in it history
(the code does not store who claimed), `stale` whether
`claimed_at` is older than 30 s. `pc[r]` is where a call of Do stands, `saw[r]`
the resource it holds; `made` and `deleted` are what creates and deletions did.
Every statement is a commit of its own, as in the code, and so an action of its
own. GiveUp is a failing statement, a cancelled request or the death of the
process at any point; Age is 30 s passing. The constant Faults keeps two things
apart from the rest: a create slower than 30 s ("slow") and a request that ends
after its create and before `record` ("orphan"). Without them the properties
hold and are proved; each of them alone breaks one.

### TeamBoards (`internal/team/status.go`, `internal/board/board.go`, `internal/project/project.go`)

One team. `category`, `board`, `column`, `pos`, `mapping`, `ticket` are the
tables (`status`, `board`, `board_column` with its position,
`board_column_status`, `ticket.status_id`); `at[p]` and `tx[p]` where each
transaction stands and what it has read, inserted and locked; `shown[p]` what a
read returned; `byHand` remembers mappings a column write took away on purpose.

An action is a statement, or several between which nothing another transaction
does can be seen. Locks are derived: `ForUpdate`, `ForShare`, `KeyShare` and
`BoardFree` say from `at` and `tx` what each transaction holds, in Postgres's
conflict table. An inserted row is its inserter's alone until the commit
(`Committed`); a foreign key to a status waits for a delete of it and fails
after (`Referable`). Abort is any failure of an open transaction, the victim of
a deadlock included. JoinLock takes the boards in id order, one by one, as the
`ORDER BY id FOR UPDATE` of joinBoards does. ReadColumns and ReadStatuses are
the two statements of attachColumns with the map lookup whose zero value is the
first column. ReorderStatuses, names, colours and scopes are left out.

### Tickets (`internal/ticket/*.go`, `internal/api/realtime.go`, a client by `docs/realtime.md`)

The tickets of one project. `row[t]` is the row with what hangs on it: labels
(`ticket_label`), membership of one sprint, whether a key made it. `log[t]` is
its history, `index[t]` its search row, `copy[t]` a client's copy. `first` is
history. `at`, `op`, `read`, `seen`, `answer` are a request: where it stands, its
operation, the ticket its caller read to know the version it sends, the ticket
in the snapshot of the statement that waits, the answer.

| Action | Code |
|---|---|
| Ask | a caller, with or without a version (If-Match) |
| Create, CreateConflicts, AfterEmptyInsert | CreateIdempotent: `ON CONFLICT DO NOTHING`, then a second statement that finds the key's ticket, archived or not |
| Wait | the start of the statement that takes the row's lock |
| Update | Update: lockSnapshot, the UPDATE, labels, diff, history, search row, commit |
| SetArchived | Archive and Unarchive: their UPDATE *is* the statement that waits |
| NoMatch, NoRow | zero rows, and noRow's explanation from a later statement |
| JoinLock, Join, LeaveDelete, Leave, Deadlock | AddToSprint takes the ticket and then the membership, RemoveFromSprint the reverse |
| Publish, PublishFails, Receive | the frame after the commit; the client's rule |

From the first row lock to the commit nobody can see or change what a
transaction does to its ticket, so that is one step; what matters is what the
statement that *waited* saw. Update re-reads under the lock except for the
labels, which lockSnapshot's subquery reads in the old snapshot (`seen`). The
UPDATE of SetArchived and of Leave must match both the row it began with and the
row it waited for, and returns the old labels.

### Moving (`internal/ticket/move.go`, the frames of `internal/api/ticket.go`)

The cards of one project and the order of its columns. `card` is the rows
(column, position, version, live or not), `copy` a client's. A drop is one
transaction: MoveLock locks the card it moves and nothing else; PlaceAt,
PlaceAtEnd, PlaceOutside and PlaceBetween are the ways `place` ends (a position
given, the end of the column, beside the first or last card, between two);
MakeRoom, Renumber, RenumberRow and RenumberEnds are `renumber`, whose statement
computes all positions in its snapshot (`tx.ord`) and then waits for the row
locks one by one (`tx.left`); then `between` reads again and may find no room
still (NoRoom). `tx.wrote` is what the transaction has written and only it sees;
Move commits. Publish sends the frames of the moved card and of every card the
renumbering touched. Creates, archives and status updates run beside it.
A step of
`Step` stands for the 1024 of the code; positions are integers without a bound
(section 8).

### Documents and Register (`internal/document/`, `internal/comment/`)

One document, its comments and review requests, one aspect type. `doc` is the
row, `fields` the fields the type has, `comment` the rows, `search` the search
rows of both. A save is three steps: SaveLock takes the document's row and checks
version and body against it and against the fields of that moment, which the
code reads on another connection and does not lock; SaveLook is StaleReviews,
which locks the requests it selects and judges them; SaveCommit makes it all
visible. Approvals of a text that changed more than the threshold are taken back,
and with a conversion to an aspect the anchors move from the content to the
field the text went to, or to where their own text is found. SaveFails is the
field removed in between. A request for a review reads the document
without a lock in three statements (Target, ReadText, InsertComment). Texts are
short sequences, so that prefix, suffix and search (`ChangedRunes`, `reanchor`)
are computed as the code does. `approval` is history: the text that was approved.

Register is what a caller is promised of a versioned resource. The refinement
map: `value` is what the row holds, archived or not, `version` its version, a
writer is `asked` from its call to its commit; the steps between the lock and
the commit are stutters.

### Accounts (`internal/account/`, `internal/auth/`, `internal/savedview/`)

A request authenticates in a statement of its own and acts on what it was told
later (Authenticate, then the operation). RegisterLock is the advisory lock of a
registration, held to its commit; Sweep and Delete are the two statements of
account deletion; the saved view writes hold one row lock to the commit. A
session slides when it is used a day or more after it was last extended
(Slide); `clock` counts days, `cred[c].used` is history.

### Attachments (`internal/attachment/`, `internal/storage/`, `internal/api/attachment.go`)

Two stores: `row` (the table) and `file`, `tmp` (the folder). An upload receives
into `.tmp`, renames (Put), inserts; the loser of a race for a key discards its
file and answers with the winner's row; a delete takes the row, then the file.
Crash ends the process and every request in it and empties nothing. Each step
has its failure beside it, and InsertUnanswered is an INSERT that commits and
whose answer is lost. `leaked` and `doubt` are history: the files whose removal
failed, the rows whose insert was never answered.

### Startup (`internal/migrate/`, `cmd/migrate`, `main.go`, `internal/search/`, `cmd/reindex`)

`applied` is `schema_migrations`, `schema` what has been done to the database,
`lock` the runner's advisory lock, `stored` the index format, `rows` the
committed index rows, `source` what they are about. A server Starts, is refused
(Newer, Pending) or applies (UpLock, Apply, UpDone), rebuilds the index if its
format differs (Current, Rebuild: Clear, Read, Fill per source, RebuildDone) and
serves. A tool migrates up, down, baselines, or reindexes. A writer of a source
runs beside. A DELETE takes the rows of its snapshot that are still there when
it has their locks (ClearBegin, Clear). A source is a ticket (so are documents
and comments), whose every write writes its row, or a project, whose create does
and whose Rename does not. Stop is the end of a process anywhere,
which rolls its open transaction back and gives up its lock. `overlap` is
history: a rebuild ran beside another writer of the index.

### Filter and Lists (`internal/filter/`, `internal/savedview/`, the lists)

Filter has no state: what a filter is refused for (`FilterFaults`), what it compiles
to on a row in SQL's three values (`Where`), the order of a list with NULLS LAST
(`Before`), the predicate that resumes after a cursor (`CompileAfter`) and the
fingerprint a cursor carries. A filter, which the code nests, is the sequence of its
groups, the outermost first, each with the number of the group it is in: the walk of the
tree is a recursive function on their numbers, which can be proved about where a
RECURSIVE operator could not. Lists reads ten resources page by page, one statement a page, while
rows are written between two pages: each of Create, Edit, Rename, Archive and
Delete (Hide is archiving, OpenView opens what Save saved). Damage is a client that
sends a cursor that is not one. What PagesAddUp compares with is written down apart
from the language: the words of a filter (`Means`), the words of a sort (`Sooner`).

### Planning and Aspects (`internal/epic`, `sprint`, `milestone`, `label`, `setting`, `aspect`)

Planning is the four resources of one shape (KindOf says which is which), the
settings, the tickets that point at them, and a client without versions: `held`
and `seen` are its copies, `feed` the frames on their way. A delete locks the
resource and the tickets' references fall by foreign key; pointing a ticket at
it takes its key share (LockToDelete, Point, CommitPoint). Taking a ticket out of
a sprint is the other way round: the membership is deleted first (Leave), and it
is bump's UPDATE that waits for the ticket (Bump) and answers with the row as it
then is and the labels of the snapshot from before the wait; it may deadlock
with a join of the same sprint (Deadlock). `told`, `crossed` and `behind` are
history: what was published, where a frame of older data followed one of newer,
and which labels a ticket's newest version was announced with that were no
longer so when the wait ended. Aspects extends it with types and their fields: AddField takes the
largest position of its snapshot plus one (CountPositions, AddField); a reorder
checks its list against a plain read (CheckOrder), then one UPDATE waits behind
another reorder (WriteOrder) and commits (CommitOrder); Import chooses its name
under the advisory lock.

## 4. Runs

| Run | Checks | Instance |
|---|---|---|
| MCHub | CloseDrains, RegistryIsExact, NoSilentGap, PublishNeverBlocks, CloseReturns, SlowIsEnded | one client with a queue of one, two publishers (of a ticket and of a team), one Close, under FairSpec |
| Idempotency | AtMostOnce, RetryFindsIt, ClaimsAreNotStolen, EveryRequestEnds | three requests, three resources, Faults = {}, under FairKeySpec |
| IdempotencyOrphan | AtMostOnce: violated | the same with Faults = {"orphan"} |
| MCTeamBoards | OneColumnPerBoard, StatusesJoinOldBoards, NoTicketLosesItsStatus | three requests of any kind, two statuses and one to create, one board and one to create, five columns, positions to 4, one ticket |
| MCTickets | OneTicketPerKey, NoRowIsExplained, SearchFollowsTickets, HistoryTellsTheTicket, ClientConverges, NoLostUpdate | three requests of any kind, one ticket and two to create, two texts, no labels |
| MCMoving | BoardConverges, LandsBeside, OrderIsKept | two requests, three cards and one to create, two columns, Step = 4, one position given by a caller, three boards to start from |
| MCDocuments | SearchFollowsDocument, ApprovalHolds, AnchorsFollowTheText, ImplementsRegister | three requests, two comments, two fields, texts of two letters, one region, one key, a threshold of 0, four states to start from |
| MCAccounts | OneWorkspaceOneOwner, PrivateViewsAreSwept, DeadlineFollowsUse | three requests, two accounts, two credentials, two views, a session of three days that slides after one, two days, four installs to start from |
| MCAttachments | RowHasItsFile, StrayFilesAreKnown | three requests, three storage keys, one idempotency key, files under, at and over the limit of 2, one end of the process |
| MCStartup | NoCollision, IndexFollowsSources, ServesItsSchema | a server of one release and one of the next, a tool of the next, one writer, one source of either kind written twice at most, two starts, three databases to start from |
| MCLists | PagesAddUp, SavedViewsOpen | ten lists, three rows and one to create, pages of one and two, one write between pages, filters of depth 2 and three conditions, one of them an "or" of nothing |
| MCAspects | ClientFollowsPlan, SettingsAgree, ReorderStands, ImportsDiffer | two requests of any kind, eight planning resources, one ticket, three types, seven fields |

Why the bounds are enough, and what they are:

- *Hub.* Connections meet only in the registry and the wait group, which the
  proofs treat for any number; one connection makes TLC affordable. The queue
  of one is full after the hello or one event, so the full queue, the drop by
  one publisher while another still sends, and the drop of a connection that is
  leaving by itself all happen. Each call happens once; the hub's counters are
  bounded by that.
- *Idempotency.* A second create needs two requests; a takeover by a third that
  finds the second's fresh claim needs three. A request creates once at
  most, so three resources are enough.
- *TeamBoards.* Every race found, and every lock here, is between two
  transactions; the third lets a state be prepared or a deadlock's victim be
  followed. Five columns and `MaxPosition` 4 leave room for three
  columns beside the first two: two appends race on one board, or a new board is
  seeded and one column appended. What would need a sixth column, or a third
  append to one board, is cut off there: that request goes no further.
- *Tickets.* Three requests let one write prepare, two race. Two ids are
  free, and Ask allows no more creates at a time than there are free ids. The existing
  ticket starts live or archived, in the sprint or not. Labels are left out of
  the run: what goes wrong with them is in section 7.
- *Moving.* The columns start with no room between two cards, with a tie, and
  with a card of the other column between two, so the first drop already
  renumbers. A step of 4 leaves one room for two halvings as 1024 leaves it for ten.
- *Documents.* With texts of two letters and a region of the second, an edit may
  change the region, the text before it, or neither. A conversion carries the
  text, fills the first field itself, or names the other; each meets a request
  that waits and one approved. Two comments let one be made while the other
  is looked at.
- *Accounts.* Three requests: a deletion between two registrations, or a view
  written between the two statements of a deletion. Two days pass, so that a
  session slides and, if it does not, may expire (four installs: empty, migrated
  but empty, with an owner's private view, with a view left to the team).
- *Attachments.* A race for one key takes two uploads, the third request deletes
  or downloads beside it; three storage keys let each upload store a file.
- *Startup.* Two releases are what a rolling deployment has at a time. A source
  written twice is changed and archived, or archived and restored.
- *Lists.* Two rows tie on every default sort, and the third is archived, out of
  sight or without a value: with pages of one and two every boundary falls
  inside the tie and inside the rows without a value. The write between two
  pages may be any, of any row.
- *Aspects.* Two writes of one resource cross their frames, or a leave waits for
  a change of its ticket's labels; eight resources are two of each kind. Seven fields let an import of two run beside two more and an add.

Symmetry: requests, and the ids and texts that nothing orders, are
interchangeable in Init, in Next and in every safety property of the runs that
declare it; no run with a liveness property uses symmetry.

CHECK_DEADLOCK is FALSE where everything may legitimately be over: each call
happens once, and then the system stops. In Tickets and Lists the end is a step
of its own, so there TLC would report any other stop: no request of MCTickets is
ever stuck behind a lock.

What the violation shows is in section 7. What the passing runs show, in short:
the hub keeps its documented promises; an idempotency key does what it says
while creates are faster than 30 s and requests live until they record; the row
lock of a board is enough to keep a status in one column although a second
package writes mappings; a ticket's row, version, history, search row and a
client of the feed agree under every interleaving of three writes, labels apart;
a drop that nobody overtook lands where it was dropped, and a renumbering
changes no order; a document is a versioned register whose search rows and
anchors follow its text; there is one workspace and never a second owner; a row
has its file; the migration lock keeps runners apart; pages add up to the list
while it is written.

## 5. Fairness

*Hub, FairSpec.* A publisher that began goes on: it waits for nobody but lock
holders, and those hold the lock for a bounded time (sends never block). A Serve
that began goes on, because each thing it waits for is bounded: Accept by the HTTP
server, a write by WriteTimeout, a ping by PongTimeout; each ends in success or
failure, so fairness is on the disjunction and never on success. Go's select
picks at random among ready cases, so a case that is ready again and again is
taken: strong fairness of "the context is done" and of "a frame is ready". The
reader ends when its context ends. No fairness of clients (they may never send,
never leave), of new calls, or of Enter.

*Idempotency, FairKeySpec.* Every statement returns, so each request that began goes
on (weak fairness of the disjunction of its steps: create may always fail), and
time passes (weak fairness of Age). Nothing makes a request give up or makes a
resource be deleted. EveryRequestEnds says that a request that claims ends with
an answer; it relies on the other requests going on too, or on their claims
ageing.

The other modules have safety properties only: their requests are bounded
sequences of statements, and what could stop one, a lock, is released by the end
of a transaction. That no request gets stuck in Tickets is TLC's deadlock check.

## 6. Proofs

Constants are arbitrary, under the assumptions named in the modules (HubAssumption,
IdempotencyAssumption, ...): types, finitely many connections or
requests, a queue with room for the hello, markers that are not values, starts
that the program can be in. TLC evaluates them in each run.

**RequestPathProofs** has the three modules a request goes through before and after
its operation. Of Hub: *TypeCorrect*: the types, and with them that `wg` never goes under
zero, which is not inductive by itself: the counter equals the number of Serves
between `enter` and return (Counted), so a Serve that calls `wg.Done` is one of
those counted. *CloseDrainsAll*: with Counted, Wait passes only when none is in
flight; Marked says who waits has set `closed`, so no Serve enters afterwards;
ReaderFollows that a Serve returns after its reader. *RegistryExact* is proved with
them, and gives the empty registry. *NoGapGoesUnnoticed*: that a greeted client has
each event it is owed, or a publisher still has it to send or has noted it full,
or the connection is ending, is inductive once one knows that a client is
greeted only after `add` (so that Publish finds it in the registry, unless it was
dropped) and that only events whose Publish began are owed.

Of Idempotency, under `Faults = {}`. The invariant: a request between
claim and record or release holds the claim, in its own name, with no resource
and not stale (HoldersClaim); a live resource is the row's or is the one its
creator is about to record (LiveIsOwned); what a request found gone was deleted
(GoneIsDeleted). From it: *AtMostOnceHolds*, *OneHolderHolds*,
*RetryFindsItHolds*, *ClaimsAreNotStolenHolds*. The assumption is not idle: with
either fault TLC refutes one of them (section 7).

Of Accounts, from any install that may be there (Possible: one workspace
at most, one owner at most, each member in it). *OneOwner*: one registration
is past its lock, and the "no workspace yet" it read stays so, because only it could
add one (OwnerInv). *DeadlinesFollow*: nothing was used later than now (ClockInv), so
that a request that decides on an old row writes no deadline beyond the
maximum. *ViewsAreSwept*: what is still private to an account whose sweep is done
came late (SweptInv).

**TicketsProofs.** Every step of a request either leaves rows and search rows
alone or puts a *later state of one ticket* in its place together with that
state's search row (Shape; Follows is "a greater version, or the same content").
Each action is shown to have that shape once, and each theorem uses the shape.
*SearchIsRight* and *KeyMakesOneTicket* follow with their own statements as
invariants (Core). *NoRowFindsAReason* and *NothingIsLost* need what a waiting
request knows (Knows): the ticket it read is an earlier state of the one its
statement began with, that of the current one; and a refused request has a
reason that later writes cannot undo: the version has risen, or, if it has not, the
ticket is in the wrong state. So noRow never reaches its last return.
*ClientGetsThere*: the client's copy is of a version the ticket has had, and right
when that is the latest (CopyInv); every frame tells what the ticket was at its
version (FramesInv); and the latest version is the client's, or some request has
the frame of it still to publish (LatestInv). Each action is shown either to
announce the version it writes (Announces) or to write none (Silent), so the rule
"ignore what is not newer" is all the client needs.
*HistoryIsTrue* reads the history of a ticket one entry at a time (Tale, a function on
0..Len). Each entry an operation appends is shown to be readable where it stands and
to leave the reader with the row the same operation writes (DiffTold, LabelsTold,
EntryTold, over Agrees); TaleInv says the whole history does, and that every entry of
it can be read. That appending changes nothing of what was read before is an
induction over the length, done with the least place where two readings differ
(LeastMember), since an induction theorem cannot be instantiated. Labels are finite:
the entry of a change of labels lists them.

**DocumentsProofs.** The invariant is types (ShapeInv, OpInv), what a save that
holds the document's row has in hand (HoldInv: the row it will write is the one
there is with the next version, and the caller's version is the one there is)
and what it has looked at (LookInv: the comments it locked are still there with
the text they had, and every anchor it has to move is among them), with
SearchFollowsDocument,
which is inductive beside them. HoldInv and LookInv are what the two row locks
are for: each other action is shown to be excluded by the lock or to leave the
row alone. *SearchFollows* is a conjunct; *Implements* maps each step to a put, a
refusal, a call or a stutter of Register, its only hard case a save's commit,
where HoldInv says the put is over the version that was named; *AnchorsFollow*
is LookInv at the commit of a conversion. *ApprovalsHold* is about two texts, that
which stands where a request is anchored and that which was approved. What a save
has looked at and leaves approved was approved before, of the text that will stand
there after the commit (Promise, for which the threshold of 0 makes ChangedRunes
say "nothing changed": lemma NothingChanged); every approval that holds is among
the looked at, because DecideReview after the look is recorded as not fair
(PromiseInv); and what a request for a review has read of the document belongs to
a document that exists (AimInv). Moving an anchor with the text keeps the text
under it (SliceIs, FieldTextIs). Two definitions became easier to reason about
for it: FieldIDs is the set of places in the type's order, of which the code takes
the first, and what the constants of the run satisfied is now assumed by name:
letters and texts are sequences, a region is two offsets of which a review request
always has both (`comment/review.go:118`), a comment has a document (a foreign key).

**TeamBoardsProofs.** *DeletingKeepsStatuses*: TicketInv says what the row locks
of a deletion exclude (another deletion of the status, its use as `move_to`, a
ticket's write that gives it), and so what the count found is true until
the commit: with no `move_to`, no ticket has the status. *OneColumn*: a board
belongs to one transaction at a time, its lock's holder or the one that makes it
(Apart); the rows a transaction has yet to commit are on boards of its own
(OwnRows); a status still to be mapped is not there already (OwnStatuses: what
checkStatuses read stays true, a status being created is known to nobody else,
a seed has each status once); and what each sees once it commits has a status in
one column (OnePer). *OldBoardsAreJoined*: while a status is being created, each
board that was there first is still to be locked, is locked, or has its row among
those that will be committed (JoinsOld); boards are dropped and columns deleted
meanwhile, and what a column write unmaps is in `byHand`, which at the start holds
what the boards' owners had unmapped before. Two lemmas carry the steps: Inside (a step that commits
nothing changes what is its own only) and Ends (a commit adds rows of its own
boards and takes away what it likes).

**FilesAndListsProofs** is about Attachments and about Lists, which share no state.
Of Attachments: who has a file in hand, from its first byte to its row or
from its row to its removal (Holding), has it alone and no row names it (Alone),
except for the rows whose insert was never answered; what is stored before the
row is what was received (Whole). *RowsHaveFiles* and *StraysAreKnown* are
inductive beside these three. Removes is the lemma of a removal that may fail.

Of Lists, in four parts. *Induction.* What a filter compiles to and what a cursor
compiles to are recursive, so their meaning is an induction, and no library theorem
that takes a predicate can be instantiated. It is done over sets: a set of naturals has a
least element (LeastIs, from the well-foundedness of strict inclusion on finite
sets); so what every number inherits from the greater ones, all have (Down); so a
function on 1..N defined from its values at greater numbers exists (RecursionIs),
which is what lets a recursive definition be unfolded. *The language.* A condition
without a fault is true exactly when what it says holds (ConditionHolds), and up the
tree of groups a filter too (*WhereMeans*). *The order.* Two rows of different ids
never tie and what precedes is transitive (PrecedesIsTotal, PrecedesIsTransitive); it is the
order in words (*SoonerIs*); what the cursor of a row compiles to is "after that
row" (*ResumesAfter*); a page's enumeration is of all that matches, because an
injection between finite sets of one size is onto (EnumerationIs). *The reading.* The
invariant (ReadingInv, run with TLC before it was proved): a cursor in the client's
hands is either damaged or was cut at some row, for a filter and an order without
fault, and what has been read of the rows nothing touched is all that matches up to that
row, in order, each once (Cut, ReadUpTo). The row may have changed or gone since: the
cursor keeps its keys, and only they matter. A write takes its row out of both
sides (ReadDespite). A page begins where the last ended, because a cursor that passes the plan
names the very filter and order it was cut for (Begins), and adds the rows up to its
own last one (PageAdds). *Pages* and *ViewsOpen* follow. Three things came to light in
the proof. A group that joins nothing by "or" says nothing in words but keeps every
row in SQL (`compile.go:70`): `Means` now says so, and TLC has such a filter. Case
distinctions with overlapping guards were ambiguous as TLA+ (CASE may take either
branch) where the code takes the first: they are IF chains now, in Filter and in
Attachments.Resolved. And a view without a sort opens only because the default
sort's column is in the ticket list's vocabulary: ListsAssumption now names that.

**StartupProofs.** *RunnersDoNotCollide*: a runner that works holds the lock
alone, and what it read is what is applied, until it stops (LockInv). The oldest
migration to apply exists because a set of naturals has a least member, from
the library's well-foundedness. *ServersKnowTheirSchema*: what a server found
is so as long as no migration has run since its look (SeenInv), which is what
`moved` records. *IndexIsOfItsSources*: until something is committed beside a
rebuild (`overlap`), the rows say of every source what they should, and so will
those of each transaction once it commits: a rebuild takes every row there is and
has put the right ones for the sources it went through (RebuildInv), what it read
of the next is true but for a rename (ReadInv), a writer takes the rows of its
source (WriteInv), and has that source to itself (WriterInv). It assumes that the
sources are finitely many and numbered, in the order of the rebuild's scan.

**MovingProofs.** Every step is quiet (seen by its request only), a commit that
writes newer rows (Stored), or a publication: NextIs. What is known of a transaction
at each of its stages (StageInv) is mostly what a renumbering has done (Renumbers):
its numbers are those of one snapshot, and a card of the column whose number it
has not written has that number already, is still to be looked at, or was written
by somebody else since. *ClientHasTheBoard*: what a client holds and what the frames to come
hold are rows the card has had, and the latest row of each card is the client's
or in a frame still to be published (BoardInv). *DropsLandBeside*: a position that was
chosen has the neighbour on its one side and every other card of the column on the
other side or beyond it, on the board the transaction saw (Aims, PlacedInv); if that
board still stands, the commit lands beside the neighbour (AimedLands), ties broken
by id. *RenumberingKeepsOrder*: Rank counts the cards before a card, and of two cards
the first has fewer before it (RankKeepsOrder, over Cardinality), so its number is
smaller. MovingAssumption says that the cards are finitely many and that a
project has a column.

**PlanningProofs** is about Planning and Aspects together, whose requests are one
pool. *ReadersAgree*: a row of a registered key is at the level the key is
registered for (SettingInv), because Check is passed before every write; so a list, a
get and Unregistered share the rows out between them. *ImportsNeverClash*: one import
at a time is past its lock, and the name it chose is none that an import gave
(LockInv, NamedInv). That a free name exists is that the names taken
are finitely many and the candidates are not (SomeNumberIsFree). *ClientHasThePlan*:
there is no version, so what makes a frame the latest is `nth`, the count of the
resource's writes. The frame of the last write tells the row (FramesInv), and until it
is published somebody has it to publish; once it is, the last frame in the
queue about the resource, or the client's copy if there is none, is right, or the
resource is crossed (HeldInv). A ticket's frame names what the ticket names at its
version, and beyond that only what has been deleted since; the frame of that deletion is
still to be published, stands behind it in the queue, or was published before it, which
is what `crossed` records (SeenInv). A leave's frame has older labels: those not so
any more are there, and in `behind`, or gone, and then the same three cases hold of
them (Covers, Old); it began with labels there were and takes nothing else out of the
body, which NamesInv keeps while it waits (Leaves). So that a ticket which is about to commit
agrees with its frame, PointedInv says that it has the ticket to itself and what it
adds is not being deleted (NamesInv). The invariant was run with TLC before
it was proved. *OrdersStand*: a list that passed the reorder's check has as many entries as
the type has fields and all of them, so it has each once (SameSetLists); a field id is
given once and never again, so what the type still has of the order stands where
the order put it, and a field added since stands in no order (StoodInv, OrderInv).
PlanningAssumption and AspectsAssumption say of the first rows, types, fields and
files that they are such, and that types and field ids are finitely many: an import
waits for ever when too few ids are left, which is the bound on ids and not the code's.

What stays with TLC: everything about liveness, and PublishNeverBlocks, which is
about ENABLED. Every other property of a passing run is a theorem.
No other property of a passing run is without a theorem but those about liveness.

## 7. Where the code and its documents disagree

One disagreement is a run: *a retry can create a second resource*
(IdempotencyOrphan). `record` runs on the request's context after the create has
committed (`idempotency.go:94`); a client that disconnects there leaves a claim
without its resource, and after 30 s the retry creates again, although "Do runs
one create at most once".

The others are stated in the modules as properties no run lists. Each is
refuted by TLC when its name replaces the properties of the run named here:

| Property | Run | What the code does | What is written |
|---|---|---|---|
| TeamBoards: ReadsAreTrue | MCTeamBoards | attachColumns reads columns and statuses in two snapshots (`board.go:934`); a status may show in the wrong column | `board.go:877` |
| TeamBoards: EveryStatusIsOnEveryBoard | MCTeamBoards | a board created beside a status lacks it (`board.go:254`) | `team/status.go:170` |
| TeamBoards: LastStatusNeedsNoTickets | MCTeamBoards | two deletes of the last two statuses each count two (`team/status.go:370`) | `team/status.go:375` |
| Tickets: HistoryTellsTheLabels | MCTickets with one label, one existing ticket, two requests, Ops update, archive, leave | the update that waited compares with the labels from before its wait (`ticket/history.go:43`) | `ticket/history.go:36`, `:134` |
| Tickets: ClientHasTheLabels | the same | the bump that waited announces the labels from before its wait with the version from after it (`ticket/membership.go:199`) | `docs/realtime.md:108`, `:127` |
| Idempotency: ClaimsAreNotStolen | Idempotency with Faults = {"slow"} | release deletes whatever claim has no resource, that of a request that took over too (`idempotency.go:199`) | `idempotency.go:193`, `:206` |
| Documents: ReanchoredIsTheSameText | MCDocuments | a request re-anchored by search stays approved over another place where its text stands (`stale.go:212`) | `docs/review-requests.md:121` |
| Attachments: NoRowPointsAtNothing | MCAttachments | an insert that committed and whose answer was lost is taken for one that failed: its file is removed (`attachment.go:302`) | `attachment.go:25` |
| Startup: ProjectsAreFoundByName | MCStartup | a project's Rename leaves its search row with the old name until a rebuild (`project.go:259`) | `search/index.go:414`, `search.go:83` |
| Startup: RebuildAgrees | MCStartup | a rebuild beside a writer indexes a ticket twice (`search.go:116`) | `search.go:83` |
| Moving: RenumbersItsColumn | MCMoving | the renumbering writes a card that has left the column meanwhile (`move.go:252`) | `move.go:246` |
| Moving: OneRenumberIsEnough | MCMoving | a card that came in between takes the room (`move.go:243`) | `move.go:178` |

ReadsAreTrue and the two label properties are one lesson: under READ COMMITTED a
subquery in a statement that waits is not re-evaluated with the row.

Where a property that is checked says "but for", that is a hazard the code has
and leaves open; each is a named conjunct:

- ApprovalHolds: an approval that commits between a save's look and its commit
  stands over the new text (`stale.go:123`); many small edits, each under the
  threshold, can replace all that was approved (`stale.go:217`; the run has a
  threshold of 0).
- PrivateViewsAreSwept: a private view created or made private between the sweep
  and the delete of its owner stays without one (`api/account.go:71`).
- StrayFilesAreKnown: `.tmp` is never emptied (`storage/local.go:74`), and a file
  whose removal failed is never looked for again.
- ServesItsSchema: Ahead, Pending and Up take the lock one after another
  (`main.go:134`), so a tool may change the schema between a server's look and
  its start; nor does a serving server notice.
- IndexFollowsSources: an older release beside a newer goes on writing rows of
  its format after the rebuild (`version.go:41`), and cmd/reindex takes no lock;
  a renamed project has one row, of a name it had.
- ClientFollowsPlan: frames without a version that were published out of commit
  order leave a client with older data until it re-lists (`crossed`); a leave
  that waits for its ticket announces the labels from before the wait at the
  newest version (`ticket/membership.go:199`, the same as ClientHasTheLabels), so
  for those labels the client is wrong until the ticket is announced again or it
  re-lists (`behind`). Without either exception TLC refutes the property. The
  second is of labels that are there: it excuses no name of one that is gone.

Noted while modelling, without a property: deleting the owner's account while
others remain leaves no owner, and LogOutEverywhere has no caller; two reorders
of one type may deadlock on its rows and the loser answers 500; `aspect.fields`
orders by position and id, FieldIDs by position, label and id; a comment's search
row keeps the title its document had; RemoveField meets values where
`docs/review-requests.md:129` says nothing removes a field ("none exists today");
the fingerprint of a cursor covers neither the documents list's `archived` nor
the saved views' `project_id` (`read.go:171`, `savedview.go:508`); a setting's
value JSON `null` passes the integer check of review.stale_threshold_percent;
sprint.length_days claims to be written into a sprint's end date and
sprint.Create never reads it; AddToSprint does not map the foreign key of a sprint
deleted meanwhile, so that caller gets a 500; an older image asked to go down
undoes the newest migration *it* knows (`runner.go:127`).

## 8. What is not modelled

- *Of the parts that are modelled*: links between tickets and documents (one
  statement each, idempotent by their primary key); ReorderStatuses (Aspects has
  the same protocol for fields); relabelling a field; the scope a document is
  filed under; a position's 32 bits (a caller may set any, and a drop past the
  largest is refused by the database); texts, names, colours and their limits;
  positions of faults in a filter; who may reach what, except where reach is
  lost in between (Accounts, Lists, Attachments, Planning).
- *Projects and teams*: one transaction each; the statuses a team and the board
  a project are seeded with are in TeamBoards, their lists in Lists, the search
  row of a project, which a rename leaves stale, in Startup.
- *Stateless parts*: handlers beyond those whose publishing is modelled, MCP,
  export, configuration, the frontend, the helpers.
- *Outside the source*: Postgres (its locks, snapshots and commits are modelled
  from its documented behaviour at READ COMMITTED), the websocket library (its
  outcomes), the client (its documented rules; reconnecting is Relist in
  Planning), the file system (a rename is whole or not at all).
- Crashes of Postgres, and the durability of its commits, are taken as given.
