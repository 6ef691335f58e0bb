------------------------------ MODULE TeamBoards ------------------------------
(***************************************************************************)
(* One team's statuses, its boards' columns, and its tickets' statuses:    *)
(* src/internal/team/status.go, src/internal/board/board.go, the seeding   *)
(* of a project's board, and the ticket writes that set a status.          *)
(*                                                                         *)
(* Every operation is a transaction of Postgres under READ COMMITTED.  A   *)
(* step is one statement (or several between which nothing another         *)
(* transaction does can be seen): it reads what is committed then, waits   *)
(* for the row locks it needs, and what it writes is seen at its commit.   *)
(*                                                                         *)
(* Row locks are not a variable: where a transaction stands says what it   *)
(* holds.  FOR UPDATE excludes every other lock; FOR SHARE and the KEY     *)
(* SHARE of a foreign key exclude FOR UPDATE.                              *)
(*                                                                         *)
(* Ops names the operations a model enables.                               *)
(***************************************************************************)
EXTENDS Naturals, FiniteSets

CONSTANTS
    Requests,    \* the requests, each one call of one operation
    Statuses,    \* status ids; NoStatus is SQL's NULL
    Boards,      \* board ids, compared as numbers: joinBoards locks in id order
    Columns,     \* board_column ids
    Tickets,
    Categories,
    NoStatus, NoBoard, NoColumn, NoTicket,
    StatusPosition, \* status.position
    Seeded,      \* the initial columns: a set of [c |-> column, b |-> board, s |-> status]
    Category0,   \* the initial statuses' category
    MaxPosition, \* bound of the model: no column is appended beyond it
    Ops

AllOps == {"createStatus", "updateStatus", "deleteStatus", "createBoard", "deleteBoard",
           "addColumn", "setColumn", "deleteColumn", "reorderColumns", "writeTicket", "readBoard"}

Status0 == {x.s : x \in Seeded}
Board0  == {x.b : x \in Seeded}

ASSUME TeamBoardsAssumption ==
    /\ Boards \subseteq Nat /\ NoBoard \in Nat \ Boards
    /\ NoStatus \notin Statuses /\ NoColumn \notin Columns
    /\ NoTicket \notin Statuses \cup {NoStatus}
    /\ {"unused", "gone"} \cap Categories = {}
    /\ StatusPosition \in [Statuses -> Nat]
    /\ Seeded \subseteq [c : Columns, b : Boards, s : Statuses]
    /\ \A x, y \in Seeded : x.c = y.c \/ (x.b = y.b /\ x.s = y.s) => x = y
    /\ Category0 \in [Statuses -> Categories]
    /\ MaxPosition \in Nat
    /\ Ops \subseteq AllOps

VARIABLES
    category, \* status: its category, "unused" (no such row yet) or "gone" (deleted)
    board,    \* board: "unused", "live" or "gone"
    column,   \* board_column: its board, NoBoard when there is no such row
    pos,      \* board_column.position
    mapping,  \* board_column_status: <<column, status>>
    ticket,   \* ticket.status_id, or NoTicket
    at,       \* where each transaction stands
    tx,       \* its arguments, what it read, and what it has yet to commit
    shown,    \* what Get returned: <<column, status>>
    byHand    \* history: <<board, status>> unmapped by a column write, before Init too

dbVars == <<category, board, column, pos, mapping, ticket>>
vars   == <<category, board, column, pos, mapping, ticket, at, tx, shown, byHand>>

Points == {"new", "done", "joinLock", "join", "delMoveTo", "delShare", "delCount", "delMove", "delCommit",
           "seed", "dropBoard", "addCheck", "addWrite", "addCommit", "setCheck", "setWrite",
           "setCommit", "dropColumn", "reorderCheck", "reorder", "ticketCommit", "readStatuses"}

Tx == [s : Statuses \cup {NoStatus}, to : Statuses \cup {NoStatus}, cat : Categories \cup {"unused"},
       b : Boards \cup {NoBoard}, c : Columns \cup {NoColumn}, t : Tickets \cup {NoTicket},
       want : SUBSET Statuses, todo : SUBSET Boards, locks : SUBSET Boards,
       seen : SUBSET Columns, cols : SUBSET Columns, maps : SUBSET (Columns \X Statuses)]

NoTx == [s |-> NoStatus, to |-> NoStatus, cat |-> "unused", b |-> NoBoard, c |-> NoColumn,
         t |-> NoTicket, want |-> {}, todo |-> {}, locks |-> {}, seen |-> {}, cols |-> {}, maps |-> {}]

TypeOK ==
    /\ category \in [Statuses -> Categories \cup {"unused", "gone"}]
    /\ board \in [Boards -> {"unused", "live", "gone"}]
    /\ column \in [Columns -> Boards \cup {NoBoard}]
    /\ pos \in [Columns -> Nat]
    /\ mapping \in SUBSET (Columns \X Statuses)
    /\ ticket \in [Tickets -> Statuses \cup {NoStatus, NoTicket}]
    /\ at \in [Requests -> Points]
    /\ tx \in [Requests -> Tx]
    /\ shown \in [Requests -> SUBSET (Columns \X Statuses)]
    /\ byHand \in SUBSET (Boards \X Statuses)

Init ==
    /\ category = [s \in Statuses |-> IF s \in Status0 THEN Category0[s] ELSE "unused"]
    /\ board = [b \in Boards |-> IF b \in Board0 THEN "live" ELSE "unused"]
    /\ column = [c \in Columns |->
                    IF \E x \in Seeded : x.c = c
                    THEN (CHOOSE x \in Seeded : x.c = c).b ELSE NoBoard]
    /\ pos = [c \in Columns |->
                 IF \E x \in Seeded : x.c = c
                 THEN StatusPosition[(CHOOSE x \in Seeded : x.c = c).s] ELSE 0]
    /\ mapping = {<<x.c, x.s>> : x \in Seeded}
    /\ ticket \in [Tickets -> Status0 \cup {NoTicket}]
    /\ at = [p \in Requests |-> "new"]
    /\ tx = [p \in Requests |-> NoTx]
    /\ shown = [p \in Requests |-> {}]
    /\ byHand = (Board0 \X Status0) \ {<<x.b, x.s>> : x \in Seeded}

-----------------------------------------------------------------------------
(* What a statement sees, and what it has to wait for.                     *)

LiveStatuses == {s \in Statuses : category[s] \in Categories}

LiveBoards == {b \in Boards : board[b] = "live"}

\* A row inserted by a transaction still open is seen by that one alone.
Committed(c) == \A q \in Requests : c \notin tx[q].cols

ColumnsOf(b) == {c \in Columns : column[c] = b /\ Committed(c)}

HeldOn(cols) == {s \in Statuses : \E c \in cols : <<c, s>> \in mapping}

Others(p) == Requests \ {p}

BoardFree(p, b) == \A q \in Others(p) : b \notin tx[q].locks

\* SELECT ... FOR UPDATE on the status being deleted.
ForUpdate(q, s) ==
    at[q] \in {"delMoveTo", "delShare", "delCount", "delMove", "delCommit"} /\ tx[q].s = s

\* SELECT ... FOR SHARE on move_to, which takes nothing when the row is gone.
ForShare(q, s) ==
    at[q] \in {"delCount", "delMove", "delCommit"} /\ tx[q].to = s

\* The foreign keys of board_column_status and of ticket.
KeyShare(q, s) ==
    \/ \E c \in Columns : <<c, s>> \in tx[q].maps
    \/ at[q] = "ticketCommit" /\ tx[q].s = s

\* A foreign key to s can be checked: nobody is about to delete it.
Referable(p, s) == \A q \in Others(p) : ~ForUpdate(q, s)

\* The ticket row is not being written by another transaction.
TicketFree(p, t) ==
    \A q \in Others(p) :
        /\ ~(at[q] = "ticketCommit" /\ tx[q].t = t)
        /\ ~(at[q] = "delCommit" /\ tx[q].to # NoStatus /\ ticket[t] = tx[q].s)

Begins(p, op) == op \in Ops /\ at[p] = "new"

\* The transaction goes on to the next statement.
Step(p, point, t) ==
    /\ at' = [at EXCEPT ![p] = point]
    /\ tx' = [tx EXCEPT ![p] = t]

\* It ends: committed by whoever calls this, or with nothing written.
End(p) ==
    /\ at' = [at EXCEPT ![p] = "done"]
    /\ tx' = [tx EXCEPT ![p] = NoTx]

\* The columns' rows go, or were never committed.  A position goes with its row.
Without(cols) ==
    /\ column' = [c \in Columns |-> IF c \in cols THEN NoBoard ELSE column[c]]
    /\ pos' = [c \in Columns |-> IF c \in cols THEN 0 ELSE pos[c]]

Refuse(p) ==
    /\ End(p)
    /\ Without(tx[p].cols)
    /\ UNCHANGED <<category, board, mapping, ticket, shown, byHand>>

\* A failed statement, a lost connection, a cancelled request, or the victim of
\* a deadlock: the deferred Rollback.
Abort(p) ==
    /\ at[p] \notin {"new", "done"}
    /\ Refuse(p)

NextPosition(cols) ==
    IF cols = {} THEN 1 ELSE 1 + CHOOSE n \in {pos[c] : c \in cols} : \A c \in cols : pos[c] <= n

\* An id no request has ever heard of, or none that is still open.
Fresh(c) == column[c] = NoBoard /\ \A q \in Requests : tx[q].c # c /\ c \notin tx[q].seen

\* INSERT INTO board_column, at the end of the board.
Append(p, c, b) ==
    /\ Fresh(c)
    /\ NextPosition(ColumnsOf(b)) <= MaxPosition
    /\ column' = [column EXCEPT ![c] = b]
    /\ pos' = [pos EXCEPT ![c] = NextPosition(ColumnsOf(b))]

-----------------------------------------------------------------------------
(* CreateStatus and joinBoards.                                            *)

\* The insert, then the snapshot of SELECT id FROM board ... FOR UPDATE.
CreateStatus(p) ==
    /\ Begins(p, "createStatus")
    /\ \E s \in Statuses, k \in Categories :
          /\ category[s] = "unused"
          /\ \A q \in Requests : tx[q].s # s
          /\ Step(p, "joinLock", [NoTx EXCEPT !.s = s, !.cat = k, !.todo = LiveBoards])
    /\ UNCHANGED dbVars
    /\ UNCHANGED <<shown, byHand>>

\* Takes the next board's lock; a board deleted while it waited drops out.
JoinLock(p) ==
    /\ at[p] = "joinLock"
    /\ \E b \in tx[p].todo :
          /\ \A d \in tx[p].todo : b <= d
          /\ \/ /\ board[b] = "gone"
                /\ Step(p, "joinLock", [tx[p] EXCEPT !.todo = @ \ {b}])
             \/ /\ board[b] = "live"
                /\ BoardFree(p, b)
                /\ Step(p, "joinLock", [tx[p] EXCEPT !.todo = @ \ {b}, !.locks = @ \cup {b}])
    /\ UNCHANGED dbVars
    /\ UNCHANGED <<shown, byHand>>

JoinLocked(p) ==
    /\ at[p] = "joinLock"
    /\ tx[p].todo = {}
    /\ Step(p, "join", [tx[p] EXCEPT !.todo = tx[p].locks])
    /\ UNCHANGED dbVars
    /\ UNCHANGED <<shown, byHand>>

\* The columns of b that hold a status of the new status's category.
Fitting(p, b) ==
    {c \in ColumnsOf(b) : \E s \in LiveStatuses : <<c, s>> \in mapping /\ category[s] = tx[p].cat}

\* Mutant of JoinBoard: a board with no fitting column is passed over.
JoinBoard_OnlyFitting(p) ==
    /\ at[p] = "join"
    /\ \E b \in tx[p].todo :
          \/ /\ Fitting(p, b) = {}
             /\ Step(p, "join", [tx[p] EXCEPT !.todo = @ \ {b}])
          \/ \E c \in Fitting(p, b) :
                Step(p, "join", [tx[p] EXCEPT !.todo = @ \ {b}, !.maps = @ \cup {<<c, tx[p].s>>}])
    /\ UNCHANGED dbVars
    /\ UNCHANGED <<shown, byHand>>

\* One board: the first fitting column, or a new one at the end.
JoinBoard(p) ==
    /\ at[p] = "join"
    /\ \E b \in tx[p].todo, c \in Columns :
          /\ \/ /\ c \in Fitting(p, b)
                /\ \A d \in Fitting(p, b) : pos[c] <= pos[d]
                /\ Step(p, "join", [tx[p] EXCEPT !.todo = @ \ {b},
                                                 !.maps = @ \cup {<<c, tx[p].s>>}])
                /\ UNCHANGED <<column, pos>>
             \/ /\ Fitting(p, b) = {}
                /\ Append(p, c, b)
                /\ Step(p, "join", [tx[p] EXCEPT !.todo = @ \ {b}, !.cols = @ \cup {c},
                                                 !.maps = @ \cup {<<c, tx[p].s>>}])
    /\ UNCHANGED <<category, board, mapping, ticket, shown, byHand>>

CreateStatusCommit(p) ==
    /\ at[p] = "join"
    /\ tx[p].todo = {}
    /\ category' = [category EXCEPT ![tx[p].s] = tx[p].cat]
    /\ mapping' = mapping \cup tx[p].maps
    /\ End(p)
    /\ UNCHANGED <<board, column, pos, ticket, shown, byHand>>

\* UpdateStatus: one statement.  Its row lock waits for a delete, and for the
\* FOR SHARE of one.  Names and colours are left out.
UpdateStatus(p) ==
    /\ Begins(p, "updateStatus")
    /\ \E s \in LiveStatuses, k \in Categories :
          /\ \A q \in Others(p) : ~ForUpdate(q, s) /\ ~ForShare(q, s)
          /\ category' = [category EXCEPT ![s] = k]
    /\ End(p)
    /\ UNCHANGED <<board, column, pos, mapping, ticket, shown, byHand>>

-----------------------------------------------------------------------------
(* DeleteStatus.                                                           *)

\* The status row, FOR UPDATE.
DeleteStatus(p) ==
    /\ Begins(p, "deleteStatus")
    /\ \E s \in LiveStatuses, to \in Statuses \cup {NoStatus} :
          /\ \A q \in Others(p) : ~ForUpdate(q, s) /\ ~ForShare(q, s) /\ ~KeyShare(q, s)
          /\ Step(p, IF to = NoStatus THEN "delCount" ELSE "delMoveTo",
                  [NoTx EXCEPT !.s = s, !.to = to])
    /\ UNCHANGED dbVars
    /\ UNCHANGED <<shown, byHand>>

\* SELECT EXISTS: move_to is another status of the team, or ErrMoveToNotFound.
DeleteCheckMoveTo(p) ==
    /\ at[p] = "delMoveTo"
    /\ IF tx[p].to \in LiveStatuses \ {tx[p].s} THEN Step(p, "delShare", tx[p]) ELSE End(p)
    /\ UNCHANGED dbVars
    /\ UNCHANGED <<shown, byHand>>

\* SELECT 1 ... FOR SHARE.  No row is no error: Exec does not look.
DeleteShare(p) ==
    /\ at[p] = "delShare"
    /\ \A q \in Others(p) : ~ForUpdate(q, tx[p].to)
    /\ Step(p, "delCount", tx[p])
    /\ UNCHANGED dbVars
    /\ UNCHANGED <<shown, byHand>>

With(s) == {t \in Tickets : ticket[t] = s}

\* Mutant of DeleteCount: a used status is deleted all the same.
DeleteCount_Unchecked(p) ==
    /\ at[p] = "delCount"
    /\ Step(p, IF tx[p].to = NoStatus THEN "delCommit" ELSE "delMove", tx[p])
    /\ UNCHANGED dbVars
    /\ UNCHANGED <<shown, byHand>>

\* CountWithStatus, the count of statuses and CountInTeam: StatusInUse, or go on.
DeleteCount(p) ==
    /\ at[p] = "delCount"
    /\ IF /\ tx[p].to = NoStatus
          /\ IF Cardinality(LiveStatuses) = 1
             THEN \E t \in Tickets : ticket[t] # NoTicket
             ELSE With(tx[p].s) # {}
       THEN End(p)
       ELSE Step(p, IF tx[p].to = NoStatus THEN "delCommit" ELSE "delMove", tx[p])
    /\ UNCHANGED dbVars
    /\ UNCHANGED <<shown, byHand>>

\* MoveStatus's UPDATE: it waits for every ticket it writes, and fails on the
\* foreign key when there is one to write and move_to is gone.
DeleteMove(p) ==
    /\ at[p] = "delMove"
    /\ \A t \in With(tx[p].s) : TicketFree(p, t)
    /\ With(tx[p].s) # {} => Referable(p, tx[p].to)
    /\ IF With(tx[p].s) # {} /\ tx[p].to \notin LiveStatuses
       THEN End(p)
       ELSE Step(p, "delCommit", tx[p])
    /\ UNCHANGED dbVars
    /\ UNCHANGED <<shown, byHand>>

\* Mutant of DeleteCommit: the mapping is re-pointed at move_to, as before LAM-134.
DeleteCommit_Repoints(p) ==
    /\ at[p] = "delCommit"
    /\ category' = [category EXCEPT ![tx[p].s] = "gone"]
    /\ ticket' = [t \in Tickets |-> IF ticket[t] = tx[p].s THEN tx[p].to ELSE ticket[t]]
    /\ mapping' = {m \in mapping : m[2] # tx[p].s} \cup
                  {<<m[1], tx[p].to>> : m \in {n \in mapping : n[2] = tx[p].s /\ tx[p].to # NoStatus}}
    /\ End(p)
    /\ UNCHANGED <<board, column, pos, shown, byHand>>

\* Unmapped from every column, deleted, committed.  ON DELETE SET NULL would
\* write NULL to a ticket still there.
DeleteCommit(p) ==
    /\ at[p] = "delCommit"
    /\ category' = [category EXCEPT ![tx[p].s] = "gone"]
    /\ ticket' = [t \in Tickets |-> IF ticket[t] = tx[p].s THEN tx[p].to ELSE ticket[t]]
    /\ mapping' = {m \in mapping : m[2] # tx[p].s}
    /\ End(p)
    /\ UNCHANGED <<board, column, pos, shown, byHand>>

-----------------------------------------------------------------------------
(* Boards: Create (and project.seedBoard), Delete.                         *)

\* The board's row and team.Statuses, one snapshot.
CreateBoard(p) ==
    /\ Begins(p, "createBoard")
    /\ \E b \in Boards :
          /\ board[b] = "unused"
          /\ \A q \in Requests : tx[q].b # b
          /\ Step(p, "seed", [NoTx EXCEPT !.b = b, !.want = LiveStatuses])
    /\ UNCHANGED dbVars
    /\ UNCHANGED <<shown, byHand>>

\* A column for the next status, and its mapping: the foreign key waits for a
\* delete of the status, and fails after it.
SeedColumn(p) ==
    /\ at[p] = "seed"
    /\ \E s \in tx[p].want, c \in Columns :
          /\ Referable(p, s)
          /\ s \in LiveStatuses
          /\ Fresh(c)
          /\ column' = [column EXCEPT ![c] = tx[p].b]
          /\ pos' = [pos EXCEPT ![c] = StatusPosition[s]]
          /\ Step(p, "seed", [tx[p] EXCEPT !.want = @ \ {s}, !.cols = @ \cup {c},
                                           !.maps = @ \cup {<<c, s>>}])
    /\ UNCHANGED <<category, board, mapping, ticket, shown, byHand>>

SeedFails(p) ==
    /\ at[p] = "seed"
    /\ tx[p].want \cap {s \in Statuses : category[s] = "gone"} # {}
    /\ Refuse(p)

CreateBoardCommit(p) ==
    /\ at[p] = "seed"
    /\ tx[p].want = {}
    /\ board' = [board EXCEPT ![tx[p].b] = "live"]
    /\ mapping' = mapping \cup tx[p].maps
    /\ End(p)
    /\ UNCHANGED <<category, column, pos, ticket, shown, byHand>>

\* lock, and load with FOR UPDATE: the board's row.  A board that is gone is
\* ErrNotFound.
LockBoard(p, op, point, t) ==
    /\ Begins(p, op)
    /\ board[t.b] = "live"
    /\ BoardFree(p, t.b)
    /\ Step(p, point, [t EXCEPT !.locks = {t.b}])
    /\ UNCHANGED dbVars
    /\ UNCHANGED <<shown, byHand>>

DeleteBoard(p) ==
    \E b \in Boards : LockBoard(p, "deleteBoard", "dropBoard", [NoTx EXCEPT !.b = b])

\* Columns and mappings cascade.
DeleteBoardCommit(p) ==
    /\ at[p] = "dropBoard"
    /\ board' = [board EXCEPT ![tx[p].b] = "gone"]
    /\ Without(ColumnsOf(tx[p].b))
    /\ mapping' = {m \in mapping : m[1] \notin ColumnsOf(tx[p].b)}
    /\ End(p)
    /\ UNCHANGED <<category, ticket, shown, byHand>>

-----------------------------------------------------------------------------
(* Column writes, all under the board's lock.                              *)

AddColumn(p) ==
    \E b \in Boards, w \in SUBSET Statuses :
        LockBoard(p, "addColumn", "addCheck", [NoTx EXCEPT !.b = b, !.want = w])

\* The column is any id: one of another board, or one that is gone, is refused.
SetColumnStatuses(p) ==
    \E b \in Boards, c \in Columns, w \in SUBSET Statuses :
        LockBoard(p, "setColumn", "setCheck", [NoTx EXCEPT !.b = b, !.c = c, !.want = w])

DeleteColumn(p) ==
    \E b \in Boards, c \in Columns :
        LockBoard(p, "deleteColumn", "dropColumn", [NoTx EXCEPT !.b = b, !.c = c])

ReorderColumns(p) ==
    \E b \in Boards : LockBoard(p, "reorderColumns", "reorderCheck", [NoTx EXCEPT !.b = b])

\* checkStatuses: of the team, and held by no other column of the board.
StatusesAreFree(p) ==
    /\ tx[p].want \subseteq LiveStatuses
    /\ tx[p].want \cap HeldOn(ColumnsOf(tx[p].b) \ {tx[p].c}) = {}

Check(p, from, to) ==
    /\ at[p] = from
    /\ IF StatusesAreFree(p) THEN Step(p, to, tx[p]) ELSE End(p)
    /\ UNCHANGED dbVars
    /\ UNCHANGED <<shown, byHand>>

AddCheck(p) == Check(p, "addCheck", "addWrite")

SetCheck(p) == tx[p].c \in ColumnsOf(tx[p].b) /\ Check(p, "setCheck", "setWrite")

\* ON CONFLICT DO NOTHING leaves alone what the column already holds.
NewToColumn(p) == tx[p].want \ HeldOn({tx[p].c})

\* mapStatuses: the foreign keys of the rows it inserts wait for a delete of the
\* status, and fail after it.
Mappable(p) ==
    /\ \A s \in NewToColumn(p) : Referable(p, s)
    /\ tx[p].want \subseteq LiveStatuses

AddWrite(p) ==
    /\ at[p] = "addWrite"
    /\ Mappable(p)
    /\ \E c \in Columns :
          /\ Append(p, c, tx[p].b)
          /\ Step(p, "addCommit", [tx[p] EXCEPT !.c = c, !.cols = {c}, !.maps = {c} \X tx[p].want])
    /\ UNCHANGED <<category, board, mapping, ticket, shown, byHand>>

SetWrite(p) ==
    /\ at[p] = "setWrite"
    /\ Mappable(p)
    /\ Step(p, "setCommit", [tx[p] EXCEPT !.maps = {tx[p].c} \X NewToColumn(p)])
    /\ UNCHANGED dbVars
    /\ UNCHANGED <<shown, byHand>>

\* A status of the set was deleted after checkStatuses read it.
WriteFails(p) ==
    /\ at[p] \in {"addWrite", "setWrite"}
    /\ ~(tx[p].want \subseteq LiveStatuses)
    /\ Refuse(p)

AddCommit(p) ==
    /\ at[p] = "addCommit"
    /\ mapping' = mapping \cup tx[p].maps
    /\ End(p)
    /\ UNCHANGED <<category, board, column, pos, ticket, shown, byHand>>

\* The mappings of column c that go, and the history of them.
Unmap(b, c, keep) ==
    byHand' = byHand \cup {<<b, s>> : s \in HeldOn({c}) \ keep}

SetCommit(p) ==
    /\ at[p] = "setCommit"
    /\ mapping' = {m \in mapping : m[1] = tx[p].c => m[2] \in tx[p].want} \cup tx[p].maps
    /\ Unmap(tx[p].b, tx[p].c, tx[p].want)
    /\ End(p)
    /\ UNCHANGED <<category, board, column, pos, ticket, shown>>

\* ErrColumnNotFound, of requireColumn or of DeleteColumn's own search.
SetColumnGone(p) ==
    /\ at[p] \in {"setCheck", "dropColumn"}
    /\ tx[p].c \notin ColumnsOf(tx[p].b)
    /\ Refuse(p)

DeleteColumnCommit(p) ==
    /\ at[p] = "dropColumn"
    /\ tx[p].c \in ColumnsOf(tx[p].b)
    /\ Without({tx[p].c})
    /\ mapping' = {m \in mapping : m[1] # tx[p].c}
    /\ Unmap(tx[p].b, tx[p].c, {})
    /\ End(p)
    /\ UNCHANGED <<category, board, ticket, shown>>

\* columnsOf: a list that is not the board's set is refused.
ReorderCheck(p) ==
    /\ at[p] = "reorderCheck"
    /\ Step(p, "reorder", [tx[p] EXCEPT !.seen = ColumnsOf(tx[p].b)])
    /\ UNCHANGED dbVars
    /\ UNCHANGED <<shown, byHand>>

\* Positions 1..n, in the order sent.
ReorderCommit(p) ==
    /\ at[p] = "reorder"
    /\ LET cols == tx[p].seen
       IN  \E order \in [cols -> 1..Cardinality(cols)] :
              /\ \A c, d \in cols : order[c] = order[d] => c = d
              /\ pos' = [c \in Columns |-> IF c \in cols THEN order[c] ELSE pos[c]]
    /\ End(p)
    /\ UNCHANGED <<category, board, column, mapping, ticket, shown, byHand>>

-----------------------------------------------------------------------------
(* Ticket writes that set a status: Create, Update, Move.                  *)

\* The statement checks the status and the foreign key locks it.
WriteTicket(p) ==
    /\ Begins(p, "writeTicket")
    /\ \E t \in Tickets, s \in LiveStatuses \cup {NoStatus} :
          /\ TicketFree(p, t)
          /\ Referable(p, s)
          /\ Step(p, "ticketCommit", [NoTx EXCEPT !.t = t, !.s = s])
    /\ UNCHANGED dbVars
    /\ UNCHANGED <<shown, byHand>>

TicketCommit(p) ==
    /\ at[p] = "ticketCommit"
    /\ ticket' = [ticket EXCEPT ![tx[p].t] = tx[p].s]
    /\ End(p)
    /\ UNCHANGED <<category, board, column, pos, mapping, shown, byHand>>

-----------------------------------------------------------------------------
(* Get and List, on the pool and with no lock: attachColumns' two statements. *)

ReadColumns(p) ==
    /\ Begins(p, "readBoard")
    /\ \E b \in LiveBoards :
          Step(p, "readStatuses", [NoTx EXCEPT !.b = b, !.seen = ColumnsOf(b)])
    /\ UNCHANGED dbVars
    /\ UNCHANGED <<shown, byHand>>

\* col[colID] of a column the first statement did not return is [0, 0]: the
\* status is appended to the first column of the first board.
ReadStatuses(p) ==
    /\ at[p] = "readStatuses"
    /\ LET now  == {m \in mapping : m[1] \in ColumnsOf(tx[p].b)}
           seen == tx[p].seen
       IN  \/ /\ seen # {}
              /\ \E first \in seen :
                    /\ \A c \in seen : pos[first] <= pos[c]
                    /\ shown' = [shown EXCEPT ![p] =
                                    {<<IF m[1] \in seen THEN m[1] ELSE first, m[2]>> : m \in now}]
           \/ /\ seen = {} \* with no first column the index panics
              /\ shown' = [shown EXCEPT ![p] = {}]
    /\ End(p)
    /\ UNCHANGED dbVars
    /\ UNCHANGED byHand

-----------------------------------------------------------------------------

StatusRequest(p) ==
    \/ CreateStatus(p) \/ JoinLock(p) \/ JoinLocked(p) \/ JoinBoard(p) \/ CreateStatusCommit(p)
    \/ UpdateStatus(p)
    \/ DeleteStatus(p) \/ DeleteCheckMoveTo(p) \/ DeleteShare(p) \/ DeleteCount(p)
    \/ DeleteMove(p) \/ DeleteCommit(p)

BoardRequest(p) ==
    \/ CreateBoard(p) \/ SeedColumn(p) \/ SeedFails(p) \/ CreateBoardCommit(p)
    \/ DeleteBoard(p) \/ DeleteBoardCommit(p)
    \/ AddColumn(p) \/ AddCheck(p) \/ AddWrite(p) \/ AddCommit(p)
    \/ SetColumnStatuses(p) \/ SetCheck(p) \/ SetWrite(p) \/ SetCommit(p)
    \/ WriteFails(p) \/ SetColumnGone(p)
    \/ DeleteColumn(p) \/ DeleteColumnCommit(p)
    \/ ReorderColumns(p) \/ ReorderCheck(p) \/ ReorderCommit(p)
    \/ ReadColumns(p) \/ ReadStatuses(p)

Next ==
    \E p \in Requests :
        \/ StatusRequest(p)
        \/ BoardRequest(p)
        \/ WriteTicket(p) \/ TicketCommit(p)
        \/ Abort(p)

Spec == Init /\ [][Next]_vars

-----------------------------------------------------------------------------

\* "A status sits in one column of a board.  The board service enforces that"
\* (migration 0047): no schema constraint does, only the board's row lock between
\* checkStatuses and the write, and the care of joinBoards and DeleteStatus.
OneColumnPerBoard ==
    \A b \in Boards : \A c, d \in ColumnsOf(b) : \A s \in Statuses :
        <<c, s>> \in mapping /\ <<d, s>> \in mapping => c = d

\* ON DELETE SET NULL "would happily leave tickets statusless": deleting a status
\* never takes a ticket's status away; only a write of that ticket does.
NoTicketLosesItsStatus ==
    [][\A t \in Tickets :
          ticket[t] \in Statuses /\ ticket'[t] = NoStatus =>
              \E p \in Requests : at[p] = "ticketCommit" /\ tx[p].t = t]_vars

\* s is on a column of b, or a column write took it off.
IsOn(b, s) == s \in HeldOn(ColumnsOf(b)) \/ <<b, s>> \in byHand

\* LAM-202: "the new status also joins every board of the team, so its tickets do
\* not vanish from them": every board that was there first, through the deletion
\* and the renumbering of columns and the deletion of other boards.
StatusesJoinOldBoards == \A b \in LiveBoards \cap Board0, s \in LiveStatuses : IsOn(b, s)

\* The same of every board.
EveryStatusIsOnEveryBoard == \A b \in LiveBoards, s \in LiveStatuses : IsOn(b, s)

\* DeleteStatus: "the last one: no other status can be move_to, so the only way
\* through is a team with no tickets at all".
LastStatusNeedsNoTickets ==
    [][LiveStatuses # {} /\ LiveStatuses' = {} => \A t \in Tickets : ticket[t] = NoTicket]_vars

\* attachColumns "fills Columns on every board in two statements": whatever Get
\* shows in a column is in that column when the second one runs.
ReadsAreTrue ==
    [][\A p \in Requests : at[p] = "readStatuses" => shown'[p] \subseteq shown[p] \cup mapping]_vars

=============================================================================
