--------------------------- MODULE TeamBoardsProofs ---------------------------
(***************************************************************************)
(* Theorems about TeamBoards, for any number of requests, statuses,        *)
(* boards, columns and tickets: deleting a status never takes a ticket's   *)
(* status away, a status sits in one column of a board, and a new status   *)
(* joins every board that was there before it.                             *)
(***************************************************************************)
EXTENDS TeamBoards, TLAPS

Fields == {"s", "to", "cat", "b", "c", "t", "want", "todo", "locks", "seen", "cols", "maps"}

\* The functions have the domains the steps look at.
Shape ==
    /\ DOMAIN category = Statuses /\ DOMAIN board = Boards /\ DOMAIN column = Columns
    /\ DOMAIN ticket = Tickets /\ DOMAIN at = Requests /\ DOMAIN tx = Requests
    /\ \A p \in Requests : DOMAIN tx[p] = Fields

Deleting == {"delMoveTo", "delShare", "delCount", "delMove", "delCommit"}

\* The row locks of a deletion exclude whoever could still give a ticket the
\* status, so what its count found stays true until it commits.
TicketInv ==
    /\ \A p \in Requests : at[p] \in Deleting => tx[p].s \in Statuses
    /\ \A p, q \in Requests : p # q /\ at[p] \in Deleting =>
        /\ ~ForUpdate(q, tx[p].s) /\ ~ForShare(q, tx[p].s)
        /\ at[q] = "ticketCommit" => tx[q].s # tx[p].s
    /\ \A p \in Requests : at[p] = "delMove" => tx[p].to # NoStatus
    /\ \A p \in Requests, t \in Tickets :
        at[p] = "delCommit" /\ tx[p].to = NoStatus => ticket[t] # tx[p].s

\* The boards whose rows are p's to write: those it has locked, and the one it makes.
Owns(p, b) == b \in tx[p].locks \/ (at[p] = "seed" /\ tx[p].b = b)

Joining == {"joinLock", "join"}
AtBoard == {"dropBoard", "addCheck", "addWrite", "addCommit", "setCheck", "setWrite", "setCommit",
            "dropColumn", "reorderCheck", "reorder"}

\* What p sees mapped once it commits.
Rows(p) == mapping \cup tx[p].maps

OnePer(rows) ==
    \A c, d \in Columns, s \in Statuses :
        <<c, s>> \in rows /\ <<d, s>> \in rows /\ column[c] = column[d] => c = d

\* What is committed.
Data ==
    /\ mapping \subseteq Columns \X Statuses
    /\ \A c \in Columns, s \in Statuses : <<c, s>> \in mapping =>
        /\ Committed(c) /\ column[c] \in Boards /\ board[column[c]] # "unused"
        /\ category[s] # "unused"
    /\ OnePer(mapping)

\* Nobody shares a board, or a status that is not there yet.
Apart ==
    \A p, q \in Requests : p # q =>
        /\ \A b \in Boards : ~(Owns(p, b) /\ Owns(q, b))
        /\ at[p] \in Joining /\ at[q] \in Joining => tx[p].s # tx[q].s

OwnBoards(p) ==
    /\ tx[p].locks \subseteq Boards /\ \A b \in tx[p].locks : board[b] # "unused"
    /\ at[p] = "seed" => tx[p].b \in Boards /\ board[tx[p].b] = "unused"
    /\ at[p] = "joinLock" => tx[p].todo \subseteq Boards /\ tx[p].maps = {}
    /\ at[p] = "join" => tx[p].todo \subseteq tx[p].locks
    /\ at[p] \in AtBoard => tx[p].b \in tx[p].locks

\* The rows p has yet to commit are on its boards.
OwnRows(p) ==
    /\ tx[p].maps \subseteq Columns \X Statuses
    /\ \A c \in tx[p].cols : c \in Columns /\ column[c] \in Boards /\ Owns(p, column[c])
    /\ \A c \in Columns, s \in Statuses :
        <<c, s>> \in tx[p].maps => column[c] \in Boards /\ Owns(p, column[c])

\* What p has yet to map is not on the board already.
OwnStatuses(p) ==
    /\ at[p] \in Joining => tx[p].s \in Statuses /\ category[tx[p].s] = "unused" /\ tx[p].cat \in Categories
    /\ at[p] \in Deleting => tx[p].s \in Statuses /\ category[tx[p].s] # "unused"
    /\ \A c \in Columns, s \in Statuses : <<c, s>> \in tx[p].maps =>
        /\ at[p] = "join" => column[c] \notin tx[p].todo
        /\ at[p] = "seed" => s \notin tx[p].want
        /\ category[s] # "unused" \/ (at[p] = "join" /\ s = tx[p].s)
    /\ at[p] \in {"addWrite", "setWrite"} =>
        \A c \in Columns, s \in Statuses :
            <<c, s>> \in mapping /\ s \in tx[p].want /\ column[c] = tx[p].b => c = tx[p].c
    /\ at[p] \in {"addCheck", "addWrite"} => tx[p].c = NoColumn
    /\ at[p] \in {"setWrite", "setCommit"} => tx[p].c \in Columns /\ column[tx[p].c] = tx[p].b
    /\ OnePer(Rows(p))

OwnInv(p) == OwnBoards(p) /\ OwnRows(p) /\ OwnStatuses(p)

ColumnInv == Data /\ Apart /\ \A p \in Requests : OwnInv(p)

-----------------------------------------------------------------------------
(* Steps of a transaction                                                  *)

LEMMA NoTxFacts ==
    /\ DOMAIN NoTx = Fields
    /\ NoTx.locks = {} /\ NoTx.cols = {} /\ NoTx.maps = {} /\ NoTx.todo = {}
BY DEF NoTx, Fields

LEMMA StepFacts ==
  ASSUME Shape, NEW p \in Requests, NEW s, NEW t, Step(p, s, t)
  PROVE  /\ at'[p] = s /\ tx'[p] = t
         /\ \A q \in Requests \ {p} : at'[q] = at[q] /\ tx'[q] = tx[q]
         /\ DOMAIN at' = Requests /\ DOMAIN tx' = Requests
BY DEF Step, Shape

LEMMA EndFacts ==
  ASSUME Shape, NEW p \in Requests, End(p)
  PROVE  Step(p, "done", NoTx)
BY DEF End, Step

\* What the steps that write no ticket and begin no deletion do to a request.
Quiet == {"done", "joinLock", "join", "seed", "dropBoard", "addCheck", "addWrite", "addCommit", "setCheck",
          "setWrite", "setCommit", "dropColumn", "reorderCheck", "reorder", "readStatuses"}

\* A step that is not of a deletion or of a ticket's write.
Other(p) ==
    \/ CreateStatus(p) \/ JoinLock(p) \/ JoinLocked(p) \/ JoinBoard(p) \/ CreateStatusCommit(p)
    \/ UpdateStatus(p) \/ BoardRequest(p) \/ Abort(p)

LEMMA OtherSteps ==
  ASSUME Shape, NEW p \in Requests, Other(p)
  PROVE  UNCHANGED ticket /\ \E s \in Quiet : \E t : Step(p, s, t)
<1>1. CASE CreateStatus(p) \/ JoinLock(p) \/ JoinLocked(p)
  BY <1>1 DEF CreateStatus, JoinLock, JoinLocked, dbVars, Quiet
<1>2. CASE JoinBoard(p) \/ SeedColumn(p)
  BY <1>2 DEF JoinBoard, SeedColumn, Quiet
<1>3. CASE CreateStatusCommit(p) \/ UpdateStatus(p) \/ CreateBoardCommit(p) \/ DeleteBoardCommit(p)
           \/ AddCommit(p) \/ SetCommit(p) \/ DeleteColumnCommit(p) \/ ReorderCommit(p)
  BY <1>3, EndFacts DEF CreateStatusCommit, UpdateStatus, CreateBoardCommit, DeleteBoardCommit,
                        AddCommit, SetCommit, DeleteColumnCommit, ReorderCommit, Quiet
<1>4. CASE Abort(p) \/ SeedFails(p) \/ WriteFails(p) \/ SetColumnGone(p)
  BY <1>4, EndFacts DEF Abort, SeedFails, WriteFails, SetColumnGone, Refuse, Quiet
<1>5. CASE DeleteBoard(p) \/ AddColumn(p) \/ SetColumnStatuses(p) \/ DeleteColumn(p) \/ ReorderColumns(p)
  BY <1>5 DEF DeleteBoard, AddColumn, SetColumnStatuses, DeleteColumn, ReorderColumns, LockBoard, dbVars, Quiet
<1>6. CASE AddCheck(p) \/ SetCheck(p)
  BY <1>6, EndFacts DEF AddCheck, SetCheck, Check, dbVars, Quiet
<1>7. CASE AddWrite(p) \/ SetWrite(p) \/ ReorderCheck(p) \/ ReadColumns(p) \/ CreateBoard(p)
  BY <1>7 DEF AddWrite, SetWrite, ReorderCheck, ReadColumns, CreateBoard, dbVars, Quiet
<1>8. CASE ReadStatuses(p)
  BY <1>8, EndFacts DEF ReadStatuses, dbVars, Quiet
<1>9. QED BY <1>1, <1>2, <1>3, <1>4, <1>5, <1>6, <1>7, <1>8 DEF Other, BoardRequest

LEMMA NextSteps ==
  ASSUME Next
  PROVE  \E p \in Requests :
            \/ Other(p)
            \/ DeleteStatus(p) \/ DeleteCheckMoveTo(p) \/ DeleteShare(p) \/ DeleteCount(p)
            \/ DeleteMove(p) \/ DeleteCommit(p)
            \/ WriteTicket(p) \/ TicketCommit(p)
BY DEF Next, StatusRequest, Other

-----------------------------------------------------------------------------
(* Tickets                                                                 *)

LEMMA TicketKept ==
  ASSUME Shape, TicketInv, UNCHANGED ticket, NEW p \in Requests, NEW s, NEW t, Step(p, s, t),
         s \notin Deleting \cup {"ticketCommit"}
  PROVE  TicketInv'
<1>1. at'[p] \notin Deleting /\ at'[p] # "ticketCommit"
  BY StepFacts
<1>2. \A q \in Requests \ {p} : at'[q] = at[q] /\ tx'[q] = tx[q]
  BY StepFacts
<1>3. QED BY <1>1, <1>2 DEF TicketInv, ForUpdate, ForShare, Deleting

LEMMA TicketNext == Shape /\ TicketInv /\ [Next]_vars => TicketInv'
<1> SUFFICES ASSUME Shape, TicketInv, [Next]_vars PROVE TicketInv'
  OBVIOUS
<1>1. CASE UNCHANGED vars
  BY <1>1 DEF vars, TicketInv, ForUpdate, ForShare
<1>2. ASSUME NEW p \in Requests, Other(p)
      PROVE  TicketInv'
  <2>1. PICK s, t : s \in Quiet /\ Step(p, s, t)
    BY <1>2, OtherSteps
  <2>2. s \notin Deleting \cup {"ticketCommit"}
    BY <2>1 DEF Quiet, Deleting
  <2>3. UNCHANGED ticket
    BY <1>2, OtherSteps
  <2>4. QED BY <2>1, <2>2, <2>3, TicketKept
<1>3. ASSUME NEW p \in Requests, End(p), UNCHANGED ticket
      PROVE  TicketInv'
  BY <1>3, EndFacts, TicketKept DEF Deleting
<1>4. ASSUME NEW p \in Requests, DeleteStatus(p)
      PROVE  TicketInv'
  <2>1. PICK s \in LiveStatuses, to \in Statuses \cup {NoStatus} :
           /\ \A q \in Others(p) : ~ForUpdate(q, s) /\ ~ForShare(q, s) /\ ~KeyShare(q, s)
           /\ Step(p, IF to = NoStatus THEN "delCount" ELSE "delMoveTo", [NoTx EXCEPT !.s = s, !.to = to])
    BY <1>4 DEF DeleteStatus
  <2> DEFINE n == [NoTx EXCEPT !.s = s, !.to = to]
             point == IF to = NoStatus THEN "delCount" ELSE "delMoveTo"
  <2>0. n.s = s /\ n.to = to /\ Step(p, point, n)
    BY <2>1, NoTxFacts DEF Fields
  <2>2. /\ at'[p] = IF to = NoStatus THEN "delCount" ELSE "delMoveTo"
        /\ tx'[p].s = s /\ tx'[p].to = to
        /\ \A q \in Requests \ {p} : at'[q] = at[q] /\ tx'[q] = tx[q]
    <3> HIDE DEF n
    <3>1. QED BY <2>0, StepFacts
  <2>3. s \in Statuses /\ NoStatus \notin Statuses
    BY <2>1, TeamBoardsAssumption DEF LiveStatuses
  <2>4. \A q \in Requests \ {p} : /\ ~ForUpdate(q, s) /\ ~ForShare(q, s)
                                  /\ at[q] = "ticketCommit" => tx[q].s # s
    BY <2>1 DEF Others, KeyShare
  <2>5. UNCHANGED ticket
    BY <1>4 DEF DeleteStatus, dbVars
  <2>6. QED BY <2>2, <2>3, <2>4, <2>5 DEF TicketInv, ForUpdate, ForShare, Deleting
<1>5. ASSUME NEW p \in Requests, DeleteCheckMoveTo(p)
      PROVE  TicketInv'
  <2>1. UNCHANGED ticket
    BY <1>5 DEF DeleteCheckMoveTo, dbVars
  <2>2. CASE Step(p, "delShare", tx[p])
    <3>1. at[p] = "delMoveTo" /\ at'[p] = "delShare" /\ \A q \in Requests : tx'[q] = tx[q] /\ (q # p => at'[q] = at[q])
      BY <1>5, <2>2, StepFacts DEF DeleteCheckMoveTo
    <3>2. QED BY <2>1, <3>1 DEF TicketInv, ForUpdate, ForShare, Deleting
  <2>3. QED BY <1>3, <1>5, <2>1, <2>2 DEF DeleteCheckMoveTo
<1>6. ASSUME NEW p \in Requests, DeleteShare(p)
      PROVE  TicketInv'
  <2>1. UNCHANGED ticket
    BY <1>6 DEF DeleteShare, dbVars
  <2>2. at[p] = "delShare" /\ at'[p] = "delCount" /\ \A q \in Requests : tx'[q] = tx[q] /\ (q # p => at'[q] = at[q])
    BY <1>6, StepFacts DEF DeleteShare
  <2>3. \A q \in Requests \ {p} : ~ForUpdate(q, tx[p].to)
    BY <1>6 DEF DeleteShare, Others
  <2>4. QED BY <2>1, <2>2, <2>3 DEF TicketInv, ForUpdate, ForShare, Deleting
<1>7. ASSUME NEW p \in Requests, DeleteCount(p)
      PROVE  TicketInv'
  <2>1. UNCHANGED ticket
    BY <1>7 DEF DeleteCount, dbVars
  <2>2. CASE ~End(p)
    <3>1. /\ at[p] = "delCount" /\ at'[p] = IF tx[p].to = NoStatus THEN "delCommit" ELSE "delMove"
          /\ \A q \in Requests : tx'[q] = tx[q] /\ (q # p => at'[q] = at[q])
      BY <1>7, <2>2, StepFacts DEF DeleteCount
    <3>2. tx[p].s \in Statuses /\ NoTicket \notin Statuses
      BY <3>1, TeamBoardsAssumption DEF TicketInv, Deleting
    <3>3. tx[p].to = NoStatus => \A t \in Tickets : ticket[t] # tx[p].s
      BY <1>7, <2>2, <3>2 DEF DeleteCount, With
    <3>4. QED BY <2>1, <3>1, <3>3 DEF TicketInv, ForUpdate, ForShare, Deleting
  <2>3. QED BY <1>3, <2>1, <2>2
<1>8. ASSUME NEW p \in Requests, DeleteMove(p)
      PROVE  TicketInv'
  <2>1. UNCHANGED ticket
    BY <1>8 DEF DeleteMove, dbVars
  <2>2. CASE Step(p, "delCommit", tx[p])
    <3>1. at[p] = "delMove" /\ at'[p] = "delCommit" /\ \A q \in Requests : tx'[q] = tx[q] /\ (q # p => at'[q] = at[q])
      BY <1>8, <2>2, StepFacts DEF DeleteMove
    <3>2. QED BY <2>1, <3>1 DEF TicketInv, ForUpdate, ForShare, Deleting
  <2>3. QED BY <1>3, <1>8, <2>1, <2>2 DEF DeleteMove
<1>9. ASSUME NEW p \in Requests, End(p),
             \A q \in Requests \ {p}, t \in Tickets :
                at[q] = "delCommit" /\ tx[q].to = NoStatus => ticket'[t] # tx[q].s
      PROVE  TicketInv'
  <2>0. Step(p, "done", NoTx)
    BY <1>9, EndFacts
  <2>1. at'[p] = "done" /\ \A q \in Requests \ {p} : at'[q] = at[q] /\ tx'[q] = tx[q]
    BY <2>0, StepFacts
  <2>2. QED BY <1>9, <2>1 DEF TicketInv, ForUpdate, ForShare, Deleting
<1>10. ASSUME NEW p \in Requests, DeleteCommit(p)
       PROVE  TicketInv'
  <2>1. \A t \in Tickets : ticket'[t] = IF ticket[t] = tx[p].s THEN tx[p].to ELSE ticket[t]
    BY <1>10 DEF DeleteCommit
  <2>2. \A q \in Requests \ {p} : at[q] = "delCommit" => tx[p].to # tx[q].s
    BY <1>10 DEF DeleteCommit, TicketInv, ForShare, Deleting
  <2>3. QED BY <1>9, <1>10, <2>1, <2>2 DEF DeleteCommit, TicketInv
<1>11. ASSUME NEW p \in Requests, TicketCommit(p)
       PROVE  TicketInv'
  <2>1. \A t \in Tickets : ticket'[t] = ticket[t] \/ ticket'[t] = tx[p].s
    BY <1>11 DEF TicketCommit, Shape
  <2>2. \A q \in Requests \ {p} : at[q] = "delCommit" => tx[p].s # tx[q].s
    BY <1>11 DEF TicketCommit, TicketInv, Deleting
  <2>3. QED BY <1>9, <1>11, <2>1, <2>2 DEF TicketCommit, TicketInv
<1>12. ASSUME NEW p \in Requests, WriteTicket(p)
       PROVE  TicketInv'
  <2>1. PICK t \in Tickets, s \in LiveStatuses \cup {NoStatus} :
           Referable(p, s) /\ Step(p, "ticketCommit", [NoTx EXCEPT !.t = t, !.s = s])
    BY <1>12 DEF WriteTicket
  <2> DEFINE n == [NoTx EXCEPT !.t = t, !.s = s]
  <2>0. n.s = s /\ Step(p, "ticketCommit", n)
    BY <2>1, NoTxFacts DEF Fields
  <2>2. /\ at'[p] = "ticketCommit" /\ tx'[p].s = s
        /\ \A q \in Requests \ {p} : at'[q] = at[q] /\ tx'[q] = tx[q]
    <3> HIDE DEF n
    <3>1. QED BY <2>0, StepFacts
  <2>3. \A q \in Requests \ {p} : at[q] \in Deleting => s # tx[q].s
    BY <2>1 DEF Referable, Others, ForUpdate, Deleting
  <2>4. UNCHANGED ticket
    BY <1>12 DEF WriteTicket, dbVars
  <2>5. QED BY <2>2, <2>3, <2>4 DEF TicketInv, ForUpdate, ForShare, Deleting
<1>13. QED BY <1>1, <1>2, <1>4, <1>5, <1>6, <1>7, <1>8, <1>10, <1>11, <1>12, NextSteps

-----------------------------------------------------------------------------
(* Columns                                                                 *)

\* A step of p that commits nothing: it may make columns, and changes what is
\* its own only.
LEMMA Inside ==
  ASSUME ColumnInv, NEW p \in Requests, UNCHANGED <<mapping, board, category>>,
         \A q \in Requests \ {p} : at'[q] = at[q] /\ tx'[q] = tx[q],
         \A c \in Columns : column'[c] = column[c] \/ column[c] = NoBoard,
         \A c \in tx'[p].cols : c \in tx[p].cols \/ column[c] = NoBoard,
         \A q \in Requests \ {p}, b \in Boards : Owns(p, b)' => ~Owns(q, b),
         \A q \in Requests \ {p} : at'[p] \in Joining /\ at[q] \in Joining => tx'[p].s # tx[q].s,
         OwnInv(p)'
  PROVE  ColumnInv'
<1> NoBoard \notin Boards
  BY TeamBoardsAssumption
<1>1. \A c \in Columns : column[c] \in Boards => column'[c] = column[c]
  OBVIOUS
<1>2. \A c \in Columns, s \in Statuses : <<c, s>> \in mapping => column'[c] = column[c] /\ Committed(c)'
  BY <1>1 DEF ColumnInv, Data, Committed
<1>3. Data'
  BY <1>2 DEF ColumnInv, Data, OnePer
<1>4. \A q \in Requests \ {p} : \A b : Owns(q, b)' = Owns(q, b)
  BY DEF Owns
<1>5. Apart'
  BY <1>4 DEF ColumnInv, Apart
<1>6. ASSUME NEW q \in Requests \ {p}
      PROVE  OwnInv(q)'
  <2>1. OwnInv(q) /\ at'[q] = at[q] /\ tx'[q] = tx[q]
    BY DEF ColumnInv
  <2>2. OwnBoards(q)'
    BY <2>1 DEF OwnInv, OwnBoards
  <2>3. OwnRows(q)'
    BY <1>1, <1>4, <2>1 DEF OwnInv, OwnRows
  <2>4. \A c \in Columns, s \in Statuses : <<c, s>> \in Rows(q) => column'[c] = column[c]
    BY <1>1, <1>2, <2>1 DEF OwnInv, OwnRows, Rows
  <2>5. OnePer(Rows(q))'
    BY <2>1, <2>4 DEF OwnInv, OwnStatuses, OnePer, Rows
  <2>6. at[q] \in {"setWrite", "setCommit"} => column'[tx[q].c] = tx[q].b
    BY <1>1, <2>1 DEF OwnInv, OwnStatuses, OwnBoards, AtBoard
  <2>7. OwnStatuses(q)'
    BY <2>1, <2>4, <2>5, <2>6 DEF OwnInv, OwnStatuses, Rows
  <2>8. QED BY <2>2, <2>3, <2>7 DEF OwnInv
<1>7. QED BY <1>3, <1>5, <1>6 DEF ColumnInv

\* The last step of p: it commits some of its rows, may delete others and columns
\* of its boards, or leaves everything as it was.
LEMMA Ends ==
  ASSUME Shape, ColumnInv, NEW p \in Requests, End(p),
         mapping' \subseteq mapping \cup tx[p].maps,
         \A c \in Columns : column'[c] = column[c] \/
            (column'[c] = NoBoard /\ Owns(p, column[c]) /\ column[c] \in Boards /\ \A s \in Statuses : <<c, s>> \notin mapping'),
         \A b \in Boards : /\ board[b] # "unused" => board'[b] # "unused"
                           /\ board'[b] = board[b] \/ Owns(p, b),
         \A c \in Columns, s \in Statuses : <<c, s>> \in mapping' /\ <<c, s>> \in tx[p].maps =>
            board'[column[c]] # "unused" /\ category'[s] # "unused",
         \A s \in Statuses : /\ category[s] # "unused" => category'[s] # "unused"
                             /\ category[s] = "unused" => category'[s] = "unused" \/ (at[p] \in Joining /\ s = tx[p].s)
  PROVE  ColumnInv'
<1> NoBoard \notin Boards
  BY TeamBoardsAssumption
<1>0. /\ at'[p] = "done" /\ tx'[p] = NoTx
      /\ \A q \in Requests \ {p} : at'[q] = at[q] /\ tx'[q] = tx[q]
  BY EndFacts, StepFacts
<1>1. \A c \in Columns, s \in Statuses : <<c, s>> \in mapping' => column'[c] = column[c] /\ <<c, s>> \in Rows(p)
  BY DEF Rows
<1>2. \A q \in Requests \ {p}, b \in Boards : ~(Owns(p, b) /\ Owns(q, b))
  BY DEF ColumnInv, Apart
<1>3. \A c \in Columns, s \in Statuses : <<c, s>> \in tx[p].maps => column[c] \in Boards /\ Owns(p, column[c])
  BY DEF ColumnInv, OwnInv, OwnRows
<1>4. \A c \in Columns, s \in Statuses : <<c, s>> \in mapping' => Committed(c)'
  <2> SUFFICES ASSUME NEW c \in Columns, NEW s \in Statuses, <<c, s>> \in mapping', NEW q \in Requests
               PROVE  c \notin tx'[q].cols
    BY DEF Committed
  <2>1. CASE q = p
    BY <1>0, <2>1, NoTxFacts
  <2>2. CASE q # p /\ <<c, s>> \in mapping
    BY <1>0, <2>2 DEF ColumnInv, Data, Committed
  <2>3. CASE q # p /\ <<c, s>> \in tx[p].maps
    BY <1>0, <1>2, <1>3, <2>3 DEF ColumnInv, OwnInv, OwnRows
  <2>4. QED BY <2>1, <2>2, <2>3
<1>5. Data'
  <2>1. mapping' \subseteq Columns \X Statuses
    BY DEF ColumnInv, Data, OwnInv, OwnRows
  <2>2. OnePer(mapping)'
    BY <1>1 DEF ColumnInv, OwnInv, OwnStatuses, OnePer
  <2>3. \A c \in Columns, s \in Statuses : <<c, s>> \in mapping' =>
            column'[c] \in Boards /\ board'[column'[c]] # "unused" /\ category'[s] # "unused"
    BY <1>1, <1>3 DEF ColumnInv, Data
  <2>4. QED BY <1>4, <2>1, <2>2, <2>3 DEF Data
<1>6. \A q \in Requests \ {p} : \A b : Owns(q, b)' = Owns(q, b)
  BY <1>0 DEF Owns
<1>7. \A b : ~Owns(p, b)'
  BY <1>0, NoTxFacts DEF Owns
<1>8. Apart'
  BY <1>0, <1>6, <1>7 DEF ColumnInv, Apart, Joining
<1>9. OwnInv(p)'
  <2>1. OnePer(Rows(p))'
    BY <1>0, <1>5, NoTxFacts DEF Data, Rows
  <2>2. QED BY <1>0, <2>1, NoTxFacts DEF OwnInv, OwnBoards, OwnRows, OwnStatuses, Joining, AtBoard, Deleting
<1>10. ASSUME NEW q \in Requests \ {p}
       PROVE  OwnInv(q)'
  <2>1. OwnInv(q) /\ at'[q] = at[q] /\ tx'[q] = tx[q]
    BY <1>0 DEF ColumnInv
  <2>2. OwnBoards(q)'
    <3>1. \A b \in tx[q].locks : board'[b] # "unused"
      BY <2>1 DEF OwnInv, OwnBoards
    <3>2. at[q] = "seed" => board'[tx[q].b] = "unused"
      BY <1>2, <2>1 DEF OwnInv, OwnBoards, Owns
    <3>3. QED BY <2>1, <3>1, <3>2 DEF OwnInv, OwnBoards
  <2>3. \A c \in Columns : column[c] \in Boards /\ Owns(q, column[c]) => column'[c] = column[c]
    BY <1>2
  <2>4. OwnRows(q)'
    BY <1>6, <2>1, <2>3 DEF OwnInv, OwnRows
  <2>5. \A c \in Columns, s \in Statuses : <<c, s>> \in tx[q].maps =>
            column'[c] = column[c] /\ column[c] \in Boards /\ Owns(q, column[c])
    BY <2>1, <2>3 DEF OwnInv, OwnRows
  <2>6. OnePer(Rows(q))'
    <3> SUFFICES ASSUME NEW c \in Columns, NEW d \in Columns, NEW s \in Statuses,
                        <<c, s>> \in mapping' \cup tx[q].maps, <<d, s>> \in mapping' \cup tx[q].maps,
                        column'[c] = column'[d]
                 PROVE  c = d
      BY <2>1 DEF OnePer, Rows
    <3>1. column'[c] = column[c] /\ column'[d] = column[d]
      BY <1>1, <2>5
    <3>2. CASE <<c, s>> \in mapping' /\ <<d, s>> \in mapping'
      <4>1. OnePer(Rows(p))
        BY DEF ColumnInv, OwnInv, OwnStatuses
      <4>2. <<c, s>> \in Rows(p) /\ <<d, s>> \in Rows(p) /\ column[c] = column[d]
        BY <1>1, <3>1, <3>2
      <4>3. QED BY <4>1, <4>2 DEF OnePer
    <3>3. CASE <<c, s>> \in mapping \cup tx[q].maps /\ <<d, s>> \in mapping \cup tx[q].maps
      <4>1. OnePer(Rows(q))
        BY <2>1 DEF OwnInv, OwnStatuses
      <4>2. <<c, s>> \in Rows(q) /\ <<d, s>> \in Rows(q) /\ column[c] = column[d]
        BY <3>1, <3>3 DEF Rows
      <4>3. QED BY <4>1, <4>2 DEF OnePer
    <3>4. CASE \/ <<c, s>> \in tx[p].maps /\ <<d, s>> \in tx[q].maps
               \/ <<d, s>> \in tx[p].maps /\ <<c, s>> \in tx[q].maps
      BY <1>2, <1>3, <2>5, <3>1, <3>4
    <3>5. QED BY <3>2, <3>3, <3>4
  <2>7. at[q] \in Joining => category'[tx[q].s] = "unused"
    BY <2>1 DEF ColumnInv, Apart, OwnInv, OwnStatuses
  <2>8. at[q] \in {"setWrite", "setCommit"} => column'[tx[q].c] = tx[q].b
    BY <2>1, <2>3 DEF OwnInv, OwnStatuses, OwnBoards, AtBoard, Owns
  <2>9. at[q] \in {"addWrite", "setWrite"} =>
            \A c \in Columns, s \in Statuses :
                <<c, s>> \in mapping' /\ s \in tx[q].want /\ column'[c] = tx[q].b => c = tx[q].c
    <3>1. at[q] \in {"addWrite", "setWrite"} => tx[q].b \in Boards /\ Owns(q, tx[q].b)
      BY <2>1 DEF OwnInv, OwnBoards, AtBoard, Owns
    <3>2. \A c \in Columns, s \in Statuses : <<c, s>> \in tx[p].maps => ~Owns(q, column[c])
      BY <1>2, <1>3
    <3>3. QED BY <1>1, <2>1, <3>1, <3>2 DEF OwnInv, OwnStatuses
  <2>10. OwnStatuses(q)'
    BY <2>1, <2>5, <2>6, <2>7, <2>8, <2>9 DEF OwnInv, OwnStatuses
  <2>11. QED BY <2>2, <2>4, <2>10 DEF OwnInv
<1>11. QED BY <1>5, <1>8, <1>9, <1>10 DEF ColumnInv

-----------------------------------------------------------------------------
(* The shape                                                               *)

\* A transaction's record keeps its fields.
LEMMA RecordKept ==
  ASSUME Shape, NEW p \in Requests, NEW s, NEW t, Step(p, s, t), DOMAIN t = Fields
  PROVE  DOMAIN at' = Requests /\ DOMAIN tx' = Requests /\ \A q \in Requests : DOMAIN tx'[q] = Fields
BY StepFacts DEF Shape

LEMMA ShapeNext == Shape /\ [Next]_vars => Shape'
<1> SUFFICES ASSUME Shape, [Next]_vars PROVE Shape'
  OBVIOUS
<1>1. CASE UNCHANGED vars
  BY <1>1 DEF Shape, vars
<1> DEFINE TxShape == DOMAIN at' = Requests /\ DOMAIN tx' = Requests /\ \A q \in Requests : DOMAIN tx'[q] = Fields
           DbShape == /\ DOMAIN category' = Statuses /\ DOMAIN board' = Boards /\ DOMAIN column' = Columns
                      /\ DOMAIN ticket' = Tickets
<1>2. ASSUME NEW p \in Requests, End(p)
      PROVE  TxShape
  <2>1. Step(p, "done", NoTx)
    BY <1>2, EndFacts
  <2>2. QED BY <2>1, NoTxFacts, RecordKept
<1>3. ASSUME NEW p \in Requests, NEW s, Step(p, s, tx[p])
      PROVE  TxShape
  BY <1>3, RecordKept DEF Shape
<1>4. ASSUME NEW p \in Requests, CreateStatus(p) \/ DeleteStatus(p) \/ CreateBoard(p) \/ WriteTicket(p) \/ ReadColumns(p)
      PROVE  TxShape
  BY <1>4, NoTxFacts DEF CreateStatus, DeleteStatus, CreateBoard, WriteTicket, ReadColumns, Step, Shape
<1>5. ASSUME NEW p \in Requests, JoinLock(p) \/ JoinLocked(p) \/ ReorderCheck(p) \/ SetWrite(p)
      PROVE  TxShape
  BY <1>5 DEF JoinLock, JoinLocked, ReorderCheck, SetWrite, Step, Shape
<1>6. ASSUME NEW p \in Requests, JoinBoard(p) \/ SeedColumn(p) \/ AddWrite(p)
      PROVE  TxShape
  BY <1>6 DEF JoinBoard, SeedColumn, AddWrite, Step, Shape
<1>7. ASSUME NEW p \in Requests,
             DeleteBoard(p) \/ AddColumn(p) \/ SetColumnStatuses(p) \/ DeleteColumn(p) \/ ReorderColumns(p)
      PROVE  TxShape
  BY <1>7, NoTxFacts DEF DeleteBoard, AddColumn, SetColumnStatuses, DeleteColumn, ReorderColumns, LockBoard, Step, Shape
<1>8. ASSUME NEW p \in Requests,
             DeleteCheckMoveTo(p) \/ DeleteShare(p) \/ DeleteCount(p) \/ DeleteMove(p) \/ AddCheck(p) \/ SetCheck(p)
      PROVE  TxShape
  BY <1>2, <1>3, <1>8 DEF DeleteCheckMoveTo, DeleteShare, DeleteCount, DeleteMove, AddCheck, SetCheck, Check
<1>9. ASSUME NEW p \in Requests,
             \/ CreateStatusCommit(p) \/ UpdateStatus(p) \/ CreateBoardCommit(p) \/ DeleteBoardCommit(p) \/ DeleteCommit(p)
             \/ AddCommit(p) \/ SetCommit(p) \/ DeleteColumnCommit(p) \/ ReorderCommit(p) \/ ReadStatuses(p) \/ TicketCommit(p)
      PROVE  TxShape /\ DbShape
  <2>1. TxShape
    BY <1>2, <1>9 DEF CreateStatusCommit, UpdateStatus, CreateBoardCommit, DeleteBoardCommit, DeleteCommit,
                      AddCommit, SetCommit, DeleteColumnCommit, ReorderCommit, ReadStatuses, TicketCommit
  <2>2. DOMAIN category' = Statuses /\ DOMAIN board' = Boards /\ DOMAIN ticket' = Tickets
    BY <1>9 DEF Shape, dbVars, CreateStatusCommit, UpdateStatus, CreateBoardCommit, DeleteBoardCommit, DeleteCommit,
                AddCommit, SetCommit, DeleteColumnCommit, ReorderCommit, ReadStatuses, TicketCommit
  <2>3. DOMAIN column' = Columns
    BY <1>9 DEF Shape, dbVars, CreateStatusCommit, UpdateStatus, CreateBoardCommit, DeleteBoardCommit, DeleteCommit, Without,
                AddCommit, SetCommit, DeleteColumnCommit, ReorderCommit, ReadStatuses, TicketCommit
  <2>4. QED BY <2>1, <2>2, <2>3
<1>10. ASSUME NEW p \in Requests, Abort(p) \/ SeedFails(p) \/ WriteFails(p) \/ SetColumnGone(p)
       PROVE  TxShape /\ DbShape
  BY <1>2, <1>10 DEF Abort, SeedFails, WriteFails, SetColumnGone, Refuse, Without, Shape
<1>11. ASSUME NEW p \in Requests,
             \/ CreateStatus(p) \/ JoinLock(p) \/ JoinLocked(p) \/ ReorderCheck(p) \/ SetWrite(p)
             \/ DeleteStatus(p) \/ CreateBoard(p) \/ WriteTicket(p) \/ ReadColumns(p)
             \/ DeleteBoard(p) \/ AddColumn(p) \/ SetColumnStatuses(p) \/ DeleteColumn(p) \/ ReorderColumns(p)
             \/ DeleteCheckMoveTo(p) \/ DeleteShare(p) \/ DeleteCount(p) \/ DeleteMove(p) \/ AddCheck(p) \/ SetCheck(p)
       PROVE  UNCHANGED dbVars
  BY <1>11 DEF CreateStatus, JoinLock, JoinLocked, ReorderCheck, SetWrite, DeleteStatus, CreateBoard, WriteTicket, ReadColumns,
               DeleteBoard, AddColumn, SetColumnStatuses, DeleteColumn, ReorderColumns, LockBoard,
               DeleteCheckMoveTo, DeleteShare, DeleteCount, DeleteMove, AddCheck, SetCheck, Check
<1>12. ASSUME NEW p \in Requests, JoinBoard(p) \/ SeedColumn(p) \/ AddWrite(p)
       PROVE  DbShape
  BY <1>12 DEF JoinBoard, SeedColumn, AddWrite, Append, Shape
<1>13. ASSUME UNCHANGED dbVars
       PROVE  DbShape
  BY <1>13 DEF dbVars, Shape
<1>14. ASSUME TxShape, DbShape
       PROVE  Shape'
  BY <1>14 DEF Shape
<1> HIDE DEF TxShape, DbShape
<1>15. QED BY <1>1, <1>4, <1>5, <1>6, <1>7, <1>8, <1>9, <1>10, <1>11, <1>12, <1>13, <1>14 DEF Next, StatusRequest, BoardRequest

-----------------------------------------------------------------------------
(* Steps, and the columns                                                  *)

Reading == {"delMoveTo", "delShare", "delCount", "delMove", "delCommit", "ticketCommit", "readStatuses"}

\* A request that comes with nothing of its own.
LEMMA BeginsFree ==
  ASSUME Shape, ColumnInv, NEW p \in Requests, NEW s \in Reading, NEW t, Step(p, s, t),
         t.locks = {} /\ t.cols = {} /\ t.maps = {},
         s \in Deleting => t.s \in Statuses /\ category[t.s] # "unused",
         UNCHANGED <<mapping, board, category, column>>
  PROVE  ColumnInv'
<1>1. /\ at'[p] = s /\ tx'[p] = t
      /\ \A q \in Requests \ {p} : at'[q] = at[q] /\ tx'[q] = tx[q]
  BY StepFacts
<1>2. s \notin Joining \cup AtBoard \cup {"seed", "join"}
  BY DEF Reading, Joining, AtBoard
<1>3. \A b : ~Owns(p, b)'
  BY <1>1, <1>2 DEF Owns
<1>4. OnePer(Rows(p))'
  BY <1>1 DEF ColumnInv, Data, Rows, OnePer
<1>5. OwnInv(p)'
  BY <1>1, <1>2, <1>4 DEF OwnInv, OwnBoards, OwnRows, OwnStatuses, Joining, AtBoard, Deleting
<1>6. QED BY <1>1, <1>2, <1>3, <1>5, Inside

\* A request that goes on and changes nothing of its own.
LEMMA GoesOn ==
  ASSUME Shape, ColumnInv, NEW p \in Requests, NEW s \in Deleting, at[p] \in Deleting, Step(p, s, tx[p]),
         UNCHANGED <<mapping, board, category, column>>
  PROVE  ColumnInv'
<1>1. /\ at'[p] = s /\ tx'[p] = tx[p]
      /\ \A q \in Requests \ {p} : at'[q] = at[q] /\ tx'[q] = tx[q]
  BY StepFacts
<1>2. at[p] \notin Joining \cup AtBoard \cup {"seed", "join"} /\ s \notin Joining \cup AtBoard \cup {"seed", "join"}
  BY DEF Deleting, Joining, AtBoard
<1>3. \A b : Owns(p, b)' = Owns(p, b)
  BY <1>1, <1>2 DEF Owns
<1>4. OwnInv(p)
  BY DEF ColumnInv
<1>5. OwnBoards(p)' /\ OwnRows(p)'
  BY <1>1, <1>2, <1>3, <1>4 DEF OwnInv, OwnBoards, OwnRows, Joining
<1>6. OnePer(Rows(p))'
  BY <1>1, <1>4 DEF OwnInv, OwnStatuses, Rows, OnePer
<1>7. OwnStatuses(p)'
  BY <1>1, <1>2, <1>4, <1>6 DEF OwnInv, OwnStatuses, AtBoard
<1>8. \A q \in Requests \ {p}, b \in Boards : Owns(p, b)' => ~Owns(q, b)
  BY <1>3 DEF ColumnInv, Apart
<1>9. QED BY <1>1, <1>2, <1>5, <1>7, <1>8, Inside DEF OwnInv

\* A request that takes the lock of a board.
LEMMA TakesBoard ==
  ASSUME Shape, ColumnInv, NEW p \in Requests, NEW b \in Boards, NEW op, NEW s \in AtBoard \ {"addWrite", "setWrite", "setCommit"}, NEW t,
         t.b = b /\ t.cols = {} /\ t.maps = {} /\ DOMAIN t = Fields,
         s = "addCheck" => t.c = NoColumn,
         LockBoard(p, op, s, t)
  PROVE  ColumnInv'
<1> DEFINE n == [t EXCEPT !.locks = {t.b}]
<1>1. n.b = b /\ n.locks = {b} /\ n.cols = {} /\ n.maps = {} /\ n.c = t.c
  BY DEF Fields
<1>2. board[b] = "live" /\ BoardFree(p, b) /\ Step(p, s, n) /\ UNCHANGED <<mapping, board, category, column>>
  BY DEF LockBoard, dbVars
<1> HIDE DEF n
<1>3. /\ at'[p] = s /\ tx'[p] = n
      /\ \A q \in Requests \ {p} : at'[q] = at[q] /\ tx'[q] = tx[q]
  BY <1>2, StepFacts
<1>4. s \notin Joining \cup Deleting \cup {"seed", "join"}
  BY DEF Joining, AtBoard, Deleting
<1>5. \A d : Owns(p, d)' = (d = b)
  BY <1>1, <1>3, <1>4 DEF Owns
<1>6. \A q \in Requests \ {p} : ~Owns(q, b)
  BY <1>2 DEF BoardFree, Others, Owns, ColumnInv, OwnInv, OwnBoards
<1>7. OnePer(Rows(p))'
  BY <1>1, <1>2, <1>3 DEF ColumnInv, Data, Rows, OnePer
<1>8. OwnBoards(p)'
  BY <1>1, <1>2, <1>3, <1>4 DEF OwnBoards, Joining
<1>9. OwnStatuses(p)'
  BY <1>1, <1>3, <1>4, <1>7 DEF OwnStatuses
<1>10. OwnInv(p)'
  BY <1>1, <1>3, <1>8, <1>9 DEF OwnInv, OwnRows
<1>11. at'[p] \notin Joining /\ tx'[p].cols = {}
  BY <1>1, <1>3, <1>4
<1>12. \A q \in Requests \ {p}, d \in Boards : Owns(p, d)' => ~Owns(q, d)
  BY <1>5, <1>6
<1>13. QED BY <1>2, <1>3, <1>10, <1>11, <1>12, Inside

\* A request that ends and changes no column.
LEMMA EndsIdle ==
  ASSUME Shape, ColumnInv, NEW p \in Requests, End(p), UNCHANGED <<mapping, board, column>>,
         \A s \in Statuses : category'[s] = category[s] \/ (category[s] # "unused" /\ category'[s] # "unused")
  PROVE  ColumnInv'
<1>1. \A c \in Columns, s \in Statuses : <<c, s>> \in mapping =>
        board[column[c]] # "unused" /\ category[s] # "unused"
  BY DEF ColumnInv, Data
<1>2. QED BY <1>1, Ends

LEMMA Refuses ==
  ASSUME Shape, ColumnInv, NEW p \in Requests, Refuse(p)
  PROVE  ColumnInv'
<1>1. End(p) /\ UNCHANGED <<mapping, board, category>>
  BY DEF Refuse
<1>2. \A c \in Columns, s \in Statuses : <<c, s>> \in mapping =>
        board[column[c]] # "unused" /\ category[s] # "unused" /\ c \notin tx[p].cols
  BY DEF ColumnInv, Data, Committed
<1>3. \A c \in Columns : column'[c] = column[c] \/
        (c \in tx[p].cols /\ column'[c] = NoBoard /\ Owns(p, column[c]) /\ column[c] \in Boards)
  BY DEF Refuse, Without, ColumnInv, OwnInv, OwnRows
<1>4. QED BY <1>1, <1>2, <1>3, Ends

\* The rows of boards that p owns.
LEMMA OwnRowsUsed ==
  ASSUME ColumnInv, NEW p \in Requests
  PROVE  \A c \in Columns, s \in Statuses : <<c, s>> \in tx[p].maps =>
            /\ column[c] \in Boards /\ Owns(p, column[c])
            /\ at[p] # "seed" => board[column[c]] # "unused"
            /\ at[p] # "join" => category[s] # "unused"
            /\ category[s] # "unused" \/ s = tx[p].s
BY DEF ColumnInv, OwnInv, OwnRows, OwnBoards, OwnStatuses, Owns

LEMMA LiveIsUsed == \A s \in LiveStatuses : s \in Statuses /\ category[s] # "unused"
BY TeamBoardsAssumption DEF LiveStatuses

\* The steps that end.
LEMMA EndSteps ==
  ASSUME Shape, ColumnInv, NEW p \in Requests,
         \/ CreateStatusCommit(p) \/ UpdateStatus(p) \/ DeleteCommit(p) \/ CreateBoardCommit(p) \/ DeleteBoardCommit(p)
         \/ AddCommit(p) \/ SetCommit(p) \/ DeleteColumnCommit(p) \/ ReorderCommit(p)
         \/ ReadStatuses(p) \/ TicketCommit(p)
         \/ Abort(p) \/ SeedFails(p) \/ WriteFails(p) \/ SetColumnGone(p)
  PROVE  ColumnInv'
<1>1. CASE Abort(p) \/ SeedFails(p) \/ WriteFails(p) \/ SetColumnGone(p)
  BY <1>1, Refuses DEF Abort, SeedFails, WriteFails, SetColumnGone
<1>2. CASE ReorderCommit(p) \/ ReadStatuses(p) \/ TicketCommit(p)
  BY <1>2, EndsIdle DEF ReorderCommit, ReadStatuses, TicketCommit, dbVars
<1>3. CASE UpdateStatus(p)
  <2>1. \A s \in Statuses : category'[s] = category[s] \/ (category[s] # "unused" /\ category'[s] # "unused")
    BY <1>3, LiveIsUsed, TeamBoardsAssumption DEF UpdateStatus, Shape
  <2>2. QED BY <1>3, <2>1, EndsIdle DEF UpdateStatus
<1>4. \A c \in Columns, s \in Statuses : <<c, s>> \in mapping =>
        /\ column[c] \in Boards /\ board[column[c]] # "unused" /\ category[s] # "unused" /\ Committed(c)
  BY DEF ColumnInv, Data
<1>5. CASE CreateStatusCommit(p)
  <2>1. at[p] = "join" /\ End(p) /\ mapping' = mapping \cup tx[p].maps /\ UNCHANGED <<board, column>>
    BY <1>5 DEF CreateStatusCommit
  <2>2. tx[p].s \in Statuses /\ tx[p].cat # "unused" /\ category[tx[p].s] = "unused"
    BY <2>1, TeamBoardsAssumption DEF ColumnInv, OwnInv, OwnStatuses, Joining
  <2>3. \A s \in Statuses : category'[s] = IF s = tx[p].s THEN tx[p].cat ELSE category[s]
    BY <1>5, <2>2 DEF CreateStatusCommit, Shape
  <2>4. QED BY <1>4, <2>1, <2>2, <2>3, OwnRowsUsed, Ends DEF Joining
<1>6. CASE DeleteCommit(p)
  <2>1. End(p) /\ mapping' \subseteq mapping /\ UNCHANGED <<board, column>>
    BY <1>6 DEF DeleteCommit
  <2>2. \A s \in Statuses : category'[s] = category[s] \/ (category[s] # "unused" /\ category'[s] # "unused")
    BY <1>6 DEF DeleteCommit, Shape, ColumnInv, OwnInv, OwnStatuses, Deleting
  <2>3. QED BY <1>4, <2>1, <2>2, Ends
<1>7. CASE CreateBoardCommit(p)
  <2>1. at[p] = "seed" /\ End(p) /\ mapping' = mapping \cup tx[p].maps /\ UNCHANGED <<category, column>>
    BY <1>7 DEF CreateBoardCommit
  <2>2. tx[p].b \in Boards
    BY <2>1 DEF ColumnInv, OwnInv, OwnBoards
  <2>3. \A b \in Boards : board'[b] = IF b = tx[p].b THEN "live" ELSE board[b]
    BY <1>7, <2>2 DEF CreateBoardCommit, Shape
  <2>4. Owns(p, tx[p].b)
    BY <2>1 DEF Owns
  <2>5. \A b \in tx[p].locks : board[b] # "unused" /\ b \in Boards
    BY DEF ColumnInv, OwnInv, OwnBoards
  <2>6. \A b \in Boards : Owns(p, b) => board'[b] # "unused"
    BY <2>1, <2>3, <2>5 DEF Owns
  <2>7. QED BY <1>4, <2>1, <2>3, <2>4, <2>6, OwnRowsUsed, Ends
<1>8. CASE DeleteBoardCommit(p)
  <2> DEFINE b == tx[p].b
  <2>1. at[p] = "dropBoard" /\ End(p) /\ UNCHANGED category
    BY <1>8 DEF DeleteBoardCommit
  <2>2. b \in Boards /\ Owns(p, b) /\ board[b] # "unused"
    BY <2>1 DEF ColumnInv, OwnInv, OwnBoards, AtBoard, Owns
  <2>3. \A d \in Boards : board'[d] = IF d = b THEN "gone" ELSE board[d]
    BY <1>8, <2>2 DEF DeleteBoardCommit, Shape
  <2>4. \A c \in Columns : column'[c] = IF c \in ColumnsOf(b) THEN NoBoard ELSE column[c]
    BY <1>8 DEF DeleteBoardCommit, Without
  <2>5. \A c, s : <<c, s>> \in mapping' => <<c, s>> \in mapping /\ c \notin ColumnsOf(b)
    BY <1>8 DEF DeleteBoardCommit
  <2>6. mapping' \subseteq mapping
    BY <1>8 DEF DeleteBoardCommit
  <2>7. \A c \in ColumnsOf(b) : column[c] = b
    BY DEF ColumnsOf
  <2>8. QED BY <1>4, <2>1, <2>2, <2>3, <2>4, <2>5, <2>6, <2>7, Ends
<1>9. CASE AddCommit(p) \/ SetCommit(p)
  <2>1. at[p] \in {"addCommit", "setCommit"} /\ End(p) /\ mapping' \subseteq mapping \cup tx[p].maps /\ UNCHANGED <<board, category, column>>
    BY <1>9 DEF AddCommit, SetCommit
  <2>2. QED BY <1>4, <2>1, OwnRowsUsed, Ends
<1>10. CASE DeleteColumnCommit(p)
  <2> DEFINE e == tx[p].c
  <2>1. at[p] = "dropColumn" /\ End(p) /\ UNCHANGED <<board, category>> /\ e \in ColumnsOf(tx[p].b)
    BY <1>10 DEF DeleteColumnCommit
  <2>2. Owns(p, column[e]) /\ column[e] \in Boards
    BY <2>1 DEF ColumnsOf, ColumnInv, OwnInv, OwnBoards, AtBoard, Owns
  <2>3. \A c \in Columns : column'[c] = IF c = e THEN NoBoard ELSE column[c]
    BY <1>10 DEF DeleteColumnCommit, Without
  <2>4. \A c, s : <<c, s>> \in mapping' => c # e
    BY <1>10 DEF DeleteColumnCommit
  <2>5. mapping' \subseteq mapping
    BY <1>10 DEF DeleteColumnCommit
  <2>6. QED BY <1>4, <2>1, <2>2, <2>3, <2>4, <2>5, Ends
<1>11. QED BY <1>1, <1>2, <1>3, <1>5, <1>6, <1>7, <1>8, <1>9, <1>10

\* The steps of a new status.
LEMMA CreateStatusStep ==
  ASSUME Shape, ColumnInv, NEW p \in Requests, CreateStatus(p)
  PROVE  ColumnInv'
<1>1. PICK s \in Statuses, k \in Categories :
        /\ category[s] = "unused"
        /\ \A q \in Requests : tx[q].s # s
        /\ Step(p, "joinLock", [NoTx EXCEPT !.s = s, !.cat = k, !.todo = LiveBoards])
  BY DEF CreateStatus
<1> DEFINE n == [NoTx EXCEPT !.s = s, !.cat = k, !.todo = LiveBoards]
<1>2. n.s = s /\ n.cat = k /\ n.todo \subseteq Boards /\ n.locks = {} /\ n.cols = {} /\ n.maps = {}
  BY NoTxFacts DEF Fields, LiveBoards
<1> HIDE DEF n
<1>3. /\ at'[p] = "joinLock" /\ tx'[p] = n
      /\ \A q \in Requests \ {p} : at'[q] = at[q] /\ tx'[q] = tx[q]
  BY <1>1, StepFacts DEF n
<1>4. UNCHANGED <<mapping, board, category, column>>
  BY DEF CreateStatus, dbVars
<1>5. \A b : ~Owns(p, b)'
  BY <1>2, <1>3 DEF Owns
<1>6. OnePer(Rows(p))'
  BY <1>2, <1>3, <1>4 DEF ColumnInv, Data, Rows, OnePer
<1>7. OwnInv(p)'
  BY <1>1, <1>2, <1>3, <1>4, <1>6 DEF OwnInv, OwnBoards, OwnRows, OwnStatuses, Joining, AtBoard, Deleting
<1>8. QED BY <1>1, <1>2, <1>3, <1>4, <1>5, <1>7, Inside

LEMMA JoinLockStep ==
  ASSUME Shape, ColumnInv, NEW p \in Requests, JoinLock(p)
  PROVE  ColumnInv'
<1>1. at[p] = "joinLock" /\ UNCHANGED <<mapping, board, category, column>>
  BY DEF JoinLock, dbVars
<1>2. PICK b, n :
        /\ b \in tx[p].todo /\ Step(p, "joinLock", n)
        /\ n.s = tx[p].s /\ n.cat = tx[p].cat /\ n.cols = tx[p].cols /\ n.maps = tx[p].maps /\ n.todo = tx[p].todo \ {b}
        /\ n.locks = tx[p].locks \/ (n.locks = tx[p].locks \cup {b} /\ board[b] = "live" /\ BoardFree(p, b))
  <2>1. DOMAIN tx[p] = Fields
    BY DEF Shape
  <2>2. PICK b \in tx[p].todo :
          \/ Step(p, "joinLock", [tx[p] EXCEPT !.todo = @ \ {b}])
          \/ /\ board[b] = "live" /\ BoardFree(p, b)
             /\ Step(p, "joinLock", [tx[p] EXCEPT !.todo = @ \ {b}, !.locks = @ \cup {b}])
    BY DEF JoinLock
  <2> DEFINE n1 == [tx[p] EXCEPT !.todo = @ \ {b}]
             n2 == [tx[p] EXCEPT !.todo = @ \ {b}, !.locks = @ \cup {b}]
  <2>3. /\ n1.s = tx[p].s /\ n1.cat = tx[p].cat /\ n1.cols = tx[p].cols /\ n1.maps = tx[p].maps
        /\ n1.todo = tx[p].todo \ {b} /\ n1.locks = tx[p].locks
    BY <2>1 DEF Fields
  <2>4. /\ n2.s = tx[p].s /\ n2.cat = tx[p].cat /\ n2.cols = tx[p].cols /\ n2.maps = tx[p].maps
        /\ n2.todo = tx[p].todo \ {b} /\ n2.locks = tx[p].locks \cup {b}
    BY <2>1 DEF Fields
  <2>5. Step(p, "joinLock", n1) \/ (Step(p, "joinLock", n2) /\ board[b] = "live" /\ BoardFree(p, b))
    BY <2>2
  <2> HIDE DEF n1, n2
  <2>6. QED BY <2>3, <2>4, <2>5
<1>3. /\ at'[p] = "joinLock" /\ tx'[p] = n
      /\ \A q \in Requests \ {p} : at'[q] = at[q] /\ tx'[q] = tx[q]
  BY <1>2, StepFacts
<1>4. OwnInv(p) /\ tx[p].todo \subseteq Boards /\ tx[p].maps = {}
  BY <1>1 DEF ColumnInv, OwnInv, OwnBoards
<1>5. \A d : Owns(p, d)' => Owns(p, d) \/ (d = b /\ BoardFree(p, b))
  BY <1>2, <1>3 DEF Owns
<1>6. \A q \in Requests \ {p}, d \in Boards : Owns(p, d)' => ~Owns(q, d)
  <2> SUFFICES ASSUME NEW q \in Requests \ {p}, NEW d \in Boards, Owns(p, d)', Owns(q, d)
               PROVE  FALSE
    OBVIOUS
  <2>1. ~Owns(p, d)
    BY DEF ColumnInv, Apart
  <2>2. d = b /\ BoardFree(p, b) /\ board[b] = "live"
    BY <1>2, <1>3, <2>1 DEF Owns
  <2>3. b \notin tx[q].locks
    BY <2>2 DEF BoardFree, Others
  <2>4. at[q] = "seed" => board[tx[q].b] = "unused"
    BY DEF ColumnInv, OwnInv, OwnBoards
  <2>5. QED BY <2>2, <2>3, <2>4 DEF Owns
<1>7. OwnBoards(p)'
  BY <1>1, <1>2, <1>3, <1>4 DEF OwnInv, OwnBoards, AtBoard
<1>8. OwnRows(p)'
  BY <1>1, <1>2, <1>3, <1>4 DEF OwnInv, OwnRows, Owns
<1>9. OnePer(Rows(p))'
  BY <1>1, <1>2, <1>3, <1>4 DEF OwnInv, OwnStatuses, Rows, OnePer
<1>10. OwnStatuses(p)'
  BY <1>1, <1>2, <1>3, <1>4, <1>9 DEF OwnInv, OwnStatuses, Joining, Deleting
<1>11. \A q \in Requests \ {p} : at[q] \in Joining => tx'[p].s # tx[q].s
  BY <1>1, <1>2, <1>3 DEF ColumnInv, Apart, Joining
<1>12. QED BY <1>1, <1>2, <1>3, <1>6, <1>7, <1>8, <1>10, <1>11, Inside DEF OwnInv

LEMMA JoinLockedStep ==
  ASSUME Shape, ColumnInv, NEW p \in Requests, JoinLocked(p)
  PROVE  ColumnInv'
<1> DEFINE n == [tx[p] EXCEPT !.todo = tx[p].locks]
<1>1. at[p] = "joinLock" /\ Step(p, "join", n) /\ UNCHANGED <<mapping, board, category, column>>
  BY DEF JoinLocked, dbVars
<1>2. /\ n.s = tx[p].s /\ n.cat = tx[p].cat /\ n.cols = tx[p].cols /\ n.maps = tx[p].maps
      /\ n.todo = tx[p].locks /\ n.locks = tx[p].locks
  BY DEF Shape, Fields
<1> HIDE DEF n
<1>3. /\ at'[p] = "join" /\ tx'[p] = n
      /\ \A q \in Requests \ {p} : at'[q] = at[q] /\ tx'[q] = tx[q]
  BY <1>1, StepFacts
<1>4. OwnInv(p) /\ tx[p].maps = {}
  BY <1>1 DEF ColumnInv, OwnInv, OwnBoards
<1>5. \A d : Owns(p, d)' = Owns(p, d)
  BY <1>1, <1>2, <1>3 DEF Owns
<1>6. \A q \in Requests \ {p}, d \in Boards : Owns(p, d)' => ~Owns(q, d)
  BY <1>5 DEF ColumnInv, Apart
<1>7. OwnBoards(p)' /\ OwnRows(p)'
  BY <1>1, <1>2, <1>3, <1>4, <1>5 DEF OwnInv, OwnBoards, OwnRows, AtBoard
<1>8. OnePer(Rows(p))'
  BY <1>1, <1>2, <1>3, <1>4 DEF OwnInv, OwnStatuses, Rows, OnePer
<1>9. OwnStatuses(p)'
  BY <1>1, <1>2, <1>3, <1>4, <1>8 DEF OwnInv, OwnStatuses, Joining, Deleting
<1>10. \A q \in Requests \ {p} : at[q] \in Joining => tx'[p].s # tx[q].s
  BY <1>1, <1>2, <1>3 DEF ColumnInv, Apart, Joining
<1>11. QED BY <1>1, <1>2, <1>3, <1>6, <1>7, <1>9, <1>10, Inside DEF OwnInv

\* A status that nobody has committed is on no board, and p's own is not yet on
\* those that are left to join.
LEMMA NotYetOn ==
  ASSUME ColumnInv, NEW p \in Requests, at[p] = "join"
  PROVE  \A c \in Columns : <<c, tx[p].s>> \in Rows(p) => column[c] \notin tx[p].todo
<1>1. tx[p].s \in Statuses /\ category[tx[p].s] = "unused"
  BY DEF ColumnInv, OwnInv, OwnStatuses, Joining
<1>2. \A c \in Columns : <<c, tx[p].s>> \notin mapping
  BY <1>1 DEF ColumnInv, Data
<1>3. QED BY <1>1, <1>2 DEF Rows, ColumnInv, OwnInv, OwnStatuses

\* A row added to those of p: column c, of a board p owns, gets status s.
LEMMA OneMore ==
  ASSUME NEW p \in Requests, NEW c \in Columns, NEW s \in Statuses, NEW b,
         OnePer(Rows(p)), \A d \in Columns : <<d, s>> \in Rows(p) => column[d] # b,
         \A d \in Columns, x \in Statuses : <<d, x>> \in Rows(p) => column'[d] = column[d],
         column'[c] = b,
         mapping' \cup tx'[p].maps = Rows(p) \cup {<<c, s>>}
  PROVE  OnePer(Rows(p))'
<1> SUFFICES ASSUME NEW d \in Columns, NEW e \in Columns, NEW x \in Statuses,
                    <<d, x>> \in Rows(p) \cup {<<c, s>>}, <<e, x>> \in Rows(p) \cup {<<c, s>>}, column'[d] = column'[e]
             PROVE  d = e
  BY DEF OnePer, Rows
<1>1. CASE <<d, x>> \in Rows(p) /\ <<e, x>> \in Rows(p)
  BY <1>1 DEF OnePer
<1>2. CASE <<d, x>> = <<c, s>> /\ <<e, x>> \in Rows(p)
  BY <1>2
<1>3. CASE <<e, x>> = <<c, s>> /\ <<d, x>> \in Rows(p)
  BY <1>3
<1>4. CASE <<e, x>> = <<c, s>> /\ <<d, x>> = <<c, s>>
  BY <1>4
<1>5. QED BY <1>1, <1>2, <1>3, <1>4

\* Columns that exist are none of the fresh ones.
LEMMA FreshFacts ==
  ASSUME ColumnInv, NEW c \in Columns, Fresh(c)
  PROVE  /\ column[c] = NoBoard /\ NoBoard \notin Boards
         /\ \A p \in Requests, s \in Statuses : <<c, s>> \notin Rows(p)
BY TeamBoardsAssumption DEF Fresh, ColumnInv, Data, OwnInv, OwnRows, Rows

LEMMA JoinBoardStep ==
  ASSUME Shape, ColumnInv, NEW p \in Requests, JoinBoard(p)
  PROVE  ColumnInv'
<1>1. at[p] = "join" /\ UNCHANGED <<mapping, board, category>>
  BY DEF JoinBoard
<1>2. PICK b \in tx[p].todo, c \in Columns :
        \/ /\ c \in Fitting(p, b) /\ UNCHANGED column
           /\ Step(p, "join", [tx[p] EXCEPT !.todo = @ \ {b}, !.maps = @ \cup {<<c, tx[p].s>>}])
        \/ /\ Append(p, c, b)
           /\ Step(p, "join", [tx[p] EXCEPT !.todo = @ \ {b}, !.cols = @ \cup {c}, !.maps = @ \cup {<<c, tx[p].s>>}])
  BY DEF JoinBoard
<1> DEFINE s == tx[p].s
<1>3. /\ OwnInv(p) /\ s \in Statuses
      /\ tx[p].todo \subseteq tx[p].locks /\ tx[p].locks \subseteq Boards
  BY <1>1 DEF ColumnInv, OwnInv, OwnBoards, OwnStatuses, Joining
<1>4. PICK n : /\ Step(p, "join", n)
               /\ n.s = tx[p].s /\ n.cat = tx[p].cat /\ n.locks = tx[p].locks
               /\ n.todo = tx[p].todo \ {b} /\ n.maps = tx[p].maps \cup {<<c, s>>}
               /\ \/ n.cols = tx[p].cols /\ UNCHANGED column /\ column[c] = b
                  \/ /\ n.cols = tx[p].cols \cup {c} /\ Fresh(c)
                     /\ \A d \in Columns : column'[d] = IF d = c THEN b ELSE column[d]
  <2>1. DOMAIN tx[p] = Fields
    BY DEF Shape
  <2> DEFINE n1 == [tx[p] EXCEPT !.todo = @ \ {b}, !.maps = @ \cup {<<c, tx[p].s>>}]
             n2 == [tx[p] EXCEPT !.todo = @ \ {b}, !.cols = @ \cup {c}, !.maps = @ \cup {<<c, tx[p].s>>}]
  <2>2. /\ n1.s = tx[p].s /\ n1.cat = tx[p].cat /\ n1.locks = tx[p].locks /\ n1.cols = tx[p].cols
        /\ n1.todo = tx[p].todo \ {b} /\ n1.maps = tx[p].maps \cup {<<c, s>>}
    BY <2>1 DEF Fields
  <2>3. /\ n2.s = tx[p].s /\ n2.cat = tx[p].cat /\ n2.locks = tx[p].locks /\ n2.cols = tx[p].cols \cup {c}
        /\ n2.todo = tx[p].todo \ {b} /\ n2.maps = tx[p].maps \cup {<<c, s>>}
    BY <2>1 DEF Fields
  <2>4. \/ c \in Fitting(p, b) /\ UNCHANGED column /\ Step(p, "join", n1)
        \/ Append(p, c, b) /\ Step(p, "join", n2)
    BY <1>2
  <2> HIDE DEF n1, n2, s
  <2>5. c \in Fitting(p, b) => column[c] = b
    BY DEF Fitting, ColumnsOf
  <2>6. Append(p, c, b) => Fresh(c) /\ \A d \in Columns : column'[d] = IF d = c THEN b ELSE column[d]
    BY DEF Append, Shape
  <2>7. QED BY <2>2, <2>3, <2>4, <2>5, <2>6
<1>5. /\ at'[p] = "join" /\ tx'[p] = n
      /\ \A q \in Requests \ {p} : at'[q] = at[q] /\ tx'[q] = tx[q]
  BY <1>4, StepFacts
<1>6. \A d \in Columns, x \in Statuses : <<d, x>> \in Rows(p) => column'[d] = column[d] /\ column[d] \in Boards
  BY <1>3, <1>4, FreshFacts DEF ColumnInv, Data, OwnInv, OwnRows, Rows
<1>7. column'[c] = b /\ b \in tx[p].locks /\ b \in Boards
  BY <1>3, <1>4
<1>8. \A d : Owns(p, d)' = Owns(p, d)
  BY <1>1, <1>4, <1>5 DEF Owns
<1>9. \A q \in Requests \ {p}, d \in Boards : Owns(p, d)' => ~Owns(q, d)
  BY <1>8 DEF ColumnInv, Apart
<1>10. \A d \in Columns : column'[d] = column[d] \/ column[d] = NoBoard
  BY <1>4, FreshFacts
<1>11. \A d \in n.cols : d \in tx[p].cols \/ column[d] = NoBoard
  BY <1>4, FreshFacts
<1>12. OwnBoards(p)'
  BY <1>1, <1>3, <1>4, <1>5 DEF OwnInv, OwnBoards, AtBoard
<1>13. OwnRows(p)'
  <2>1. n.maps \subseteq Columns \X Statuses
    BY <1>3, <1>4 DEF OwnInv, OwnRows
  <2>2. \A d \in n.cols : d \in Columns /\ column'[d] \in Boards /\ Owns(p, column'[d])
    BY <1>3, <1>4, <1>7, FreshFacts DEF OwnInv, OwnRows, Owns
  <2>3. ASSUME NEW d \in Columns, NEW x \in Statuses, <<d, x>> \in n.maps
        PROVE  column'[d] \in Boards /\ Owns(p, column'[d])
    <3>1. CASE <<d, x>> \in tx[p].maps
      BY <1>3, <1>6, <3>1 DEF OwnInv, OwnRows, Rows
    <3>2. CASE d = c
      BY <1>7, <3>2 DEF Owns
    <3>3. QED BY <1>4, <2>3, <3>1, <3>2
  <2>4. QED BY <1>5, <1>8, <2>1, <2>2, <2>3 DEF OwnRows
<1>14. OnePer(Rows(p))'
  <2>1. \A d \in Columns : <<d, s>> \in Rows(p) => column[d] # b
    BY <1>1, NotYetOn
  <2>2. OnePer(Rows(p))
    BY <1>3 DEF OwnInv, OwnStatuses
  <2>3. mapping' \cup tx'[p].maps = Rows(p) \cup {<<c, s>>}
    BY <1>1, <1>4, <1>5 DEF Rows
  <2>4. QED BY <1>3, <1>6, <1>7, <2>1, <2>2, <2>3, OneMore
<1>15. OwnStatuses(p)'
  <2>1. ASSUME NEW d \in Columns, NEW x \in Statuses, <<d, x>> \in n.maps
        PROVE  column'[d] \notin n.todo /\ (category[x] # "unused" \/ x = s)
    <3>1. CASE <<d, x>> \in tx[p].maps
      BY <1>1, <1>3, <1>4, <1>6, <3>1 DEF OwnInv, OwnStatuses, Rows
    <3>2. CASE d = c /\ x = s
      BY <1>4, <1>7, <3>2
    <3>3. QED BY <1>4, <2>1, <3>1, <3>2
  <2>2. QED BY <1>1, <1>3, <1>4, <1>5, <1>14, <2>1 DEF OwnInv, OwnStatuses, Joining, Deleting
<1>16. \A q \in Requests \ {p} : at[q] \in Joining => tx'[p].s # tx[q].s
  BY <1>1, <1>4, <1>5 DEF ColumnInv, Apart, Joining
<1>17. QED BY <1>1, <1>5, <1>9, <1>10, <1>11, <1>12, <1>13, <1>15, <1>16, Inside DEF OwnInv

\* The steps of a new board.
LEMMA CreateBoardStep ==
  ASSUME Shape, ColumnInv, NEW p \in Requests, CreateBoard(p)
  PROVE  ColumnInv'
<1>1. PICK b \in Boards :
        board[b] = "unused" /\ (\A q \in Requests : tx[q].b # b)
        /\ Step(p, "seed", [NoTx EXCEPT !.b = b, !.want = LiveStatuses])
  BY DEF CreateBoard
<1> DEFINE n == [NoTx EXCEPT !.b = b, !.want = LiveStatuses]
<1>2. n.b = b /\ n.locks = {} /\ n.cols = {} /\ n.maps = {}
  BY NoTxFacts DEF Fields
<1> HIDE DEF n
<1>3. /\ at'[p] = "seed" /\ tx'[p] = n
      /\ \A q \in Requests \ {p} : at'[q] = at[q] /\ tx'[q] = tx[q]
  BY <1>1, StepFacts DEF n
<1>4. UNCHANGED <<mapping, board, category, column>>
  BY DEF CreateBoard, dbVars
<1>5. \A d : Owns(p, d)' = (d = b)
  BY <1>2, <1>3 DEF Owns
<1>6. \A q \in Requests \ {p} : ~Owns(q, b)
  BY <1>1 DEF Owns, ColumnInv, OwnInv, OwnBoards
<1>7. OnePer(Rows(p))'
  BY <1>2, <1>3, <1>4 DEF ColumnInv, Data, Rows, OnePer
<1>8. OwnInv(p)'
  BY <1>1, <1>2, <1>3, <1>4, <1>7 DEF OwnInv, OwnBoards, OwnRows, OwnStatuses, Joining, AtBoard, Deleting
<1>9. QED BY <1>2, <1>3, <1>4, <1>5, <1>6, <1>8, Inside DEF Joining

LEMMA SeedColumnStep ==
  ASSUME Shape, ColumnInv, NEW p \in Requests, SeedColumn(p)
  PROVE  ColumnInv'
<1>1. at[p] = "seed" /\ UNCHANGED <<mapping, board, category>>
  BY DEF SeedColumn
<1>2. PICK s \in tx[p].want, c \in Columns :
        /\ s \in LiveStatuses /\ Fresh(c)
        /\ column' = [column EXCEPT ![c] = tx[p].b]
        /\ Step(p, "seed", [tx[p] EXCEPT !.want = @ \ {s}, !.cols = @ \cup {c}, !.maps = @ \cup {<<c, s>>}])
  BY DEF SeedColumn
<1> DEFINE b == tx[p].b
           n == [tx[p] EXCEPT !.want = @ \ {s}, !.cols = @ \cup {c}, !.maps = @ \cup {<<c, s>>}]
<1>3. /\ OwnInv(p) /\ b \in Boards /\ board[b] = "unused"
      /\ s \in Statuses /\ category[s] # "unused"
  BY <1>1, <1>2, LiveIsUsed DEF ColumnInv, OwnInv, OwnBoards
<1>4. /\ n.b = b /\ n.locks = tx[p].locks /\ n.want = tx[p].want \ {s}
      /\ n.cols = tx[p].cols \cup {c} /\ n.maps = tx[p].maps \cup {<<c, s>>}
  BY DEF Shape, Fields
<1> HIDE DEF n
<1>5. /\ at'[p] = "seed" /\ tx'[p] = n
      /\ \A q \in Requests \ {p} : at'[q] = at[q] /\ tx'[q] = tx[q]
  BY <1>2, StepFacts DEF n
<1>6. \A d \in Columns : column'[d] = IF d = c THEN b ELSE column[d]
  BY <1>2 DEF Shape
<1>7. column[c] = NoBoard /\ NoBoard \notin Boards /\ \A x \in Statuses : <<c, x>> \notin Rows(p)
  BY <1>2, FreshFacts
<1>8. \A d \in Columns, x \in Statuses : <<d, x>> \in Rows(p) => column'[d] = column[d] /\ column[d] \in Boards
  BY <1>3, <1>6, <1>7 DEF ColumnInv, Data, OwnInv, OwnRows, Rows
<1>9. \A d : Owns(p, d)' = Owns(p, d)
  BY <1>1, <1>4, <1>5 DEF Owns
<1>10. \A q \in Requests \ {p}, d \in Boards : Owns(p, d)' => ~Owns(q, d)
  BY <1>9 DEF ColumnInv, Apart
<1>11. Owns(p, b)
  BY <1>1 DEF Owns
<1>12. OwnBoards(p)'
  BY <1>1, <1>3, <1>4, <1>5 DEF OwnInv, OwnBoards, AtBoard
<1>13. OwnRows(p)'
  <2>1. n.maps \subseteq Columns \X Statuses
    BY <1>3, <1>4 DEF OwnInv, OwnRows
  <2>2. \A d \in n.cols : d \in Columns /\ column'[d] \in Boards /\ Owns(p, column'[d])
    BY <1>3, <1>4, <1>6, <1>11 DEF OwnInv, OwnRows
  <2>3. ASSUME NEW d \in Columns, NEW x \in Statuses, <<d, x>> \in n.maps
        PROVE  column'[d] \in Boards /\ Owns(p, column'[d])
    BY <1>3, <1>4, <1>6, <1>11, <2>3 DEF OwnInv, OwnRows
  <2>4. QED BY <1>5, <1>9, <2>1, <2>2, <2>3 DEF OwnRows
<1>14. \A d \in Columns : <<d, s>> \in Rows(p) => column[d] # b
  BY <1>1, <1>2, <1>3 DEF Rows, ColumnInv, Data, OwnInv, OwnStatuses
<1>15. OnePer(Rows(p))'
  <2>1. OnePer(Rows(p))
    BY <1>3 DEF OwnInv, OwnStatuses
  <2>2. mapping' \cup tx'[p].maps = Rows(p) \cup {<<c, s>>}
    BY <1>1, <1>4, <1>5 DEF Rows
  <2>3. column'[c] = b
    BY <1>6
  <2>4. QED BY <1>3, <1>8, <1>14, <2>1, <2>2, <2>3, OneMore
<1>16. OwnStatuses(p)'
  <2>1. ASSUME NEW d \in Columns, NEW x \in Statuses, <<d, x>> \in n.maps
        PROVE  x \notin n.want /\ category[x] # "unused"
    BY <1>1, <1>3, <1>4, <2>1 DEF OwnInv, OwnStatuses
  <2>2. QED BY <1>1, <1>5, <1>15, <2>1 DEF OwnStatuses, Joining, Deleting
<1>17. QED BY <1>1, <1>4, <1>5, <1>6, <1>7, <1>10, <1>12, <1>13, <1>16, Inside DEF OwnInv, Joining

\* The steps of a column's write, under the lock of its board.
LEMMA CheckStep ==
  ASSUME Shape, ColumnInv, NEW p \in Requests, AddCheck(p) \/ SetCheck(p)
  PROVE  ColumnInv'
<1>1. UNCHANGED <<mapping, board, category, column>>
  BY DEF AddCheck, SetCheck, Check, dbVars
<1>2. CASE End(p)
  BY <1>1, <1>2, EndsIdle
<1>3. ASSUME NEW from \in {"addCheck", "setCheck"}, NEW to \in {"addWrite", "setWrite"},
             at[p] = from, Step(p, to, tx[p]), StatusesAreFree(p),
             to = "addWrite" => tx[p].c = NoColumn,
             to = "setWrite" => tx[p].c \in ColumnsOf(tx[p].b)
      PROVE  ColumnInv'
  <2>1. /\ at'[p] = to /\ tx'[p] = tx[p]
        /\ \A q \in Requests \ {p} : at'[q] = at[q] /\ tx'[q] = tx[q]
    BY <1>3, StepFacts
  <2>2. OwnInv(p)
    BY DEF ColumnInv
  <2>3. \A d : Owns(p, d)' = Owns(p, d)
    BY <1>3, <2>1 DEF Owns
  <2>4. OwnBoards(p)' /\ OwnRows(p)'
    BY <1>1, <1>3, <2>1, <2>2, <2>3 DEF OwnInv, OwnBoards, OwnRows, AtBoard
  <2>5. OnePer(Rows(p))'
    BY <1>1, <2>1, <2>2 DEF OwnInv, OwnStatuses, Rows, OnePer
  <2>6. \A d \in Columns, s \in Statuses :
          <<d, s>> \in mapping /\ s \in tx[p].want /\ column[d] = tx[p].b => d = tx[p].c
    BY <1>3 DEF StatusesAreFree, HeldOn, ColumnsOf, ColumnInv, Data
  <2>7. to = "setWrite" => tx[p].c \in Columns /\ column[tx[p].c] = tx[p].b
    BY <1>3 DEF ColumnsOf
  <2>8. OwnStatuses(p)'
    BY <1>1, <1>3, <2>1, <2>2, <2>5, <2>6, <2>7 DEF OwnInv, OwnStatuses, Joining, Deleting
  <2>9. \A q \in Requests \ {p}, d \in Boards : Owns(p, d)' => ~Owns(q, d)
    BY <2>3 DEF ColumnInv, Apart
  <2>10. QED BY <1>1, <1>3, <2>1, <2>4, <2>8, <2>9, Inside DEF OwnInv, Joining
<1>4. CASE AddCheck(p) /\ ~End(p)
  <2>1. at[p] = "addCheck" /\ Step(p, "addWrite", tx[p]) /\ StatusesAreFree(p)
    BY <1>4 DEF AddCheck, Check
  <2>2. tx[p].c = NoColumn
    BY <2>1 DEF ColumnInv, OwnInv, OwnStatuses
  <2>3. QED BY <1>3, <2>1, <2>2
<1>5. CASE SetCheck(p) /\ ~End(p)
  <2>1. /\ at[p] = "setCheck" /\ Step(p, "setWrite", tx[p]) /\ StatusesAreFree(p)
        /\ tx[p].c \in ColumnsOf(tx[p].b)
    BY <1>5 DEF SetCheck, Check
  <2>2. QED BY <1>3, <2>1
<1>6. QED BY <1>2, <1>4, <1>5

\* What the check found is still so when the rows are written.
LEMMA OneMoreColumn ==
  ASSUME ColumnInv, NEW p \in Requests, NEW e \in Columns, NEW w \in SUBSET tx[p].want,
         w \subseteq Statuses, column'[e] = tx[p].b,
         \A d \in Columns, s \in Statuses : <<d, s>> \in mapping => column'[d] = column[d],
         \A d \in Columns, s \in w : <<d, s>> \in mapping /\ column[d] = tx[p].b => d = e,
         mapping' \cup tx'[p].maps = mapping \cup ({e} \X w)
  PROVE  OnePer(Rows(p))'
<1> SUFFICES ASSUME NEW d \in Columns, NEW g \in Columns, NEW s \in Statuses,
                    <<d, s>> \in mapping \cup ({e} \X w), <<g, s>> \in mapping \cup ({e} \X w),
                    column'[d] = column'[g]
             PROVE  d = g
  BY DEF OnePer, Rows
<1>1. CASE <<d, s>> \in mapping /\ <<g, s>> \in mapping
  BY <1>1 DEF ColumnInv, Data, OnePer
<1>2. CASE d = e /\ s \in w /\ <<g, s>> \in mapping
  BY <1>2
<1>3. CASE g = e /\ s \in w /\ <<d, s>> \in mapping
  BY <1>3
<1>4. CASE d = e /\ g = e
  BY <1>4
<1>5. QED BY <1>1, <1>2, <1>3, <1>4

LEMMA AddWriteStep ==
  ASSUME Shape, ColumnInv, NEW p \in Requests, AddWrite(p)
  PROVE  ColumnInv'
<1> DEFINE b == tx[p].b
           w == tx[p].want
<1>1. at[p] = "addWrite" /\ UNCHANGED <<mapping, board, category>>
  BY DEF AddWrite
<1>2. PICK c \in Columns :
        /\ Fresh(c) /\ column' = [column EXCEPT ![c] = tx[p].b]
        /\ Step(p, "addCommit", [tx[p] EXCEPT !.c = c, !.cols = {c}, !.maps = {c} \X tx[p].want])
  BY DEF AddWrite, Append
<1> DEFINE n == [tx[p] EXCEPT !.c = c, !.cols = {c}, !.maps = {c} \X tx[p].want]
<1>3. n.b = b /\ n.locks = tx[p].locks /\ n.cols = {c} /\ n.maps = {c} \X w
  BY DEF Shape, Fields
<1> HIDE DEF n
<1>4. /\ at'[p] = "addCommit" /\ tx'[p] = n
      /\ \A q \in Requests \ {p} : at'[q] = at[q] /\ tx'[q] = tx[q]
  BY <1>2, StepFacts DEF n
<1>5. /\ OwnInv(p) /\ b \in tx[p].locks /\ tx[p].locks \subseteq Boards
      /\ \A s \in w : s \in Statuses /\ category[s] # "unused"
  BY <1>1, LiveIsUsed DEF AddWrite, Mappable, ColumnInv, OwnInv, OwnBoards, AtBoard
<1>6. \A d \in Columns : column'[d] = IF d = c THEN b ELSE column[d]
  BY <1>2 DEF Shape
<1>7. column[c] = NoBoard /\ NoBoard \notin Boards /\ \A x \in Statuses : <<c, x>> \notin Rows(p)
  BY <1>2, FreshFacts
<1>8. \A d \in Columns, x \in Statuses : <<d, x>> \in mapping => column'[d] = column[d]
  BY <1>6, <1>7 DEF Rows
<1>9. \A d : Owns(p, d)' = Owns(p, d)
  BY <1>1, <1>3, <1>4 DEF Owns
<1>10. \A q \in Requests \ {p}, d \in Boards : Owns(p, d)' => ~Owns(q, d)
  BY <1>9 DEF ColumnInv, Apart
<1>11. OwnBoards(p)'
  BY <1>1, <1>3, <1>4, <1>5 DEF OwnInv, OwnBoards, AtBoard
<1>12. OwnRows(p)'
  BY <1>3, <1>4, <1>5, <1>6 DEF OwnRows, Owns
<1>13. OnePer(Rows(p))'
  <2>1. \A d \in Columns, s \in w : <<d, s>> \in mapping /\ column[d] = b => d = c
    BY <1>1, <1>5, TeamBoardsAssumption DEF OwnInv, OwnStatuses
  <2>2. mapping' \cup tx'[p].maps = mapping \cup ({c} \X w)
    BY <1>1, <1>3, <1>4
  <2>3. column'[c] = b
    BY <1>6
  <2>4. QED BY <1>5, <1>8, <2>1, <2>2, <2>3, OneMoreColumn
<1>14. OwnStatuses(p)'
  BY <1>1, <1>3, <1>4, <1>5, <1>13 DEF OwnStatuses, Joining, Deleting
<1>15. QED BY <1>1, <1>3, <1>4, <1>6, <1>7, <1>10, <1>11, <1>12, <1>14, Inside DEF OwnInv, Joining

LEMMA SetWriteStep ==
  ASSUME Shape, ColumnInv, NEW p \in Requests, SetWrite(p)
  PROVE  ColumnInv'
<1> DEFINE b == tx[p].b
           c == tx[p].c
           w == NewToColumn(p)
           n == [tx[p] EXCEPT !.maps = {tx[p].c} \X NewToColumn(p)]
<1>1. at[p] = "setWrite" /\ UNCHANGED <<mapping, board, category, column>>
  BY DEF SetWrite, dbVars
<1>2. Step(p, "setCommit", n)
  BY DEF SetWrite
<1>3. n.b = b /\ n.c = c /\ n.locks = tx[p].locks /\ n.cols = tx[p].cols /\ n.maps = {c} \X w
  BY DEF Shape, Fields
<1> HIDE DEF n
<1>4. /\ at'[p] = "setCommit" /\ tx'[p] = n
      /\ \A q \in Requests \ {p} : at'[q] = at[q] /\ tx'[q] = tx[q]
  BY <1>2, StepFacts
<1>5. /\ OwnInv(p) /\ b \in tx[p].locks /\ tx[p].locks \subseteq Boards
      /\ c \in Columns /\ column[c] = b
      /\ w \subseteq tx[p].want /\ \A s \in w : s \in Statuses /\ category[s] # "unused"
  BY <1>1, LiveIsUsed DEF SetWrite, Mappable, NewToColumn, ColumnInv, OwnInv, OwnBoards, OwnStatuses, AtBoard
<1>6. \A d : Owns(p, d)' = Owns(p, d)
  BY <1>1, <1>3, <1>4 DEF Owns
<1>7. \A q \in Requests \ {p}, d \in Boards : Owns(p, d)' => ~Owns(q, d)
  BY <1>6 DEF ColumnInv, Apart
<1>8. OwnBoards(p)'
  BY <1>1, <1>3, <1>4, <1>5 DEF OwnInv, OwnBoards, AtBoard
<1>9. OwnRows(p)'
  <2>1. \A d \in n.cols : d \in Columns /\ column[d] \in Boards /\ Owns(p, column[d])
    BY <1>3, <1>5 DEF OwnInv, OwnRows
  <2>2. Owns(p, b) /\ b \in Boards
    BY <1>5 DEF Owns
  <2>3. QED BY <1>1, <1>3, <1>4, <1>5, <1>6, <2>1, <2>2 DEF OwnRows
<1>10. OnePer(Rows(p))'
  <2>1. \A d \in Columns, s \in w : <<d, s>> \in mapping /\ column[d] = b => d = c
    BY <1>1, <1>5 DEF OwnInv, OwnStatuses
  <2>2. mapping' \cup tx'[p].maps = mapping \cup ({c} \X w)
    BY <1>1, <1>3, <1>4
  <2>3. w \in SUBSET tx[p].want /\ w \subseteq Statuses
    BY <1>5
  <2> HIDE DEF w
  <2>4. QED BY <1>1, <1>5, <2>1, <2>2, <2>3, OneMoreColumn
<1>11. OwnStatuses(p)'
  BY <1>1, <1>3, <1>4, <1>5, <1>10 DEF OwnStatuses, Joining, Deleting
<1>12. QED BY <1>1, <1>3, <1>4, <1>7, <1>8, <1>9, <1>11, Inside DEF OwnInv, Joining

LEMMA ReorderCheckStep ==
  ASSUME Shape, ColumnInv, NEW p \in Requests, ReorderCheck(p)
  PROVE  ColumnInv'
<1> DEFINE n == [tx[p] EXCEPT !.seen = ColumnsOf(tx[p].b)]
<1>1. at[p] = "reorderCheck" /\ Step(p, "reorder", n) /\ UNCHANGED <<mapping, board, category, column>>
  BY DEF ReorderCheck, dbVars
<1>2. n.b = tx[p].b /\ n.locks = tx[p].locks /\ n.cols = tx[p].cols /\ n.maps = tx[p].maps
  BY DEF Shape, Fields
<1> HIDE DEF n
<1>3. /\ at'[p] = "reorder" /\ tx'[p] = n
      /\ \A q \in Requests \ {p} : at'[q] = at[q] /\ tx'[q] = tx[q]
  BY <1>1, StepFacts
<1>4. OwnInv(p)
  BY DEF ColumnInv
<1>5. \A d : Owns(p, d)' = Owns(p, d)
  BY <1>1, <1>2, <1>3 DEF Owns
<1>6. OwnBoards(p)' /\ OwnRows(p)'
  BY <1>1, <1>2, <1>3, <1>4, <1>5 DEF OwnInv, OwnBoards, OwnRows, AtBoard
<1>7. OnePer(Rows(p))'
  BY <1>1, <1>2, <1>3, <1>4 DEF OwnInv, OwnStatuses, Rows, OnePer
<1>8. OwnStatuses(p)'
  BY <1>1, <1>2, <1>3, <1>4, <1>7 DEF OwnInv, OwnStatuses, Joining, Deleting
<1>9. \A q \in Requests \ {p}, d \in Boards : Owns(p, d)' => ~Owns(q, d)
  BY <1>5 DEF ColumnInv, Apart
<1>10. QED BY <1>1, <1>2, <1>3, <1>6, <1>8, <1>9, Inside DEF OwnInv, Joining

\* The first steps of the requests on a board.
LEMMA BoardBegins ==
  ASSUME Shape, ColumnInv, NEW p \in Requests,
         DeleteBoard(p) \/ AddColumn(p) \/ SetColumnStatuses(p) \/ DeleteColumn(p) \/ ReorderColumns(p)
  PROVE  ColumnInv'
<1> DEFINE Takes(b, op, s, t) ==
        /\ LockBoard(p, op, s, t) /\ s \in AtBoard \ {"addWrite", "setWrite", "setCommit"}
        /\ t.b = b /\ t.cols = {} /\ t.maps = {} /\ DOMAIN t = Fields
        /\ s = "addCheck" => t.c = NoColumn
<1>1. ASSUME NEW b \in Boards, NEW op, NEW s, NEW t, Takes(b, op, s, t)
      PROVE  ColumnInv'
  BY <1>1, TakesBoard
<1>2. CASE DeleteBoard(p)
  <2>1. PICK b \in Boards : LockBoard(p, "deleteBoard", "dropBoard", [NoTx EXCEPT !.b = b])
    BY <1>2 DEF DeleteBoard
  <2>2. Takes(b, "deleteBoard", "dropBoard", [NoTx EXCEPT !.b = b])
    BY <2>1, NoTxFacts DEF Fields, AtBoard
  <2>3. QED BY <1>1, <2>2
<1>3. CASE AddColumn(p)
  <2>1. PICK b \in Boards, w \in SUBSET Statuses :
           LockBoard(p, "addColumn", "addCheck", [NoTx EXCEPT !.b = b, !.want = w])
    BY <1>3 DEF AddColumn
  <2>2. NoTx.c = NoColumn
    BY DEF NoTx
  <2>3. Takes(b, "addColumn", "addCheck", [NoTx EXCEPT !.b = b, !.want = w])
    BY <2>1, <2>2, NoTxFacts DEF Fields, AtBoard
  <2>4. QED BY <1>1, <2>3
<1>4. CASE SetColumnStatuses(p)
  <2>1. PICK b \in Boards, c \in Columns, w \in SUBSET Statuses :
           LockBoard(p, "setColumn", "setCheck", [NoTx EXCEPT !.b = b, !.c = c, !.want = w])
    BY <1>4 DEF SetColumnStatuses
  <2>2. Takes(b, "setColumn", "setCheck", [NoTx EXCEPT !.b = b, !.c = c, !.want = w])
    BY <2>1, NoTxFacts DEF Fields, AtBoard
  <2>3. QED BY <1>1, <2>2
<1>5. CASE DeleteColumn(p)
  <2>1. PICK b \in Boards, c \in Columns :
           LockBoard(p, "deleteColumn", "dropColumn", [NoTx EXCEPT !.b = b, !.c = c])
    BY <1>5 DEF DeleteColumn
  <2>2. Takes(b, "deleteColumn", "dropColumn", [NoTx EXCEPT !.b = b, !.c = c])
    BY <2>1, NoTxFacts DEF Fields, AtBoard
  <2>3. QED BY <1>1, <2>2
<1>6. CASE ReorderColumns(p)
  <2>1. PICK b \in Boards : LockBoard(p, "reorderColumns", "reorderCheck", [NoTx EXCEPT !.b = b])
    BY <1>6 DEF ReorderColumns
  <2>2. Takes(b, "reorderColumns", "reorderCheck", [NoTx EXCEPT !.b = b])
    BY <2>1, NoTxFacts DEF Fields, AtBoard
  <2>3. QED BY <1>1, <2>2
<1>7. QED BY <1>2, <1>3, <1>4, <1>5, <1>6

\* The steps that look at no column.
LEMMA FreeSteps ==
  ASSUME Shape, ColumnInv, NEW p \in Requests,
         \/ DeleteStatus(p) \/ WriteTicket(p) \/ ReadColumns(p)
         \/ DeleteCheckMoveTo(p) \/ DeleteShare(p) \/ DeleteCount(p) \/ DeleteMove(p)
  PROVE  ColumnInv'
<1>0. UNCHANGED <<mapping, board, category, column>>
  BY DEF DeleteStatus, WriteTicket, ReadColumns, DeleteCheckMoveTo, DeleteShare, DeleteCount, DeleteMove, dbVars
<1> DEFINE Free(s, t) ==
        /\ Step(p, s, t) /\ s \in Reading /\ t.locks = {} /\ t.cols = {} /\ t.maps = {}
        /\ s \in Deleting => t.s \in Statuses /\ category[t.s] # "unused"
<1>1. ASSUME NEW s, NEW t, Free(s, t)
      PROVE  ColumnInv'
  BY <1>0, <1>1, BeginsFree
<1>2. CASE DeleteStatus(p)
  <2>1. PICK s \in LiveStatuses, to \in Statuses \cup {NoStatus} :
           Step(p, IF to = NoStatus THEN "delCount" ELSE "delMoveTo", [NoTx EXCEPT !.s = s, !.to = to])
    BY <1>2 DEF DeleteStatus
  <2>2. Free(IF to = NoStatus THEN "delCount" ELSE "delMoveTo", [NoTx EXCEPT !.s = s, !.to = to])
    BY <2>1, NoTxFacts, LiveIsUsed DEF Fields, Reading
  <2>3. QED BY <1>1, <2>2
<1>3. CASE WriteTicket(p)
  <2>1. PICK t \in Tickets, s \in LiveStatuses \cup {NoStatus} :
           Step(p, "ticketCommit", [NoTx EXCEPT !.t = t, !.s = s])
    BY <1>3 DEF WriteTicket
  <2>2. Free("ticketCommit", [NoTx EXCEPT !.t = t, !.s = s])
    BY <2>1, NoTxFacts DEF Fields, Reading, Deleting
  <2>3. QED BY <1>1, <2>2
<1>4. CASE ReadColumns(p)
  <2>1. PICK b \in LiveBoards : Step(p, "readStatuses", [NoTx EXCEPT !.b = b, !.seen = ColumnsOf(b)])
    BY <1>4 DEF ReadColumns
  <2>2. Free("readStatuses", [NoTx EXCEPT !.b = b, !.seen = ColumnsOf(b)])
    BY <2>1, NoTxFacts DEF Fields, Reading, Deleting
  <2>3. QED BY <1>1, <2>2
<1>5. CASE DeleteCheckMoveTo(p) \/ DeleteShare(p) \/ DeleteCount(p) \/ DeleteMove(p)
  <2>1. at[p] \in Deleting /\ (End(p) \/ \E s \in Deleting : Step(p, s, tx[p]))
    BY <1>5 DEF DeleteCheckMoveTo, DeleteShare, DeleteCount, DeleteMove, Deleting
  <2>2. CASE End(p)
    BY <1>0, <2>2, EndsIdle
  <2>3. QED BY <1>0, <2>1, <2>2, GoesOn
<1>6. QED BY <1>2, <1>3, <1>4, <1>5

LEMMA ColumnNext == Shape /\ ColumnInv /\ [Next]_vars => ColumnInv'
<1> SUFFICES ASSUME Shape, ColumnInv, [Next]_vars PROVE ColumnInv'
  OBVIOUS
<1>1. CASE UNCHANGED vars
  <2>1. \A p : \A b : Owns(p, b)' = Owns(p, b)
    BY <1>1 DEF vars, Owns
  <2>2. Data' /\ Apart'
    BY <1>1, <2>1 DEF vars, ColumnInv, Data, Committed, OnePer, Apart
  <2>3. ASSUME NEW p \in Requests
        PROVE  OwnInv(p)'
    <3>1. OwnBoards(p)' /\ OwnRows(p)'
      BY <1>1, <2>1 DEF vars, ColumnInv, OwnInv, OwnBoards, OwnRows
    <3>2. OwnStatuses(p)'
      BY <1>1 DEF vars, ColumnInv, OwnInv, OwnStatuses, OnePer, Rows
    <3>3. QED BY <3>1, <3>2 DEF OwnInv
  <2>4. QED BY <2>2, <2>3 DEF ColumnInv
<1>2. ASSUME NEW p \in Requests, StatusRequest(p)
      PROVE  ColumnInv'
  BY <1>2, CreateStatusStep, JoinLockStep, JoinLockedStep, JoinBoardStep, EndSteps, FreeSteps DEF StatusRequest
<1>3. ASSUME NEW p \in Requests, BoardRequest(p)
      PROVE  ColumnInv'
  BY <1>3, CreateBoardStep, SeedColumnStep, BoardBegins, CheckStep, AddWriteStep, SetWriteStep, ReorderCheckStep,
     EndSteps, FreeSteps DEF BoardRequest
<1>4. ASSUME NEW p \in Requests, WriteTicket(p) \/ TicketCommit(p) \/ Abort(p)
      PROVE  ColumnInv'
  BY <1>4, FreeSteps, EndSteps
<1>5. QED BY <1>1, <1>2, <1>3, <1>4 DEF Next

-----------------------------------------------------------------------------
(* The boards that were there first                                        *)

\* b has s, or a column write took it off.
Marked(b, s) ==
    \/ \E c \in Columns : <<c, s>> \in mapping /\ column[c] = b
    \/ <<b, s>> \in byHand

OldBoards == {b \in Board0 : board[b] = "live"}

\* While its status is being created, an old board is still to be locked, is
\* locked, or has its row among those that will be committed.
JoinsOld(p) ==
    /\ at[p] = "joinLock" => OldBoards \subseteq tx[p].todo \cup tx[p].locks
    /\ at[p] = "join" => \A b \in OldBoards :
            b \in tx[p].todo \/ \E c \in Columns : <<c, tx[p].s>> \in tx[p].maps /\ column[c] = b

OldInv ==
    /\ \A b \in Board0 : board[b] # "unused"
    /\ \A b \in OldBoards, s \in LiveStatuses : Marked(b, s)
    /\ \A p \in Requests : JoinsOld(p)

\* A step of p, that takes rows and columns from p's own boards only, leaves
\* the others' joining as it was.
LEMMA OldStep ==
  ASSUME ColumnInv, OldInv, NEW p \in Requests,
         \A q \in Requests \ {p} : at'[q] = at[q] /\ tx'[q] = tx[q],
         \A b \in Boards : board[b] # "unused" => board'[b] = board[b] \/ board'[b] = "gone",
         \A c \in Columns : column'[c] = column[c] \/ column[c] \notin Boards \/ Owns(p, column[c]),
         \A b \in OldBoards, s \in LiveStatuses :
            board'[b] = "live" /\ category'[s] \in Categories /\ Marked(b, s) => Marked(b, s)',
         \A b \in OldBoards, s \in Statuses :
            board'[b] = "live" /\ category'[s] \in Categories /\ s \notin LiveStatuses => Marked(b, s)',
         JoinsOld(p)'
  PROVE  OldInv'
<1>1. Board0 \subseteq Boards
  BY TeamBoardsAssumption DEF Board0
<1>2. \A b \in Board0 : board'[b] # "unused" /\ (board'[b] = "live" => board[b] = "live")
  BY <1>1 DEF OldInv
<1>3. \A b \in OldBoards' : b \in OldBoards /\ board'[b] = "live"
  BY <1>2 DEF OldBoards
<1>4. \A b \in OldBoards', s \in LiveStatuses' : Marked(b, s)'
  BY <1>3 DEF OldInv, LiveStatuses
<1>5. ASSUME NEW q \in Requests, q # p PROVE JoinsOld(q)'
  <2>1. at'[q] = at[q] /\ tx'[q] = tx[q] /\ JoinsOld(q)
    BY <1>5 DEF OldInv
  <2>2. \A c \in Columns, s \in Statuses : <<c, s>> \in tx[q].maps => column'[c] = column[c]
    BY <1>5 DEF ColumnInv, OwnInv, OwnRows, Apart
  <2>3. at[q] = "join" => tx[q].s \in Statuses
    BY DEF ColumnInv, OwnInv, OwnStatuses, Joining
  <2>4. QED BY <1>3, <2>1, <2>2, <2>3 DEF JoinsOld
<1>6. QED BY <1>2, <1>4, <1>5 DEF OldInv

\* A step that commits no status, board or mapping.
LEMMA OldCalm ==
  ASSUME ColumnInv, OldInv, NEW p \in Requests,
         \A q \in Requests \ {p} : at'[q] = at[q] /\ tx'[q] = tx[q],
         UNCHANGED <<mapping, byHand, category, board>>,
         \A c \in Columns : column'[c] = column[c] \/ column[c] = NoBoard \/ c \in tx[p].cols,
         JoinsOld(p)'
  PROVE  OldInv'
<1> NoBoard \notin Boards
  BY TeamBoardsAssumption
<1>1. \A c \in Columns : column'[c] = column[c] \/ column[c] \notin Boards \/ Owns(p, column[c])
  BY DEF ColumnInv, OwnInv, OwnRows
<1>2. \A c \in Columns, s \in Statuses : <<c, s>> \in mapping => column'[c] = column[c]
  BY DEF ColumnInv, Data, Committed
<1>3. \A b, s : s \in Statuses /\ Marked(b, s) => Marked(b, s)'
  BY <1>2 DEF Marked
<1>4. \A s \in LiveStatuses : s \in Statuses
  BY DEF LiveStatuses
<1>5. \A s \in Statuses : category'[s] \in Categories => s \in LiveStatuses
  BY DEF LiveStatuses
<1>6. QED BY <1>1, <1>3, <1>4, <1>5, OldStep

\* The steps that commit no status, board or mapping, and create no status.
Calm(p) ==
    \/ DeleteStatus(p) \/ DeleteCheckMoveTo(p) \/ DeleteShare(p) \/ DeleteCount(p) \/ DeleteMove(p)
    \/ CreateBoard(p) \/ SeedColumn(p) \/ SeedFails(p)
    \/ DeleteBoard(p) \/ AddColumn(p) \/ SetColumnStatuses(p) \/ DeleteColumn(p) \/ ReorderColumns(p)
    \/ AddCheck(p) \/ AddWrite(p) \/ SetCheck(p) \/ SetWrite(p) \/ WriteFails(p) \/ SetColumnGone(p)
    \/ ReorderCheck(p) \/ ReorderCommit(p) \/ ReadColumns(p) \/ ReadStatuses(p)
    \/ WriteTicket(p) \/ TicketCommit(p) \/ Abort(p)

\* They do.
LEMMA CalmSteps ==
  ASSUME Shape, NEW p \in Requests, Calm(p)
  PROVE  /\ UNCHANGED <<mapping, byHand, category, board>>
         /\ \A c \in Columns : column'[c] = column[c] \/ column[c] = NoBoard \/ c \in tx[p].cols
         /\ \E s, t : Step(p, s, t) /\ s \notin Joining
<1> USE DEF Joining
<1>1. CASE DeleteStatus(p) \/ DeleteShare(p) \/ CreateBoard(p) \/ SetWrite(p) \/ ReorderCheck(p) \/ ReadColumns(p) \/ WriteTicket(p)
  <2>1. UNCHANGED <<mapping, byHand, category, board, column>>
    <3>1. CASE DeleteStatus(p) \/ DeleteShare(p)
      BY <3>1 DEF DeleteStatus, DeleteShare, dbVars
    <3>2. CASE CreateBoard(p) \/ SetWrite(p)
      BY <3>2 DEF CreateBoard, SetWrite, dbVars
    <3>3. CASE ReorderCheck(p) \/ ReadColumns(p) \/ WriteTicket(p)
      BY <3>3 DEF ReorderCheck, ReadColumns, WriteTicket, dbVars
    <3>4. QED BY <1>1, <3>1, <3>2, <3>3
  <2>2. CASE DeleteStatus(p)
    <3>1. \E s, t : Step(p, s, t) /\ s \in {"delCount", "delMoveTo"}
      <4>1. PICK to, t : Step(p, IF to = NoStatus THEN "delCount" ELSE "delMoveTo", t)
        BY <2>2 DEF DeleteStatus
      <4>2. QED BY <4>1
    <3>2. QED BY <2>1, <3>1
  <2>3. DeleteShare(p) => \E t : Step(p, "delCount", t)
    BY DEF DeleteShare
  <2>4. CreateBoard(p) => \E t : Step(p, "seed", t)
    BY DEF CreateBoard
  <2>5. SetWrite(p) => \E t : Step(p, "setCommit", t)
    BY DEF SetWrite
  <2>6. ReorderCheck(p) => \E t : Step(p, "reorder", t)
    BY DEF ReorderCheck
  <2>7. ReadColumns(p) => \E t : Step(p, "readStatuses", t)
    BY DEF ReadColumns
  <2>8. WriteTicket(p) => \E t : Step(p, "ticketCommit", t)
    BY DEF WriteTicket
  <2>9. QED BY <1>1, <2>1, <2>2, <2>3, <2>4, <2>5, <2>6, <2>7, <2>8
<1>2. CASE DeleteCheckMoveTo(p) \/ DeleteCount(p) \/ DeleteMove(p) \/ AddCheck(p) \/ SetCheck(p)
  BY <1>2, EndFacts DEF DeleteCheckMoveTo, DeleteCount, DeleteMove, AddCheck, SetCheck, Check, dbVars
<1>3. CASE DeleteBoard(p) \/ AddColumn(p) \/ SetColumnStatuses(p) \/ DeleteColumn(p) \/ ReorderColumns(p)
  <2>1. PICK op, t, s : LockBoard(p, op, s, t) /\ s \in AtBoard
    BY <1>3 DEF DeleteBoard, AddColumn, SetColumnStatuses, DeleteColumn, ReorderColumns, AtBoard
  <2>2. QED BY <2>1 DEF LockBoard, dbVars, AtBoard
<1>4. CASE ReorderCommit(p) \/ ReadStatuses(p) \/ TicketCommit(p)
  BY <1>4, EndFacts DEF ReorderCommit, ReadStatuses, TicketCommit, dbVars
<1>5. CASE Abort(p) \/ SeedFails(p) \/ WriteFails(p) \/ SetColumnGone(p)
  BY <1>5, EndFacts DEF Abort, SeedFails, WriteFails, SetColumnGone, Refuse, Without
<1>6. CASE SeedColumn(p)
  BY <1>6 DEF SeedColumn, Fresh, Shape
<1>7. CASE AddWrite(p)
  BY <1>7 DEF AddWrite, Append, Fresh, Shape
<1>8. QED BY <1>1, <1>2, <1>3, <1>4, <1>5, <1>6, <1>7 DEF Calm

\* The creation of a status locks every board there is, and joins each.
LEMMA OldJoining ==
  ASSUME Shape, ColumnInv, OldInv, NEW p \in Requests, CreateStatus(p) \/ JoinLock(p) \/ JoinLocked(p) \/ JoinBoard(p)
  PROVE  OldInv'
<1>1. DOMAIN tx[p] = Fields /\ Board0 \subseteq Boards
  BY TeamBoardsAssumption DEF Shape, Board0
<1>2. JoinsOld(p)
  BY DEF OldInv
<1>3. CASE CreateStatus(p)
  <2>1. PICK s \in Statuses, k \in Categories : Step(p, "joinLock", [NoTx EXCEPT !.s = s, !.cat = k, !.todo = LiveBoards])
    BY <1>3 DEF CreateStatus
  <2> DEFINE n == [NoTx EXCEPT !.s = s, !.cat = k, !.todo = LiveBoards]
  <2>2. n.todo = LiveBoards
    BY NoTxFacts DEF Fields
  <2> HIDE DEF n
  <2>3. at'[p] = "joinLock" /\ tx'[p] = n /\ \A q \in Requests \ {p} : at'[q] = at[q] /\ tx'[q] = tx[q]
    BY <2>1, StepFacts DEF n
  <2>4. UNCHANGED <<mapping, byHand, category, board, column>>
    BY <1>3 DEF CreateStatus, dbVars
  <2>5. JoinsOld(p)'
    BY <1>1, <2>2, <2>3, <2>4 DEF JoinsOld, OldBoards, LiveBoards
  <2>6. QED BY <2>3, <2>4, <2>5, OldCalm
<1>4. CASE JoinLock(p)
  <2>1. PICK b \in tx[p].todo :
          \/ board[b] = "gone" /\ Step(p, "joinLock", [tx[p] EXCEPT !.todo = @ \ {b}])
          \/ Step(p, "joinLock", [tx[p] EXCEPT !.todo = @ \ {b}, !.locks = @ \cup {b}])
    BY <1>4 DEF JoinLock
  <2> DEFINE n1 == [tx[p] EXCEPT !.todo = @ \ {b}]
             n2 == [tx[p] EXCEPT !.todo = @ \ {b}, !.locks = @ \cup {b}]
  <2>2. n1.todo = tx[p].todo \ {b} /\ n1.locks = tx[p].locks
    BY <1>1 DEF Fields
  <2>3. n2.todo = tx[p].todo \ {b} /\ n2.locks = tx[p].locks \cup {b}
    BY <1>1 DEF Fields
  <2>4. (board[b] = "gone" /\ Step(p, "joinLock", n1)) \/ Step(p, "joinLock", n2)
    BY <2>1
  <2> HIDE DEF n1, n2
  <2>5. PICK n : /\ Step(p, "joinLock", n) /\ n.todo = tx[p].todo \ {b}
                 /\ (board[b] = "gone" /\ n.locks = tx[p].locks) \/ n.locks = tx[p].locks \cup {b}
    BY <2>2, <2>3, <2>4
  <2>6. at'[p] = "joinLock" /\ tx'[p] = n /\ \A q \in Requests \ {p} : at'[q] = at[q] /\ tx'[q] = tx[q]
    BY <2>5, StepFacts
  <2>7. at[p] = "joinLock" /\ UNCHANGED <<mapping, byHand, category, board, column>>
    BY <1>4 DEF JoinLock, dbVars
  <2>8. JoinsOld(p)'
    BY <1>2, <2>5, <2>6, <2>7 DEF JoinsOld, OldBoards
  <2>9. QED BY <2>6, <2>7, <2>8, OldCalm
<1>5. CASE JoinLocked(p)
  <2> DEFINE n == [tx[p] EXCEPT !.todo = tx[p].locks]
  <2>1. n.todo = tx[p].locks
    BY <1>1 DEF Fields
  <2>2. at[p] = "joinLock" /\ tx[p].todo = {} /\ Step(p, "join", n) /\ UNCHANGED <<mapping, byHand, category, board, column>>
    BY <1>5 DEF JoinLocked, dbVars
  <2> HIDE DEF n
  <2>3. at'[p] = "join" /\ tx'[p] = n /\ \A q \in Requests \ {p} : at'[q] = at[q] /\ tx'[q] = tx[q]
    BY <2>2, StepFacts
  <2>4. JoinsOld(p)'
    BY <1>2, <2>1, <2>2, <2>3 DEF JoinsOld, OldBoards
  <2>5. QED BY <2>2, <2>3, <2>4, OldCalm
<1>6. CASE JoinBoard(p)
  <2>1. at[p] = "join" /\ UNCHANGED <<mapping, byHand, category, board>>
    BY <1>6 DEF JoinBoard
  <2>2. PICK b \in tx[p].todo, c \in Columns :
          \/ /\ c \in Fitting(p, b) /\ UNCHANGED column
             /\ Step(p, "join", [tx[p] EXCEPT !.todo = @ \ {b}, !.maps = @ \cup {<<c, tx[p].s>>}])
          \/ /\ Append(p, c, b)
             /\ Step(p, "join", [tx[p] EXCEPT !.todo = @ \ {b}, !.cols = @ \cup {c}, !.maps = @ \cup {<<c, tx[p].s>>}])
    BY <1>6 DEF JoinBoard
  <2> DEFINE n1 == [tx[p] EXCEPT !.todo = @ \ {b}, !.maps = @ \cup {<<c, tx[p].s>>}]
             n2 == [tx[p] EXCEPT !.todo = @ \ {b}, !.cols = @ \cup {c}, !.maps = @ \cup {<<c, tx[p].s>>}]
  <2>3. n1.s = tx[p].s /\ n1.todo = tx[p].todo \ {b} /\ n1.maps = tx[p].maps \cup {<<c, tx[p].s>>}
    BY <1>1 DEF Fields
  <2>4. n2.s = tx[p].s /\ n2.todo = tx[p].todo \ {b} /\ n2.maps = tx[p].maps \cup {<<c, tx[p].s>>}
    BY <1>1 DEF Fields
  <2>5. (c \in Fitting(p, b) /\ UNCHANGED column /\ Step(p, "join", n1)) \/ (Append(p, c, b) /\ Step(p, "join", n2))
    BY <2>2
  <2> HIDE DEF n1, n2
  <2>6. c \in Fitting(p, b) => column[c] = b
    BY DEF Fitting, ColumnsOf
  <2>7. Append(p, c, b) => column[c] = NoBoard /\ \A d \in Columns : column'[d] = IF d = c THEN b ELSE column[d]
    BY DEF Append, Fresh, Shape
  <2>8. PICK n : /\ Step(p, "join", n) /\ n.s = tx[p].s /\ n.todo = tx[p].todo \ {b}
                 /\ n.maps = tx[p].maps \cup {<<c, tx[p].s>>}
                 /\ column'[c] = b
                 /\ \A d \in Columns : column'[d] = column[d] \/ (d = c /\ column[d] = NoBoard)
    BY <2>3, <2>4, <2>5, <2>6, <2>7
  <2>9. at'[p] = "join" /\ tx'[p] = n /\ \A q \in Requests \ {p} : at'[q] = at[q] /\ tx'[q] = tx[q]
    BY <2>8, StepFacts
  <2>10. JoinsOld(p)'
    <3> SUFFICES ASSUME NEW d \in OldBoards
                 PROVE  d \in n.todo \/ \E e \in Columns : <<e, n.s>> \in n.maps /\ column'[e] = d
      BY <2>1, <2>9 DEF JoinsOld, OldBoards
    <3>1. CASE d = b
      BY <2>8, <3>1
    <3>2. CASE d # b /\ d \notin tx[p].todo
      <4>1. PICK e \in Columns : <<e, tx[p].s>> \in tx[p].maps /\ column[e] = d
        BY <1>2, <2>1, <3>2 DEF JoinsOld
      <4>2. d \in Boards /\ NoBoard \notin Boards
        BY <1>1, TeamBoardsAssumption DEF OldBoards
      <4>3. column'[e] = d
        BY <2>8, <4>1, <4>2
      <4>4. QED BY <2>8, <4>1, <4>3
    <3>3. QED BY <2>8, <3>1, <3>2
  <2>11. QED BY <2>1, <2>8, <2>9, <2>10, OldCalm
<1>7. QED BY <1>3, <1>4, <1>5, <1>6

\* The commits.
LEMMA OldCommits ==
  ASSUME Shape, ColumnInv, OldInv, NEW p \in Requests,
         \/ CreateStatusCommit(p) \/ UpdateStatus(p) \/ DeleteCommit(p) \/ CreateBoardCommit(p) \/ DeleteBoardCommit(p)
         \/ AddCommit(p) \/ SetCommit(p) \/ DeleteColumnCommit(p)
  PROVE  OldInv'
<1>1. End(p)
  BY DEF CreateStatusCommit, UpdateStatus, DeleteCommit, CreateBoardCommit, DeleteBoardCommit, AddCommit, SetCommit,
         DeleteColumnCommit
<1>2. at'[p] = "done" /\ \A q \in Requests \ {p} : at'[q] = at[q] /\ tx'[q] = tx[q]
  BY <1>1, EndFacts, StepFacts
<1>3. JoinsOld(p)'
  BY <1>2 DEF JoinsOld
<1>4. Board0 \subseteq Boards /\ NoBoard \notin Boards /\ OldBoards \subseteq Boards
  BY TeamBoardsAssumption DEF Board0, OldBoards
<1>5. LiveStatuses \subseteq Statuses /\ \A s \in Statuses : category[s] \in Categories => s \in LiveStatuses
  BY DEF LiveStatuses
<1>6. OwnInv(p) /\ JoinsOld(p)
  BY DEF ColumnInv, OldInv
<1>7. CASE CreateStatusCommit(p)
  <2>1. /\ at[p] = "join" /\ tx[p].todo = {} /\ mapping' = mapping \cup tx[p].maps
        /\ UNCHANGED <<board, column, byHand>>
    BY <1>7 DEF CreateStatusCommit
  <2>0. PICK n : n = tx[p].s
    OBVIOUS
  <2>2. \A s \in Statuses : s # n => category'[s] = category[s]
    BY <1>7, <2>0 DEF CreateStatusCommit, Shape
  <2>3. \A b \in OldBoards : Marked(b, n)'
    BY <1>6, <2>0, <2>1 DEF JoinsOld, Marked
  <2>4. \A b, s : Marked(b, s) => Marked(b, s)'
    BY <2>1 DEF Marked
  <2>5. QED BY <1>2, <1>3, <1>5, <2>1, <2>2, <2>3, <2>4, OldStep
<1>8. CASE UpdateStatus(p)
  <2>1. UNCHANGED <<board, column, mapping, byHand>>
    BY <1>8 DEF UpdateStatus
  <2>2. \A s \in Statuses : category'[s] = category[s] \/ s \in LiveStatuses
    BY <1>8 DEF UpdateStatus, Shape
  <2>3. \A b, s : Marked(b, s) => Marked(b, s)'
    BY <2>1 DEF Marked
  <2>4. QED BY <1>2, <1>3, <1>5, <2>1, <2>2, <2>3, OldStep
<1>9. CASE DeleteCommit(p)
  <2>1. UNCHANGED <<board, column, byHand>> /\ mapping' = {m \in mapping : m[2] # tx[p].s}
    BY <1>9 DEF DeleteCommit
  <2>2. \A s \in Statuses : category'[s] = IF s = tx[p].s THEN "gone" ELSE category[s]
    BY <1>9 DEF DeleteCommit, Shape
  <2>3. "gone" \notin Categories
    BY TeamBoardsAssumption
  <2>4. \A b, s : s # tx[p].s /\ Marked(b, s) => Marked(b, s)'
    BY <2>1 DEF Marked
  <2>5. QED BY <1>2, <1>3, <1>5, <2>1, <2>2, <2>3, <2>4, OldStep
<1>10. CASE CreateBoardCommit(p)
  <2>1. at[p] = "seed" /\ mapping' = mapping \cup tx[p].maps /\ UNCHANGED <<category, column, byHand>>
    BY <1>10 DEF CreateBoardCommit
  <2>2. tx[p].b \in Boards /\ board[tx[p].b] = "unused"
    BY <1>6, <2>1 DEF OwnInv, OwnBoards
  <2>3. \A b \in Boards : board[b] # "unused" => board'[b] = board[b]
    BY <1>10, <2>2 DEF CreateBoardCommit, Shape
  <2>4. \A b, s : Marked(b, s) => Marked(b, s)'
    BY <2>1 DEF Marked
  <2>5. QED BY <1>2, <1>3, <1>5, <2>1, <2>3, <2>4, OldStep
<1>11. CASE DeleteBoardCommit(p)
  <2> DEFINE b == tx[p].b
  <2>1. at[p] = "dropBoard" /\ UNCHANGED <<category, byHand>>
    BY <1>11 DEF DeleteBoardCommit
  <2>2. b \in Boards /\ Owns(p, b)
    BY <1>6, <2>1 DEF OwnInv, OwnBoards, AtBoard, Owns
  <2>3. \A d \in Boards : board'[d] = IF d = b THEN "gone" ELSE board[d]
    BY <1>11, <2>2 DEF DeleteBoardCommit, Shape
  <2>4. \A c \in Columns : column'[c] = IF c \in ColumnsOf(b) THEN NoBoard ELSE column[c]
    BY <1>11 DEF DeleteBoardCommit, Without
  <2>5. mapping' = {m \in mapping : m[1] \notin ColumnsOf(b)}
    BY <1>11 DEF DeleteBoardCommit
  <2>6. \A c \in ColumnsOf(b) : column[c] = b
    BY DEF ColumnsOf
  <2> HIDE DEF b
  <2>7. \A d, s : d # b /\ Marked(d, s) => Marked(d, s)'
    BY <2>1, <2>4, <2>5, <2>6 DEF Marked
  <2>8. QED BY <1>2, <1>3, <1>4, <1>5, <2>1, <2>2, <2>3, <2>4, <2>6, <2>7, OldStep
<1>12. CASE AddCommit(p)
  <2>1. mapping' = mapping \cup tx[p].maps /\ UNCHANGED <<category, board, column, byHand>>
    BY <1>12 DEF AddCommit
  <2>2. \A b, s : Marked(b, s) => Marked(b, s)'
    BY <2>1 DEF Marked
  <2>3. QED BY <1>2, <1>3, <1>5, <2>1, <2>2, OldStep
<1>13. CASE SetCommit(p)
  <2> DEFINE b == tx[p].b
             e == tx[p].c
  <2>1. /\ at[p] = "setCommit" /\ UNCHANGED <<category, board, column>>
        /\ mapping' = {m \in mapping : m[1] = e => m[2] \in tx[p].want} \cup tx[p].maps
        /\ byHand' = byHand \cup {<<b, s>> : s \in HeldOn({e}) \ tx[p].want}
    BY <1>13 DEF SetCommit, Unmap
  <2>2. e \in Columns /\ column[e] = b
    BY <1>6, <2>1 DEF OwnInv, OwnStatuses
  <2> HIDE DEF b, e
  <2>3. ASSUME NEW d, NEW s \in Statuses, Marked(d, s) PROVE Marked(d, s)'
    <3>1. CASE <<d, s>> \in byHand
      BY <2>1, <3>1 DEF Marked
    <3>2. ASSUME NEW c \in Columns, <<c, s>> \in mapping, column[c] = d PROVE Marked(d, s)'
      <4>1. CASE c # e \/ s \in tx[p].want
        <5>1. <<c, s>> \in mapping'
          BY <2>1, <3>2, <4>1
        <5>2. QED BY <2>1, <3>2, <5>1 DEF Marked
      <4>2. CASE c = e /\ s \notin tx[p].want
        <5>1. s \in HeldOn({e}) \ tx[p].want
          BY <3>2, <4>2 DEF HeldOn
        <5>2. <<b, s>> \in byHand' /\ d = b
          BY <2>1, <2>2, <3>2, <4>2, <5>1
        <5>3. QED BY <5>2 DEF Marked
      <4>3. QED BY <4>1, <4>2
    <3>3. QED BY <2>3, <3>1, <3>2 DEF Marked
  <2>4. QED BY <1>2, <1>3, <1>5, <2>1, <2>3, OldStep
<1>14. CASE DeleteColumnCommit(p)
  <2> DEFINE b == tx[p].b
             e == tx[p].c
  <2>1. /\ at[p] = "dropColumn" /\ UNCHANGED <<category, board>> /\ e \in ColumnsOf(b)
        /\ mapping' = {m \in mapping : m[1] # e}
        /\ byHand' = byHand \cup {<<b, s>> : s \in HeldOn({e})}
    BY <1>14 DEF DeleteColumnCommit, Unmap
  <2>2. \A c \in Columns : column'[c] = IF c = e THEN NoBoard ELSE column[c]
    BY <1>14 DEF DeleteColumnCommit, Without
  <2>3. column[e] = b /\ Owns(p, b)
    BY <1>6, <2>1 DEF ColumnsOf, OwnInv, OwnBoards, AtBoard, Owns
  <2> HIDE DEF b, e
  <2>4. ASSUME NEW d, NEW s \in Statuses, Marked(d, s) PROVE Marked(d, s)'
    <3>1. CASE <<d, s>> \in byHand
      BY <2>1, <3>1 DEF Marked
    <3>2. ASSUME NEW c \in Columns, <<c, s>> \in mapping, column[c] = d PROVE Marked(d, s)'
      <4>1. CASE c # e
        <5>1. <<c, s>> \in mapping' /\ column'[c] = d
          BY <2>1, <2>2, <3>2, <4>1
        <5>2. QED BY <5>1 DEF Marked
      <4>2. CASE c = e
        <5>1. s \in HeldOn({e})
          BY <3>2, <4>2 DEF HeldOn
        <5>2. <<b, s>> \in byHand' /\ d = b
          BY <2>1, <2>3, <3>2, <4>2, <5>1
        <5>3. QED BY <5>2 DEF Marked
      <4>3. QED BY <4>1, <4>2
    <3>3. QED BY <2>4, <3>1, <3>2 DEF Marked
  <2>5. QED BY <1>2, <1>3, <1>5, <2>1, <2>2, <2>3, <2>4, OldStep
<1>15. QED BY <1>7, <1>8, <1>9, <1>10, <1>11, <1>12, <1>13, <1>14

\* Every step.
LEMMA OldNext == Shape /\ ColumnInv /\ OldInv /\ [Next]_vars => OldInv'
<1> SUFFICES ASSUME Shape, ColumnInv, OldInv, [Next]_vars PROVE OldInv'
  OBVIOUS
<1>1. CASE UNCHANGED vars
  BY <1>1 DEF vars, OldInv, JoinsOld, Marked, OldBoards, LiveStatuses
<1>2. ASSUME NEW p \in Requests, Calm(p) PROVE OldInv'
  <2>1. PICK s, t : Step(p, s, t) /\ s \notin Joining
    BY <1>2, CalmSteps
  <2>2. at'[p] = s /\ \A q \in Requests \ {p} : at'[q] = at[q] /\ tx'[q] = tx[q]
    BY <2>1, StepFacts
  <2>3. JoinsOld(p)'
    BY <2>1, <2>2 DEF JoinsOld, Joining
  <2>4. QED BY <1>2, <2>2, <2>3, CalmSteps, OldCalm
<1>3. ASSUME NEW p \in Requests, StatusRequest(p) PROVE OldInv'
  BY <1>2, <1>3, OldJoining, OldCommits DEF StatusRequest, Calm
<1>4. ASSUME NEW p \in Requests, BoardRequest(p) PROVE OldInv'
  BY <1>2, <1>4, OldCommits DEF BoardRequest, Calm
<1>5. ASSUME NEW p \in Requests, WriteTicket(p) \/ TicketCommit(p) \/ Abort(p) PROVE OldInv'
  BY <1>2, <1>5 DEF Calm
<1>6. QED BY <1>1, <1>3, <1>4, <1>5 DEF Next

-----------------------------------------------------------------------------
(* The theorems                                                            *)

LEMMA InitInv == Init => Shape /\ TicketInv /\ ColumnInv
<1> SUFFICES ASSUME Init PROVE Shape /\ TicketInv /\ ColumnInv
  OBVIOUS
<1>1. \A p \in Requests : at[p] = "new" /\ tx[p] = NoTx
  BY DEF Init
<1>2. Shape
  BY NoTxFacts DEF Init, Shape
<1>3. TicketInv
  BY <1>1 DEF TicketInv, Deleting
<1>4. Apart
  BY <1>1, NoTxFacts DEF Apart, Owns, Joining
<1>5. ASSUME NEW x \in Seeded
      PROVE  /\ x.c \in Columns /\ x.b \in Boards /\ x.s \in Statuses
             /\ column[x.c] = x.b /\ board[x.b] = "live" /\ category[x.s] # "unused"
  <2>1. x.c \in Columns /\ x.b \in Boards /\ x.s \in Statuses
    BY TeamBoardsAssumption
  <2>2. (CHOOSE y \in Seeded : y.c = x.c) = x
    <3>1. \A y \in Seeded : y.c = x.c => y = x
      BY TeamBoardsAssumption
    <3>2. QED BY <3>1
  <2>3. column[x.c] = x.b
    BY <2>1, <2>2 DEF Init
  <2>4. board[x.b] = "live"
    BY <2>1 DEF Init, Board0
  <2>5. category[x.s] = Category0[x.s] /\ Category0[x.s] \in Categories
    BY <2>1, TeamBoardsAssumption DEF Init, Status0
  <2>6. QED BY <2>1, <2>3, <2>4, <2>5, TeamBoardsAssumption
<1>6. \A c, s : <<c, s>> \in mapping => \E x \in Seeded : x.c = c /\ x.s = s
  BY DEF Init
<1>7. OnePer(mapping)
  <2> SUFFICES ASSUME NEW c \in Columns, NEW d \in Columns, NEW s \in Statuses,
                      <<c, s>> \in mapping, <<d, s>> \in mapping, column[c] = column[d]
               PROVE  c = d
    BY DEF OnePer
  <2>1. PICK x \in Seeded : x.c = c /\ x.s = s
    BY <1>6
  <2>2. PICK y \in Seeded : y.c = d /\ y.s = s
    BY <1>6
  <2>3. x.b = y.b
    BY <1>5, <2>1, <2>2
  <2>4. QED BY <2>1, <2>2, <2>3, TeamBoardsAssumption
<1>8. Data
  <2>1. mapping \subseteq Columns \X Statuses
    <3>1. mapping = {<<x.c, x.s>> : x \in Seeded}
      BY DEF Init
    <3>2. \A x \in Seeded : <<x.c, x.s>> \in Columns \X Statuses
      BY <1>5
    <3>3. QED BY <3>1, <3>2
  <2>2. \A c \in Columns : Committed(c)
    BY <1>1, NoTxFacts DEF Committed
  <2>3. \A c \in Columns, s \in Statuses : <<c, s>> \in mapping =>
            column[c] \in Boards /\ board[column[c]] # "unused" /\ category[s] # "unused"
    BY <1>5, <1>6
  <2>4. QED BY <1>7, <2>1, <2>2, <2>3 DEF Data
<1>9. ASSUME NEW p \in Requests
      PROVE  OwnInv(p)
  <2>1. OnePer(Rows(p))
    BY <1>1, <1>7, NoTxFacts DEF Rows
  <2>2. QED BY <1>1, <2>1, NoTxFacts DEF OwnInv, OwnBoards, OwnRows, OwnStatuses, Joining, AtBoard, Deleting
<1>10. QED BY <1>2, <1>3, <1>4, <1>8, <1>9 DEF ColumnInv

LEMMA SpecInv == Spec => [](Shape /\ TicketInv /\ ColumnInv)
<1>1. Shape /\ TicketInv /\ ColumnInv /\ [Next]_vars => (Shape /\ TicketInv /\ ColumnInv)'
  BY ShapeNext, TicketNext, ColumnNext
<1>2. QED BY <1>1, InitInv, PTL DEF Spec

\* A status sits in one column of a board: columnsOf and checkStatuses read it
\* under the board's row lock, joinBoards maps a status nobody can name yet, and
\* a board is seeded before anybody sees it.
THEOREM OneColumn == Spec => []OneColumnPerBoard
<1>1. ColumnInv => OneColumnPerBoard
  BY DEF ColumnInv, Data, OnePer, OneColumnPerBoard, ColumnsOf
<1>2. QED BY <1>1, SpecInv, PTL

\* DeleteStatus never takes a ticket's status away: FOR UPDATE on the status row
\* shuts out the foreign keys of ticket writes, and move_to is held by FOR SHARE.
THEOREM DeletingKeepsStatuses == Spec => NoTicketLosesItsStatus
<1> DEFINE Kept == \A t \in Tickets :
                     ticket[t] \in Statuses /\ ticket'[t] = NoStatus =>
                        \E p \in Requests : at[p] = "ticketCommit" /\ tx[p].t = t
<1>1. Shape /\ TicketInv /\ [Next]_vars => [Kept]_vars
  <2> SUFFICES ASSUME Shape, TicketInv, [Next]_vars, NEW t \in Tickets,
                      ticket[t] \in Statuses, ticket'[t] = NoStatus
               PROVE  \E p \in Requests : at[p] = "ticketCommit" /\ tx[p].t = t
    OBVIOUS
  <2>1. NoStatus \notin Statuses
    BY TeamBoardsAssumption
  <2>2. ~UNCHANGED ticket
    BY <2>1
  <2>3. PICK p \in Requests : DeleteCommit(p) \/ TicketCommit(p)
    BY <2>2, NextSteps, OtherSteps
       DEF vars, dbVars, DeleteStatus, DeleteCheckMoveTo, DeleteShare, DeleteCount, DeleteMove, WriteTicket
  <2>4. CASE DeleteCommit(p)
    <3>1. ticket'[t] = IF ticket[t] = tx[p].s THEN tx[p].to ELSE ticket[t]
      BY <2>4 DEF DeleteCommit
    <3>2. ticket[t] = tx[p].s /\ tx[p].to = NoStatus
      BY <2>1, <3>1
    <3>3. QED BY <2>4, <3>2 DEF DeleteCommit, TicketInv
  <2>5. CASE TicketCommit(p)
    <3>1. tx[p].t = t
      BY <2>1, <2>5 DEF TicketCommit, Shape
    <3>2. QED BY <2>5, <3>1 DEF TicketCommit
  <2>6. QED BY <2>3, <2>4, <2>5
<1>2. QED BY <1>1, SpecInv, PTL DEF Spec, NoTicketLosesItsStatus

\* At the start a board has every status, or has had it taken off.
LEMMA InitOld == Init => OldInv
<1> SUFFICES ASSUME Init PROVE OldInv
  OBVIOUS
<1>1. \A b \in Board0 : b \in Boards /\ board[b] = "live"
  BY TeamBoardsAssumption DEF Init, Board0
<1>2. ASSUME NEW b \in Board0, NEW s \in LiveStatuses PROVE Marked(b, s)
  <2>1. s \in Status0
    BY TeamBoardsAssumption DEF Init, LiveStatuses
  <2>2. ASSUME NEW x \in Seeded, <<x.b, x.s>> = <<b, s>> PROVE Marked(b, s)
    <3>1. x.c \in Columns /\ \A y \in Seeded : y.c = x.c => y = x
      BY TeamBoardsAssumption
    <3>2. (CHOOSE y \in Seeded : y.c = x.c) = x
      BY <3>1
    <3>3. column[x.c] = x.b
      BY <3>1, <3>2 DEF Init
    <3>4. <<x.c, x.s>> \in mapping
      BY DEF Init
    <3>5. QED BY <2>2, <3>1, <3>3, <3>4 DEF Marked
  <2>3. CASE <<b, s>> \notin {<<x.b, x.s>> : x \in Seeded}
    BY <2>1, <2>3 DEF Init, Marked
  <2>4. QED BY <2>2, <2>3
<1>3. \A p \in Requests : JoinsOld(p)
  BY DEF Init, JoinsOld
<1>4. QED BY <1>1, <1>2, <1>3 DEF OldInv, OldBoards

\* A status that is created joins every board that was there first, through
\* whatever is deleted, renumbered and created meanwhile (LAM-202): joinBoards
\* holds the lock of each until it commits.
THEOREM OldBoardsAreJoined == Spec => []StatusesJoinOldBoards
<1>1. ColumnInv /\ OldInv => StatusesJoinOldBoards
  <2> SUFFICES ASSUME ColumnInv, OldInv, NEW b \in LiveBoards \cap Board0, NEW s \in LiveStatuses PROVE IsOn(b, s)
    BY DEF StatusesJoinOldBoards
  <2>1. Marked(b, s) /\ s \in Statuses
    BY DEF OldInv, OldBoards, LiveBoards, LiveStatuses
  <2>2. \A c \in Columns : <<c, s>> \in mapping /\ column[c] = b => c \in ColumnsOf(b)
    BY <2>1 DEF ColumnInv, Data, ColumnsOf
  <2>3. QED BY <2>1, <2>2 DEF Marked, IsOn, HeldOn
<1>2. Shape /\ TicketInv /\ ColumnInv /\ OldInv /\ [Next]_vars => OldInv'
  BY OldNext
<1>3. QED BY <1>1, <1>2, InitOld, SpecInv, PTL DEF Spec
===============================================================================
