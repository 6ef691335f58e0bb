SPECIFICATION Spec
CONSTANTS
    Requests = {p, q, r}
    s1 = s1
    s2 = s2
    s3 = s3
    Statuses = {s1, s2, s3}
    Boards = {1, 2}
    c1 = c1
    c2 = c2
    Columns = {c1, c2, c3, c4, c5}
    Tickets = {t1}
    Categories = {"open", "done"}
    NoStatus = NoStatus
    NoBoard = 0
    NoColumn = NoColumn
    NoTicket = NoTicket
    StatusPosition <- MCStatusPosition
    Seeded <- MCSeeded
    Category0 <- MCCategory0
    MaxPosition = 4
    Ops = {"createStatus", "updateStatus", "deleteStatus", "createBoard", "deleteBoard", "addColumn", "setColumn", "deleteColumn", "reorderColumns", "writeTicket", "readBoard"}
SYMMETRY MCSymmetry
INVARIANTS
    OneColumnPerBoard
    StatusesJoinOldBoards
PROPERTIES
    NoTicketLosesItsStatus
CHECK_DEADLOCK FALSE
