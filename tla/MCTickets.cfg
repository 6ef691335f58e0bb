SPECIFICATION Spec
CONSTANTS
    Nil = Nil
    Requests = {r1, r2, r3}
    Ids = {1, 2, 3}
    Existing = {1}
    Texts = {a, b}
    Labels = {}
    Ops = {"create", "update", "archive", "unarchive", "join", "leave"}
SYMMETRY MCSymmetry
INVARIANTS OneTicketPerKey NoRowIsExplained SearchFollowsTickets HistoryTellsTheTicket ClientConverges
PROPERTIES NoLostUpdate
