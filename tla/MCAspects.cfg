CONSTANTS
    r1 = r1
    r2 = r2
    Requests = {r1, r2}
    Callers = {"u", "stranger"}
    Members = {"u"}
    Ids = {"e", "f", "g", "h", "l", "m", "q", "s"}
    KindOf <- MCKindOf
    Cards = {"t"}
    Titles = {"x", "y"}
    Days = {1, 2}
    Registry <- MCRegistry
    Stray = {"kanban_colums"}
    Rows0 <- MCRows0
    Points0 <- MCPoints0
    Types = {1, 2, 3}
    Fields = {1, 2, 3, 4, 5, 6, 7}
    Files <- MCFiles
    Types0 <- MCTypes0
    Fields0 <- MCFields0
    Uses0 <- MCUses0
SYMMETRY MCSymmetry
SPECIFICATION Spec
INVARIANT ClientFollowsPlan SettingsAgree ReorderStands ImportsDiffer
CHECK_DEADLOCK FALSE
