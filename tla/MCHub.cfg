SPECIFICATION FairSpec
CONSTANTS
    c1 = c1
    c2 = c2
    other1 = other1
    ticket1 = ticket1
    ticket2 = ticket2
    team1 = team1
    Conns = {c1}
    Events = {ticket1, team1}
    Closers = {k1}
    Workspaces = {"w1", "w2"}
    Kinds = {"ticket", "team"}
    WorkspaceOf <- MCWorkspaceOf
    KindOf <- MCKindOf
    Allowed <- MCAllowed
    SendQueue = 1
    Hello = Hello
    NoFrame = NoFrame
INVARIANTS
    CloseDrains
    RegistryIsExact
    NoSilentGap
    PublishNeverBlocks
PROPERTIES
    CloseReturns
    SlowIsEnded
CHECK_DEADLOCK FALSE
