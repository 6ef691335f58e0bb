CONSTANTS
    r1 = r1
    r2 = r2
    r3 = r3
    Requests = {r1, r2, r3}
    Accounts <- MCAccounts
    Emails = {"e1", "e2"}
    Creds <- MCCreds
    Views <- MCViews
    Patches <- MCPatches
    TokenScopes <- MCTokenScopes
    MaxAge = 3
    SlideAfter = 1
    Horizon = 2
    Starts <- MCStarts
SYMMETRY MCSymmetry
SPECIFICATION AccountsSpec
INVARIANT OneWorkspaceOneOwner PrivateViewsAreSwept DeadlineFollowsUse
CHECK_DEADLOCK FALSE
