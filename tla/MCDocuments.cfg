CONSTANTS
    r1 = r1
    r2 = r2
    r3 = r3
    Requests = {r1, r2, r3}
    Comments <- MCComments
    FieldOrder <- MCFields
    Contents <- MCContents
    Regions <- MCRegions
    Keys <- MCKeys
    NoKey = NoKey
    Percent = 0
    Starts <- MCStarts
SYMMETRY MCSymmetry
SPECIFICATION Spec
INVARIANT SearchFollowsDocument ApprovalHolds
PROPERTY AnchorsFollowTheText ImplementsRegister
CHECK_DEADLOCK FALSE
