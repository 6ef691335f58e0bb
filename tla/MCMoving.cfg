CONSTANTS
    r1 = r1
    r2 = r2
    Requests = {r1, r2}
    Cards <- MCCards
    Columns = {"todo", "done"}
    Step <- MCStep
    Given <- MCGiven
    Starts <- MCStarts
SYMMETRY MCSymmetry
SPECIFICATION Spec
INVARIANT BoardConverges
PROPERTY LandsBeside OrderIsKept
CHECK_DEADLOCK FALSE
