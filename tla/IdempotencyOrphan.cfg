SPECIFICATION FairKeySpec
CONSTANTS
    Tries = {r1, r2, r3}
    Resources = {i1, i2, i3}
    NoResource = NoResource
    NoRow = NoRow
    Faults = {"orphan"}
INVARIANTS
    AtMostOnce
CHECK_DEADLOCK FALSE
