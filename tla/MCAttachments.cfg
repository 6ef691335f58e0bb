CONSTANTS
    r1 = r1
    r2 = r2
    r3 = r3
    b1 = b1
    b2 = b2
    b3 = b3
    Requests = {r1, r2, r3}
    Uploaders = {"u"}
    Targets = {"t"}
    Blobs = {b1, b2, b3}
    Keys = {"k"}
    NoKey = "no key"
    NoOne = "no one"
    Files <- MCFiles
    MaxBytes = 2
    MaxCrashes = 1
SYMMETRY MCSymmetry
SPECIFICATION Spec
INVARIANT RowHasItsFile StrayFilesAreKnown
CHECK_DEADLOCK FALSE
