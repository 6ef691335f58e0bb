CONSTANTS
    Servers = {"old", "new"}
    Tools = {"tool"}
    Writers = {"w"}
    Newest <- MCNewest
    IndexFormat <- MCIndexFormat
    AutoApply = {"new"}
    Sources <- MCSources
    MaxText = 2
    Ids <- MCIds
    MaxStarts = 2
    Starts <- MCStarts
SPECIFICATION Spec
INVARIANT NoCollision IndexFollowsSources
PROPERTY ServesItsSchema
CHECK_DEADLOCK FALSE
