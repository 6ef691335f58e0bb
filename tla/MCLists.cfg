CONSTANTS
    NULL = NULL
    Malformed = Malformed
    KindOf <- MCKindOf
    Fields = {"link", "stamp", "label", "nope"}
    MaxDepth = 2
    MaxConditions = 3
    DefaultLimit = 2
    MaxLimit = 2
    Ids = {1, 2, 3, 4}
    Resources = {"ticket", "document", "comment", "attachment", "review", "view", "member", "team", "project", "activity"}
    Tables <- MCTables
    Filters <- MCFilters
    Sorts <- MCSorts
    Limits = {0, 1, 3}
    Configs <- MCConfigs
    Pending = 1
    Entities = {1, 2}
    MaxWrites = 1
SPECIFICATION ListsSpec
INVARIANT PagesAddUp SavedViewsOpen
