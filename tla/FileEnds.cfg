SPECIFICATION EndsSpec
CONSTANTS
    Gets = {g1}
    Previews = {v1}
    Ranges <- MCRanges
    Size = 2
    DataCap = 1
    LinkCap = 1
    MaxBreaks = 1
    Handlers = {h1}
    Renames = {TRUE, FALSE}
    MoveBreaks = 1
    MoveRestarts = 1
    None = None
    Nil = Nil
INVARIANTS
    DownloadIsExact
PROPERTIES
    RequestsEnd
    AttemptsEnd
CHECK_DEADLOCK FALSE
