SPECIFICATION EndsSpec
CONSTANTS
    Gets = {g1}
    Previews = {}
    Ranges <- MCRanges
    Size = 3
    DataCap = 1
    LinkCap = 1
    MaxBreaks = 0
    Handlers = {}
    Renames = {FALSE}
    MoveBreaks = 0
    MoveRestarts = 0
    None = None
    Nil = Nil
INVARIANT ReaderNotStranded
CHECK_DEADLOCK FALSE
