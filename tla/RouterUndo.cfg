SPECIFICATION Spec
CONSTANTS
    Pages = {home, edit}
    Home = home
    Garbage = {}
    Calls = {}
    None = None
    MaxEntries = 5
    MaxMoves = 3
    MaxPending = 2
    MaxAsks = 0
PROPERTIES
    RefusedIsUndone
CHECK_DEADLOCK FALSE
