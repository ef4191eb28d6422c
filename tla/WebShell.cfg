SPECIFICATION ShellSpec
CONSTANTS
    Users = {u, v}
    Refreshes = {r}
    MaxLoads = 3
    MaxVersion = 2
    MaxGeneration = 1
    None = None
    Unused = Unused
    Pages = {home, edit, stats}
    Home = home
    Garbage = {nowhere}
    Calls = {c1, c2}
    MaxEntries = 3
    MaxMoves = 3
    MaxPending = 2
    MaxAsks = 2
    Here = here
    Elsewhere = {a, b, odd}
    Unnameable = {odd}
    MaxWrites = 2
    MaxStatusLoads = 2
    Rules = {r1}
    Endpoints = {e1, e2}
    Connections = {}
    Slots = 3
    Gap = 5
    MinStep = 2
    Delays = {1, 2, 6}
    MaxSnapshots = 4
    MaxResets = 1
    MaxSetBacks = 1
    Plain = {h1, h2}
    Tips = {t}
    MaxActivations = 4
    MaxTasks = 4
INVARIANTS
    KeepsPolling
    ChartsAreRuns
    TooltipSettles
PROPERTIES
    UndoIsTrue
    NothingLost
    MovedIsTrue
    AnswersAreFresh
SYMMETRY
    Symmetry
CHECK_DEADLOCK FALSE
