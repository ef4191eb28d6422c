SPECIFICATION WaitsSpec
CONSTANTS
    None = None
    n1 = n1
    n2 = n2
    Names = {n1, n2}
    Listeners = {l1, l2, l3}
    Dials = {d1}
    Objects = {o1}
    Counters = {k1, k2}
    Targets = {t}
    Conns = {c1, c2}
    Disconnects = {d}
    MaxTargets = 1
    MaxResets = 2
    a1 = a1
    a2 = a2
    a3 = a3
    w1 = w1
    list = list
    Blank = Blank
    Off = Off
    Broken = Broken
    Nothing = Nothing
    Absent = Absent
    Empty = Empty
    Torn = Torn
    Requests = {r1, r2}
    Menu = Menu
    MaxEdits = 1
    MaxCrashes = 1
INVARIANTS
    ChannelsAreServed
PROPERTIES
    VirtualEnds
    ClosesEnd
    EveryRequestEnds
CHECK_DEADLOCK FALSE
