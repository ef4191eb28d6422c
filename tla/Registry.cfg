SPECIFICATION Spec
CONSTANTS
    Names = {n}
    Objects = {o1, o2}
    Counters = {k1, k2, k3}
    Targets = {s, t, u}
    Conns = {c1, c2, c3}
    Requests = {}
    MaxTargets = 2
    MaxResets = 1
    None = None
INVARIANTS
    OpenIsOpen
PROPERTIES
    BusyTargetsStay
CHECK_DEADLOCK FALSE
SYMMETRY Symmetry
