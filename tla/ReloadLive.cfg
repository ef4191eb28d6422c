CONSTANTS
    a = a
    b = b
    p = p
    q = q
    w = w
    v = v
    None = None
    Elsewhere = Elsewhere
    Rules = {a}
    Ports = {p, q, w, v}
    Loops = {l1, l2}
    Initial = 1
    Maximum = 1
    Faults = 1
    Revisions = {"plain"}
    Unbuildable = {}
    Stored <- Moves
    Callers = {c1, c2}
    Stoppers = {s1}
SPECIFICATION Spec
INVARIANTS
    WebStatusIsTrue
    ReloadAppliesWebUI
PROPERTIES
    ReloadsEnd
CHECK_DEADLOCK FALSE
