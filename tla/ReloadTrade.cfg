CONSTANTS
    a = a
    b = b
    p = p
    q = q
    w = w
    v = v
    None = None
    Elsewhere = Elsewhere
    Rules = {a}
    Ports = {p, q, w}
    Loops = {l1, l2}
    Initial = 1
    Maximum = 1
    Faults = 1
    Revisions = {"plain", "bad"}
    Unbuildable = {"bad"}
    Stored <- Trades
    Callers = {c1, c2}
    Stoppers = {}
SPECIFICATION Spec
INVARIANTS
    ReloadAppliesWebUI
CHECK_DEADLOCK FALSE
