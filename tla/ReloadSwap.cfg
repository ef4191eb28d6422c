CONSTANTS
    a = a
    b = b
    p = p
    q = q
    w = w
    v = v
    None = None
    Elsewhere = Elsewhere
    Rules = {a, b}
    Ports = {p, q, w}
    Loops = {l1, l2, l3, l4}
    Initial = 1
    Maximum = 1
    Faults = 1
    Revisions = {"plain", "bad"}
    Unbuildable = {"bad"}
    Stored <- Swaps
    Callers = {c1, c2}
    Stoppers = {}
SPECIFICATION Spec
INVARIANTS
    RulesAreApart
    SettledMatchesConfig
    RunningIsTrue
PROPERTIES
    SuccessMeansListened
    UnchangedRulesKeepServing
CHECK_DEADLOCK FALSE
SYMMETRY CallerSymmetry
