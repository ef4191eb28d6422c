SPECIFICATION Spec
CONSTANTS
    Names = {n1, n2}
    Ports = {p1}
    Chains = {c1, c2}
    None = None
    MaxWrites = 3
INVARIANT
    DeletedIsLeft
