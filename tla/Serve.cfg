CONSTANTS
    Loops = {l1, l2}
    Call = l1
    Initial = 1
    Maximum = 3
    Faults = 4
SPECIFICATION ServeSpec
INVARIANTS
    NoListenerIsLost
PROPERTIES
    NoCallIsStuck
    ImplementsSupervision
