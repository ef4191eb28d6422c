SPECIFICATION Spec
CONSTANTS
    n1 = n1
    n2 = n2
    a1 = a1
    a2 = a2
    a3 = a3
    w1 = w1
    l1 = l1
    Requests = {r1, r2}
    Names <- MCNames
    Addresses <- MCAddresses
    Default <- MCDefault
    Operations <- MCOperations
    Edits <- MCEdits
    Blank = Blank
    Off = Off
    Broken = Broken
    Lists = {l1}
    Nothing = Nothing
    Absent = Absent
    Empty = Empty
    Torn = Torn
    None = None
    Menu = Menu
    MaxEdits = 1
    MaxCrashes = 1
PROPERTIES
    ImplementsRegister
    AppliedBeforeOk
    FilesAreKept
SYMMETRY Symmetry
