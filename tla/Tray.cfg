CONSTANTS
    Rules = {r1, r2}
    Addresses = {x, y}
    Off = Off
    Keep = Keep
    None = None
    Worker = Worker
    Main = Main
    Sigint = Sigint
SPECIFICATION Spec
INVARIANTS
    SystemIsTheApps
    SelectionIsPublished
PROPERTIES
    NobodyHangs
