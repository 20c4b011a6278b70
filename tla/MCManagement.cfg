CONSTANTS
    p1 = p1
    Procs = {p1}
    Names = {"Staging", "Production"}
    Staging = "Staging"
    Production = "Production"
    Packages = {v1, v2}
    v1 = v1
    v2 = v2
    CommandTypes <- Types
    MaxStray = 1
    None = None
    NoPackage = NoPackage
SPECIFICATION LiveSpec
INVARIANTS
    TypeOK
    NothingWithoutConsent
    DefaultsInOrder
    PrintedWhole
PROPERTIES
    ImplementsCommandOutcome
    CommandsFinish
