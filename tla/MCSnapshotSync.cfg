SPECIFICATION Spec
CONSTANTS
    Branch = {b1, b2}
    MaxBuilds = 2
    MaxEdits = 1
INVARIANTS
    TypeOK
    MainStaysGreen
