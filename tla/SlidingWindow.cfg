\* Four requests against a limit of two, on servers whose clocks differ.
SPECIFICATION Spec
CONSTANTS
    Requests = {r1, r2, r3, r4}
    Members = {r1, r2, r3, r4}
    Member <- MCUnique
    Skews <- MCSkews
    Limit = 2
    Window = 4
    Drift = 1
    MaxTime = 8
SYMMETRY Symmetry
INVARIANTS
    TypeOK
    NeverOverLimit
PROPERTIES
    RejectionJustified
CHECK_DEADLOCK FALSE
