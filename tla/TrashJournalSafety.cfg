SPECIFICATION Spec
CONSTANTS
    Ops = {o1, o2}
    Items = {a, b}
    NoOp = NoOp
    RotateAt = 3
    MaxInDoubt = 1
    MaxFaults = 1
INVARIANTS
    TypeOK
    CompletedVouches
    NotStartedIsUntouched
SYMMETRY Symmetry
CHECK_DEADLOCK FALSE
