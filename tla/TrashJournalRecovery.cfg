SPECIFICATION Spec
CONSTANTS
    Ops = {o1, o2, o3}
    Items = {a}
    NoOp = NoOp
    RotateAt = 3
    MaxInDoubt = 2
    MaxFaults = 1
INVARIANTS
    SettledStaysSettled
    AttemptStaysOnRecord
SYMMETRY Symmetry
CHECK_DEADLOCK FALSE
