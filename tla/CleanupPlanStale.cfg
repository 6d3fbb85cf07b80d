SPECIFICATION Spec
CONSTANTS
    Plans = {p1}
    NoPlan = NoPlan
    Clients = {client}
    Windows = {w1, w2}
    MaxGeneration = 1
INVARIANTS
    StalePlanMovedNothing
CHECK_DEADLOCK FALSE
