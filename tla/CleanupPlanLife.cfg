SPECIFICATION FairSpec
CONSTANTS
    Plans = {p1, p2}
    NoPlan = NoPlan
    Clients = {client}
    Windows = {w1, w2}
    MaxGeneration = 2
INVARIANTS
    TypeOK
    OneOpenPlan
    DeclinedPlanMovedNothing
PROPERTIES
    EndedPlanStays
    ExecutingPlanEnds
CHECK_DEADLOCK FALSE
