SPECIFICATION Spec
CONSTANTS
    Processes = {"p1", "p2", "p3"}
    MaxHides = 1
PROPERTIES
    GivesWayToPrimary
CHECK_DEADLOCK FALSE
