SPECIFICATION Spec
CONSTANTS
    control = control
    cleanup = cleanup
    directory = directory
    trash = trash
    uninstall = uninstall
    reader = reader
    NoWork = NoWork
    Work <- MCWork
    KindOf <- MCKindOf
    MaxGeneration <- MCMaxGeneration
INVARIANTS
    TypeOK
    SlotNamesItsCommand
    AcceptedCancelStoresNothing
    StoredReportStays
PROPERTIES
    NoMoveFromSpentReport
    ClosedAdmitsNothing
    ImplementsWorkSlot
CHECK_DEADLOCK FALSE
