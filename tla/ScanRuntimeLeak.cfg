SPECIFICATION FairSpec
CONSTANTS
    control = control
    cleanup = cleanup
    directory = directory
    trash = trash
    uninstall = uninstall
    reader = reader
    NoWork = NoWork
    Work <- LeakWork
    KindOf <- LeakKindOf
    MaxGeneration <- LeakMaxGeneration
PROPERTIES
    SlotIsGivenBack
CHECK_DEADLOCK FALSE
