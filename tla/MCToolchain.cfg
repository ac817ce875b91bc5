SPECIFICATION Spec
CONSTANTS
    MaxName = 3
    MaxNumber = 100
    ROM_SIZE = 36
    DISK_ALIGN = 8
    Projects <- MCProjects
INVARIANTS
    AcceptedIffWellFormed
    PanicsExplained
    ExecutesAsWritten
    DataSeparate
    AddressesValid
    ObjectsAreBytes
    LinkedAsWritten
    LinkedIffPossible
    LinkerPanicsExplained
CHECK_DEADLOCK FALSE
