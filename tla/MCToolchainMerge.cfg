SPECIFICATION Spec
CONSTANTS
    MaxName = 3
    MaxNumber = 100
    ROM_SIZE = 36
    DISK_ALIGN = 8
    Projects <- MCProjects
INVARIANT MergeNeverPanics
CHECK_DEADLOCK FALSE
