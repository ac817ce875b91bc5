SPECIFICATION Spec
CONSTANTS
    disk = disk
    junk = junk
    NoFile = NoFile
    Files <- TwoFiles
    Blocks <- Sizes
    MaxBlock = 1
    ChangesDuringStart = FALSE
    Backlog = 2
INVARIANTS
    TypeOK
    NoMissedStatus
    MountMatchesDirectory
    DisconnectedIsEmpty
    StopDrainsCommands
PROPERTIES
    StopReturns
