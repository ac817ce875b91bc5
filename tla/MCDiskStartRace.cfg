SPECIFICATION Spec
CONSTANTS
    disk = disk
    junk = junk
    NoFile = NoFile
    Files <- TwoFiles
    Blocks <- Sizes
    MaxBlock = 1
    ChangesDuringStart = TRUE
    Backlog = 2
INVARIANTS
    MountMatchesDirectory
