SPECIFICATION PagingSpec
CONSTANTS
    RAM_SIZE = 4
    PAGE_SIZE = 3
    Byte <- Bytes
    BEGIN_RAM = 2
    ZoneAccess <- MCZones
    FrameSize = 2
    TableSize = 2
    Directories <- MCDirectories
    PageTables <- MCTables
    Programs <- MCPrograms
INVARIANTS
    FaultsInvisible
    WritesConfined
PROPERTIES
    FaultsResolve
    ImplementsEager
CHECK_DEADLOCK FALSE
