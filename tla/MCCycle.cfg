SPECIFICATION Spec
CONSTANTS
    Base = 2
    Zones <- MCZones
    PageTables <- MCPageTables
    Memories <- MCMemories
    StartOfROM = 5
    Operands <- MCOperands
    Lengths <- MCLengths
    MaxCycles = 3
CHECK_DEADLOCK FALSE
INVARIANTS
    TypeOK
PROPERTIES
    FailureLeavesNoTrace
