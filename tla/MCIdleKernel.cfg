SPECIFICATION IdleSpec
CONSTANTS
    JOIN_THREAD <- Join
    Devices <- Keyboard
    Faults <- None
    Masks <- None
    StackDepth = 2
    ChanBound = 5
    CmdBound = 0
    Events <- FewEvents
    ROWS = 1
    COLS = 2
    KeyPresses = 3
INVARIANTS
    IdleTypeOK
    NoLostWakeup
    LastKeySeen
    ScreenComplete
PROPERTIES
    KeysServed
    AnyKeyExits
