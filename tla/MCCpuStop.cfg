SPECIFICATION Spec
CONSTANTS
    JOIN_THREAD <- Join
    Devices <- Keyboard
    Faults <- OneFault
    Masks <- StopMasks
    StackDepth = 1
    ChanBound = 2
    CmdBound = 1
INVARIANTS
    StoppedIsQuiet
PROPERTIES
    StopTerminates
