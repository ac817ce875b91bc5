SPECIFICATION Spec
CONSTANTS
    JOIN_THREAD <- Join
    Devices <- KeyboardAndDisk
    Faults <- TwoFaults
    Masks <- KernelMasks
    StackDepth = 2
    ChanBound = 2
    CmdBound = 0
INVARIANTS
    TypeOK
    UserCodeUnprivileged
    SyncTakenFirst
    SleepsOnlyWhenIdle
PROPERTIES
    NoLostInterrupt
