SPECIFICATION Spec
CONSTANTS
    Bits <- MCBits
    Floats <- MCFloats
    Infinity = 100
    NaN = NaN
    Starts <- MCStarts
INVARIANTS
    ComparisonsDecide
    LimbsChain
    ShiftsChain
    ShiftsByAnyDistance
    RotatesThroughCarry
    DivisionExact
CHECK_DEADLOCK FALSE
