CONSTANTS
    IsizeMax <- MCIsizeMax
    U16Mod <- MCU16Mod
    OverflowChecks = TRUE
SPECIFICATION Spec
INVARIANT DecodeTotal
CHECK_DEADLOCK FALSE
