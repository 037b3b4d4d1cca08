CONSTANTS
    IsizeMax <- MCIsizeMax
    U16Mod <- MCU16Mod
    OverflowChecks = FALSE
SPECIFICATION Spec
INVARIANT TypeOK RejectOnlyOversize
PROPERTY ImplementsOutcomeGate
CHECK_DEADLOCK FALSE
