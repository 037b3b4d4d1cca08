CONSTANTS
    IsizeMax <- MCIsizeMax
    U16Mod <- MCU16Mod
    OverflowChecks = FALSE
    ElemAlign = 2
    ElemSize = 2
    SliceAlign = 2
    Mapped <- MCMapped
    OuterHeaders <- MCOuterHeaders
    Inner <- MCInner
    MaxOuterLen = 2
    MaxWrites = 0
SPECIFICATION Spec
INVARIANT ValidatedByteSizeFits
CHECK_DEADLOCK FALSE
