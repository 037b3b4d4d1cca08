CONSTANTS
    IsizeMax <- MCIsizeMax
    U16Mod <- MCU16Mod
    OverflowChecks = FALSE
    StrAlign = 2
    Mapped <- MCMapped
    OuterHeaders <- MCOuterHeaders
    Inner <- MCInner
    Utf8Init <- MCUtf8Init
    MaxOuterLen = 2
    MaxWrites = 1
SPECIFICATION Spec
INVARIANT ValidatedTextStaysUtf8
CHECK_DEADLOCK FALSE
