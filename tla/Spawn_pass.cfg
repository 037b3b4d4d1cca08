CONSTANTS
    U32Mod = 4
    Ids = {0, 3}
    Payloads <- MCPayloads
    Tags = {0, 1}
    RustHeaders <- MCRustHeaders
    ForeignHeaders <- MCForeignHeaders
    SpawnFlagBits = {1}
    StackSizes = {2}
    ArgPtrs = {0, 6}
    Cpus = {0, 1}
    PrioBytes = {0, 3, 4}
    Revisions = {1, 2, 3}
    StdioAddr = 8
SPECIFICATION SSpec
INVARIANT SpawnRoundTrip StdioRoundTrip
CHECK_DEADLOCK FALSE
