CONSTANTS
    MAX_NAME_LENGTH = 3
    Bytes = {0, 1, 2}
    MaxInput = 4
SPECIFICATION Spec
INVARIANT TypeOK NameRoundTrip
CHECK_DEADLOCK FALSE
