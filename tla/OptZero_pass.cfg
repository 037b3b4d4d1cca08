CONSTANTS
    Values <- MCValues
    Zeroed = 0
    IsZero <- MCIsZero
    NonZeroOf <- MCNonZeroOf
    Fns <- MCFns
SPECIFICATION Spec
INVARIANT TypeOK SenderRoundTrip
CHECK_DEADLOCK FALSE
