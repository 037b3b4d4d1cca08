CONSTANTS
    Checked = {"MemMapFlags", "ShmFlags", "PollEvents", "SockCreateKind"}
    MaxOps = 3
SPECIFICATION Spec
INVARIANT TypeOK WordMatchesIntent IntentsRecovered CompositeContains
CHECK_DEADLOCK FALSE
