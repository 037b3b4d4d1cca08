CONSTANTS
    Checked = {"SockMsgFlags", "MiceBtnStatus"}
    MaxOps = 3
SPECIFICATION Spec
INVARIANT IntentsRecovered
CHECK_DEADLOCK FALSE
