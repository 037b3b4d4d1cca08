CONSTANT Numbers = {0, 1, 12, 13, 14, 47, 48, 49, 65535}
SPECIFICATION Spec
INVARIANT DecodedIsSyscall
CHECK_DEADLOCK FALSE
