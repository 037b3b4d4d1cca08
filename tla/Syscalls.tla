------------------------------- MODULE Syscalls -------------------------------
(***************************************************************************)
(* syscalls.rs: the syscall number table and its decoder.  A user thread  *)
(* traps with a u16 syscall number; the kernel decodes it with             *)
(* SyscallTable::try_from before dispatching.  try_from accepts every      *)
(* number below NEXT_SYSCALL_NUM and transmutes it into the enum.          *)
(***************************************************************************)
EXTENDS Integers

\* The u16 numbers a caller may pass (all of u16 on the target).
CONSTANT Numbers

\* The discriminants of enum SyscallTable, in the order the code lists them.
SyscallTable ==
    {0, 1, 2, 25, 28, 8, 5, 9, 10, 3, 4, 45, 6, 7, 16, 17, 12, 26, 22, 24,
     23, 14, 15, 18, 19, 29, 30, 31, 11, 32, 33, 34, 35, 20, 21, 27, 36, 42,
     43, 37, 38, 39, 40, 41, 46, 47, 44}

NEXT_SYSCALL_NUM == 48

\* TryFrom<u16> for SyscallTable: Ok(transmute(value)) for value < 48.
TryFromOk(value) == value < NEXT_SYSCALL_NUM

VARIABLES
    number,    \* the number the caller trapped with
    decoded    \* "none", "ok" (a SyscallTable value was produced) or "err"

vars == <<number, decoded>>

Init ==
    /\ number \in Numbers
    /\ decoded = "none"

\* The kernel decodes the number.
Decode ==
    /\ decoded = "none"
    /\ decoded' = IF TryFromOk(number) THEN "ok" ELSE "err"
    /\ UNCHANGED number

Next == Decode

Spec == Init /\ [][Next]_vars

\* Every value try_from produces is a variant of the enum: transmuting a
\* number that is no discriminant is undefined behaviour.
DecodedIsSyscall == decoded = "ok" => number \in SyscallTable
=============================================================================
