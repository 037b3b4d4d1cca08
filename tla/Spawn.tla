-------------------------------- MODULE Spawn --------------------------------
(***************************************************************************)
(* process.rs RawPSpawnConfig and RawTSpawnConfig: the records a parent     *)
(* hands the kernel with the SysPSpawn and SysTSpawn calls, composed with   *)
(* the ProcessStdio crossing of module Stdio that the process record        *)
(* points to.  A sender builds a record with `new` from Rust values         *)
(* (references are never null, NonZero is never zero), or a foreign        *)
(* sender writes any bytes.  The receiver reads each optional field with   *)
(* OptZero::into_option or the COption match, reads only the fields the    *)
(* record's revision carries (the revision comments of process.rs), and,   *)
(* when the stdio pointer is present, reads the ProcessStdio behind it     *)
(* with into_rust.  Reading a priority byte that is no RawContextPriority   *)
(* is undefined behaviour; the model lets it read as any variant.          *)
(* One record crosses per behaviour.                                       *)
(***************************************************************************)
EXTENDS Stdio

CONSTANTS
    RustHeaders,   \* Str / Slice headers built from Rust references
    ForeignHeaders,\* headers a foreign sender writes (null ptr included)
    SpawnFlagBits, \* SpawnFlags bytes
    StackSizes,    \* non-zero usize stack sizes a sender passes
    ArgPtrs,       \* argument_ptr values (raw, possibly null)
    Cpus,          \* u8 CPU indices (0 is the boot CPU)
    PrioBytes,     \* priority bytes a foreign sender writes
    Revisions,     \* revision numbers a foreign sender writes
    StdioAddr      \* the address of the parent's ProcessStdio

ASSUME SpawnAssumption ==
    /\ \A h \in RustHeaders : h.ptr # 0
    /\ StackSizes \subseteq Nat \ {0}
    /\ Cpus \subseteq 0..255
    /\ PrioBytes \subseteq 0..255
    /\ Revisions \subseteq Nat
    /\ StdioAddr \in Nat \ {0}

\* RawContextPriority: Default, Low, Medium, High.
Priorities == 0..3

\* The all-zero header (core::mem::zeroed::<Slice<T>>()), and Slice/Str
\* is_zero: a null pointer, whatever the length.
ZeroHeader == [ptr |-> 0, len |-> 0]
HeaderIsZero(h) == h.ptr = 0

\* OptZero::from_option, given the type's zeroed value.
FromOpt(o, zero) == IF o.some THEN o.val ELSE zero

\* OptZero::into_option, given the type's is_zero verdict on the bits.
IntoOpt(b, isZero) == IF isZero THEN None ELSE Some(b)

Opt(S) == {None} \cup {Some(x) : x \in S}

\* The variants a read of a RawContextPriority byte can produce.
PrioReads(b) == IF b \in Priorities THEN {b} ELSE Priorities

\* RawPSpawnConfig::new's Rust arguments, and RawTSpawnConfig::new's.
PArgs == [name : Opt(RustHeaders), argv : Opt(RustHeaders),
          env : Opt(RustHeaders), flags : SpawnFlagBits,
          stdio : Opt({StdioAddr}), priority : Priorities,
          stack : Opt(StackSizes)]
TArgs == [arg : ArgPtrs, priority : Priorities, cpu : Opt(Cpus),
          stack : Opt(StackSizes)]

\* Mutation: a field added without bumping the revision.
RawPSpawnConfigNew_rev2(a) ==
    [revision |-> 2, name |-> FromOpt(a.name, ZeroHeader),
     argv |-> FromOpt(a.argv, ZeroHeader), env |-> FromOpt(a.env, ZeroHeader),
     flags |-> a.flags, stdio |-> FromOpt(a.stdio, 0),
     priority |-> a.priority, stack |-> FromOpt(a.stack, 0)]

\* RawPSpawnConfig::new and new_from_raw: every Option through
\* OptZero::from_option, the latest revision (3).
RawPSpawnConfigNew(a) ==
    [revision |-> 3, name |-> FromOpt(a.name, ZeroHeader),
     argv |-> FromOpt(a.argv, ZeroHeader), env |-> FromOpt(a.env, ZeroHeader),
     flags |-> a.flags, stdio |-> FromOpt(a.stdio, 0),
     priority |-> a.priority, stack |-> FromOpt(a.stack, 0)]

\* RawTSpawnConfig::new and new_from_raw: the cpu through COption, the
\* stack size through OptZero::some(new_unchecked(size.get())) or none().
RawTSpawnConfigNew(a) ==
    [revision |-> 1, arg |-> a.arg, priority |-> a.priority,
     cpu |-> COptionFrom(a.cpu), stack |-> FromOpt(a.stack, 0)]

\* The process record read field by field, priority read as p: env from
\* revision 1, priority from revision 2 (else Default), stack from 3.
ReadP(c, p) ==
    [name |-> IntoOpt(c.name, HeaderIsZero(c.name)),
     argv |-> IntoOpt(c.argv, HeaderIsZero(c.argv)),
     env |-> IF c.revision >= 1 THEN IntoOpt(c.env, HeaderIsZero(c.env)) ELSE None,
     flags |-> c.flags,
     stdio |-> IntoOpt(c.stdio, c.stdio = 0),
     priority |-> IF c.revision >= 2 THEN p ELSE 0,
     stack |-> IF c.revision >= 3 THEN IntoOpt(c.stack, c.stack = 0) ELSE None]

\* The thread record read with the cpu variant r: stack from revision 1.
ReadT(c, p, r) ==
    [arg |-> c.arg, priority |-> p, cpu |-> r,
     stack |-> IF c.revision >= 1 THEN IntoOpt(c.stack, c.stack = 0) ELSE None]

VARIABLES
    kind,      \* "none", "process" or "thread": which record crosses
    sphase,    \* "idle", "onwire", "read"
    sorigin,   \* "none", "sender", "foreign"
    sreq,      \* the Rust arguments the sender passed to new
    scfg,      \* the record in memory
    sread,     \* what the receiver read
    sub        \* whether the receiver read an invalid priority or tag

svars == <<kind, sphase, sorigin, sreq, scfg, sread, sub>>
allvars == <<vars, svars>>

NoArgs == [none |-> 0]

SInit ==
    /\ Init
    /\ kind = "none"
    /\ sphase = "idle"
    /\ sorigin = "none"
    /\ sreq = NoArgs
    /\ scfg = NoArgs
    /\ sread = NoArgs
    /\ sub = FALSE

\* The parent calls RawPSpawnConfig::new; stdio = Some(&ps) points to the
\* ProcessStdio it wrote first.
SendP(a) ==
    /\ sphase = "idle"
    /\ a.stdio.some => phase = "onwire"
    /\ kind' = "process"
    /\ sphase' = "onwire"
    /\ sorigin' = "sender"
    /\ sreq' = a
    /\ scfg' = RawPSpawnConfigNew(a)
    /\ UNCHANGED <<sread, sub>>

SendT(a) ==
    /\ sphase = "idle"
    /\ kind' = "thread"
    /\ sphase' = "onwire"
    /\ sorigin' = "sender"
    /\ sreq' = a
    /\ scfg' = RawTSpawnConfigNew(a)
    /\ UNCHANGED <<sread, sub>>

\* A foreign sender writes a record's bytes.
ForeignP(c) ==
    /\ sphase = "idle"
    /\ kind' = "process"
    /\ sphase' = "onwire"
    /\ sorigin' = "foreign"
    /\ scfg' = c
    /\ UNCHANGED <<sreq, sread, sub>>

ForeignT(c) ==
    /\ sphase = "idle"
    /\ kind' = "thread"
    /\ sphase' = "onwire"
    /\ sorigin' = "foreign"
    /\ scfg' = c
    /\ UNCHANGED <<sreq, sread, sub>>

\* The receiver reads the record in memory.
ReceiveP ==
    /\ sphase = "onwire"
    /\ kind = "process"
    /\ sphase' = "read"
    /\ \E p \in PrioReads(scfg.priority) : sread' = ReadP(scfg, p)
    /\ sub' = (scfg.revision >= 2 /\ scfg.priority \notin Priorities)
    /\ UNCHANGED <<kind, sorigin, sreq, scfg>>

ReceiveT ==
    /\ sphase = "onwire"
    /\ kind = "thread"
    /\ sphase' = "read"
    /\ \E p \in PrioReads(scfg.priority), r \in COptionReads(scfg.cpu) :
          sread' = ReadT(scfg, p, r)
    /\ sub' = (scfg.priority \notin Priorities \/ scfg.cpu.tag \notin {0, 1})
    /\ UNCHANGED <<kind, sorigin, sreq, scfg>>

\* A present stdio pointer is followed: into_rust on the ProcessStdio.
ReadStdio ==
    /\ sphase = "read"
    /\ kind = "process"
    /\ sread.stdio.some
    /\ IntoRust
    /\ UNCHANGED svars

\* The stdio record itself, written before the spawn record.
StdioStep ==
    /\ sphase = "idle"
    /\ \/ \E o \in [Fields -> OptIds] : New(o)
       \/ \E w \in [Fields -> [tag : Tags, val : Payloads]] : WriteForeign(w)
    /\ UNCHANGED svars

ForeignPRecords ==
    [revision : Revisions, name : ForeignHeaders, argv : ForeignHeaders,
     env : ForeignHeaders, flags : SpawnFlagBits, stdio : {0, StdioAddr},
     priority : PrioBytes, stack : {0} \cup StackSizes]
ForeignTRecords ==
    [revision : Revisions, arg : ArgPtrs, priority : PrioBytes,
     cpu : [tag : Tags, val : Cpus], stack : {0} \cup StackSizes]

SNext ==
    \/ StdioStep
    \/ \E a \in PArgs : SendP(a) /\ UNCHANGED vars
    \/ \E a \in TArgs : SendT(a) /\ UNCHANGED vars
    \/ \E c \in ForeignPRecords : ForeignP(c) /\ UNCHANGED vars
    \/ \E c \in ForeignTRecords : ForeignT(c) /\ UNCHANGED vars
    \/ ReceiveP /\ UNCHANGED vars
    \/ ReceiveT /\ UNCHANGED vars
    \/ ReadStdio

SSpec == SInit /\ [][SNext]_allvars

-----------------------------------------------------------------------------
(***************************************************************************)
(* Properties.                                                             *)
(***************************************************************************)

\* A record a parent built with RawPSpawnConfig::new or RawTSpawnConfig::new
\* is read by the receiver, field by field and through the revision it
\* carries, as exactly the Rust values passed: an absent option stays
\* absent, a present one (boot CPU 0 included) stays itself, and no field
\* the record carries is dropped as belonging to a later revision.
SpawnRoundTrip ==
    (sorigin = "sender" /\ sphase = "read") => sread = sreq

\* Whatever bytes a foreign sender writes, the receiver reads defined
\* RawContextPriority and COption values.
SpawnReadDefined == ~sub
=============================================================================
