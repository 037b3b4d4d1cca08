------------------------------ MODULE Spawn_proofs ------------------------------
(***************************************************************************)
(* Proofs about the spawn records and the ProcessStdio they point to, for  *)
(* every u32 width, set of ids, headers, flags, stack sizes, argument      *)
(* pointers, CPUs and stdio address allowed by the assumptions: a record a *)
(* parent built with new is read by the receiver as exactly the Rust      *)
(* values passed, and so is the ProcessStdio, whatever else is written.    *)
(***************************************************************************)
EXTENDS Spawn, TLAPS

USE StdioAssumption, SpawnAssumption

(***************************************************************************)
(* Lemmas about the conversions.                                           *)
(***************************************************************************)

\* From<Option<u32>> for COption followed by into_rust's arm gives back the
\* Option: the tag is 0 or 1, so the read is defined, and a u32 survives
\* the usize round trip.
LEMMA COptionBack ==
    ASSUME NEW o \in OptIds
    PROVE  /\ COptionReads(COptionFrom(o)) = {o}
           /\ AsU32Opt(o) = o
<1>1. CASE o = None
    BY <1>1 DEF COptionReads, COptionFrom, CNone, AsU32Opt, None
<1>2. CASE o # None
    <2>1. PICK x \in Ids : o = Some(x)
        BY <1>2 DEF OptIds
    <2>2. x \in 0..(U32Mod - 1)
        OBVIOUS
    <2>3. x % U32Mod = x
        BY <2>2
    <2>4. COptionFrom(o) = CSome(x)
        BY <2>1 DEF COptionFrom, Some
    <2>5. COptionReads(CSome(x)) = {Some(x)}
        BY DEF COptionReads, CSome
    <2>6. AsU32Opt(Some(x)) = Some(x)
        BY <2>3 DEF AsU32Opt, Some
    <2>7. QED
        BY <2>1, <2>4, <2>5, <2>6
<1>3. QED
    BY <1>1, <1>2

\* The same for an optional CPU index (any value: the cpu field is not cast).
LEMMA CpuBack ==
    ASSUME NEW o \in Opt(Cpus)
    PROVE  COptionReads(COptionFrom(o)) = {o}
<1>1. CASE o = None
    BY <1>1 DEF COptionReads, COptionFrom, CNone, None
<1>2. CASE o # None
    <2>1. PICK x \in Cpus : o = Some(x)
        BY <1>2 DEF Opt
    <2>2. QED
        BY <2>1 DEF COptionReads, COptionFrom, CSome, Some
<1>3. QED
    BY <1>1, <1>2

\* OptZero::from_option then into_option on a Str/Slice header built from a
\* Rust reference: a reference is never null, so Some stays Some.
LEMMA HeaderBack ==
    ASSUME NEW o \in Opt(RustHeaders)
    PROVE  IntoOpt(FromOpt(o, ZeroHeader), HeaderIsZero(FromOpt(o, ZeroHeader))) = o
<1>1. CASE o = None
    BY <1>1 DEF IntoOpt, FromOpt, HeaderIsZero, ZeroHeader, None
<1>2. CASE o # None
    <2>1. PICK h \in RustHeaders : o = Some(h)
        BY <1>2 DEF Opt
    <2>2. h.ptr # 0
        OBVIOUS
    <2>3. QED
        BY <2>1, <2>2 DEF IntoOpt, FromOpt, HeaderIsZero, Some
<1>3. QED
    BY <1>1, <1>2

\* The same for a NonZero (or reference) field whose zero is the integer 0.
LEMMA NonZeroBack ==
    ASSUME NEW S \in SUBSET (Nat \ {0}), NEW o \in Opt(S)
    PROVE  IntoOpt(FromOpt(o, 0), FromOpt(o, 0) = 0) = o
<1>1. CASE o = None
    BY <1>1 DEF IntoOpt, FromOpt, None
<1>2. CASE o # None
    <2>1. PICK x \in S : o = Some(x)
        BY <1>2 DEF Opt
    <2>2. QED
        BY <2>1 DEF IntoOpt, FromOpt, Some
<1>3. QED
    BY <1>1, <1>2

\* A RawContextPriority a sender passes reads as itself.
LEMMA PrioBack ==
    ASSUME NEW p \in Priorities
    PROVE  PrioReads(p) = {p}
BY DEF PrioReads

\* RawPSpawnConfig::new read field by field through its revision (3) gives
\* back the Rust arguments.
LEMMA ProcessRecordBack ==
    ASSUME NEW a \in PArgs,
           NEW p \in PrioReads(RawPSpawnConfigNew(a).priority)
    PROVE  ReadP(RawPSpawnConfigNew(a), p) = a
<1> DEFINE c == RawPSpawnConfigNew(a)
<1>1. /\ c.revision = 3
      /\ c.name = FromOpt(a.name, ZeroHeader)
      /\ c.argv = FromOpt(a.argv, ZeroHeader)
      /\ c.env = FromOpt(a.env, ZeroHeader)
      /\ c.flags = a.flags
      /\ c.stdio = FromOpt(a.stdio, 0)
      /\ c.priority = a.priority
      /\ c.stack = FromOpt(a.stack, 0)
    BY DEF RawPSpawnConfigNew
<1>2. p = a.priority
    BY <1>1, PrioBack DEF PArgs
<1>3. /\ IntoOpt(c.name, HeaderIsZero(c.name)) = a.name
      /\ IntoOpt(c.argv, HeaderIsZero(c.argv)) = a.argv
      /\ IntoOpt(c.env, HeaderIsZero(c.env)) = a.env
    BY <1>1, HeaderBack DEF PArgs
<1>4. IntoOpt(c.stdio, c.stdio = 0) = a.stdio
    BY <1>1, NonZeroBack DEF PArgs
<1>5. IntoOpt(c.stack, c.stack = 0) = a.stack
    BY <1>1, NonZeroBack DEF PArgs
<1>6. ReadP(c, p) = [name |-> a.name, argv |-> a.argv, env |-> a.env,
                     flags |-> a.flags, stdio |-> a.stdio,
                     priority |-> a.priority, stack |-> a.stack]
    BY <1>1, <1>2, <1>3, <1>4, <1>5 DEF ReadP
<1>7. QED
    BY <1>6 DEF PArgs

\* RawTSpawnConfig::new read through its revision (1), whatever variants
\* the priority and cpu reads produce, gives back the Rust arguments.
LEMMA ThreadRecordBack ==
    ASSUME NEW a \in TArgs,
           NEW p \in PrioReads(RawTSpawnConfigNew(a).priority),
           NEW r \in COptionReads(RawTSpawnConfigNew(a).cpu)
    PROVE  ReadT(RawTSpawnConfigNew(a), p, r) = a
<1> DEFINE c == RawTSpawnConfigNew(a)
<1>1. /\ c.revision = 1 /\ c.arg = a.arg /\ c.priority = a.priority
      /\ c.cpu = COptionFrom(a.cpu) /\ c.stack = FromOpt(a.stack, 0)
    BY DEF RawTSpawnConfigNew
<1>2. p = a.priority
    BY <1>1, PrioBack DEF TArgs
<1>3. r = a.cpu
    BY <1>1, CpuBack DEF TArgs
<1>4. IntoOpt(c.stack, c.stack = 0) = a.stack
    BY <1>1, NonZeroBack DEF TArgs
<1>5. ReadT(c, p, r) = [arg |-> a.arg, priority |-> a.priority, cpu |-> a.cpu,
                        stack |-> a.stack]
    BY <1>1, <1>2, <1>3, <1>4 DEF ReadT
<1>6. QED
    BY <1>5 DEF TArgs

(***************************************************************************)
(* The inductive invariant: while a sender's record is in memory it is     *)
(* what new built from the arguments, for the stdio record and for the     *)
(* spawn record alike; the round trips then follow at each read.           *)
(***************************************************************************)
StdioWire ==
    (origin = "sender" /\ phase # "idle") =>
        wire = [f \in Fields |-> COptionFrom(sent[f])]

SpawnSent ==
    (sorigin = "sender" /\ sphase # "idle") =>
        \/ kind = "process" /\ sreq \in PArgs /\ scfg = RawPSpawnConfigNew(sreq)
        \/ kind = "thread" /\ sreq \in TArgs /\ scfg = RawTSpawnConfigNew(sreq)

IInv ==
    /\ sent \in [Fields -> OptIds]
    /\ StdioWire
    /\ StdioRoundTrip
    /\ SpawnSent
    /\ SpawnRoundTrip

\* into_rust over whatever a well-formed ProcessStdio::new record reads as
\* gives back the Option<u32>s passed to new.
LEMMA IntoRustBack ==
    ASSUME NEW o \in [Fields -> OptIds],
           NEW r, \A f \in Fields : r[f] \in COptionReads(COptionFrom(o[f]))
    PROVE  into_rust(r) = o
<1>1. \A f \in Fields : r[f] = o[f]
    BY COptionBack
<1>2. \A f \in Fields : AsU32Opt(r[f]) = o[f]
    BY <1>1, COptionBack
<1>3. QED
    BY <1>2 DEF into_rust

LEMMA InitIInv == SInit => IInv
BY DEF SInit, Init, IInv, StdioWire, StdioRoundTrip, SpawnSent, SpawnRoundTrip,
   OptIds

LEMMA NextIInv == IInv /\ [SNext]_allvars => IInv'
<1> SUFFICES ASSUME IInv, [SNext]_allvars PROVE IInv'
    OBVIOUS
<1>1. ASSUME NEW o \in [Fields -> OptIds], New(o), UNCHANGED svars PROVE IInv'
    BY <1>1 DEF New, IInv, StdioWire, StdioRoundTrip, SpawnSent, SpawnRoundTrip,
       svars
<1>2. ASSUME NEW w, WriteForeign(w), UNCHANGED svars PROVE IInv'
    BY <1>2 DEF WriteForeign, IInv, StdioWire, StdioRoundTrip, SpawnSent,
       SpawnRoundTrip, svars
<1>3. CASE StdioStep
    BY <1>1, <1>2, <1>3 DEF StdioStep
<1>4. ASSUME NEW a \in PArgs, SendP(a), UNCHANGED vars PROVE IInv'
    BY <1>4 DEF SendP, vars, IInv, StdioWire, StdioRoundTrip, SpawnSent,
       SpawnRoundTrip
<1>5. ASSUME NEW a \in TArgs, SendT(a), UNCHANGED vars PROVE IInv'
    BY <1>5 DEF SendT, vars, IInv, StdioWire, StdioRoundTrip, SpawnSent,
       SpawnRoundTrip
<1>6. ASSUME NEW c, ForeignP(c) \/ ForeignT(c), UNCHANGED vars PROVE IInv'
    BY <1>6 DEF ForeignP, ForeignT, vars, IInv, StdioWire, StdioRoundTrip,
       SpawnSent, SpawnRoundTrip
<1>7. ASSUME ReceiveP, UNCHANGED vars PROVE IInv'
    <2>1. SpawnSent'
        BY <1>7 DEF ReceiveP, IInv, SpawnSent
    <2>2. SpawnRoundTrip'
        <3>1. SUFFICES ASSUME sorigin = "sender" PROVE sread' = sreq
            BY <1>7 DEF ReceiveP, SpawnRoundTrip
        <3>2. kind = "process" /\ sreq \in PArgs /\ scfg = RawPSpawnConfigNew(sreq)
            BY <1>7, <3>1 DEF ReceiveP, IInv, SpawnSent
        <3>3. PICK p \in PrioReads(scfg.priority) : sread' = ReadP(scfg, p)
            BY <1>7 DEF ReceiveP
        <3>4. QED
            BY <3>2, <3>3, ProcessRecordBack
    <2>3. QED
        BY <1>7, <2>1, <2>2 DEF vars, IInv, StdioWire, StdioRoundTrip
<1>8. ASSUME ReceiveT, UNCHANGED vars PROVE IInv'
    <2>1. SpawnSent'
        BY <1>8 DEF ReceiveT, IInv, SpawnSent
    <2>2. SpawnRoundTrip'
        <3>1. SUFFICES ASSUME sorigin = "sender" PROVE sread' = sreq
            BY <1>8 DEF ReceiveT, SpawnRoundTrip
        <3>2. kind = "thread" /\ sreq \in TArgs /\ scfg = RawTSpawnConfigNew(sreq)
            BY <1>8, <3>1 DEF ReceiveT, IInv, SpawnSent
        <3>3. PICK p \in PrioReads(scfg.priority), r \in COptionReads(scfg.cpu) :
                  sread' = ReadT(scfg, p, r)
            BY <1>8 DEF ReceiveT
        <3>4. QED
            BY <3>2, <3>3, ThreadRecordBack
    <2>3. QED
        BY <1>8, <2>1, <2>2 DEF vars, IInv, StdioWire, StdioRoundTrip
<1>9. CASE ReadStdio
    <2>1. StdioRoundTrip'
        <3>1. SUFFICES ASSUME origin = "sender" PROVE got' = sent
            BY <1>9 DEF ReadStdio, IntoRust, StdioRoundTrip
        <3>2. wire = [f \in Fields |-> COptionFrom(sent[f])]
            BY <1>9, <3>1 DEF ReadStdio, IntoRust, IInv, StdioWire
        <3>3. PICK r \in [Fields -> UNION {COptionReads(wire[f]) : f \in Fields}] :
                  /\ \A f \in Fields : r[f] \in COptionReads(wire[f])
                  /\ got' = into_rust(r)
            BY <1>9 DEF ReadStdio, IntoRust
        <3>4. \A f \in Fields : r[f] \in COptionReads(COptionFrom(sent[f]))
            BY <3>2, <3>3
        <3>5. QED
            BY <3>3, <3>4, IntoRustBack DEF IInv
    <2>2. QED
        BY <1>9, <2>1 DEF ReadStdio, IntoRust, svars, IInv, StdioWire, SpawnSent,
           SpawnRoundTrip
<1>10. CASE UNCHANGED allvars
    BY <1>10 DEF allvars, vars, svars, IInv, StdioWire, StdioRoundTrip, SpawnSent,
       SpawnRoundTrip
<1>11. QED
    BY <1>3, <1>4, <1>5, <1>6, <1>7, <1>8, <1>9, <1>10 DEF SNext

LEMMA SpecIInv == SSpec => []IInv
BY InitIInv, NextIInv, PTL DEF SSpec

\* For every width and set of ids: a ProcessStdio a parent built with new
\* and the child read with into_rust (after the spawn record pointing to it
\* was read) holds exactly the Option<u32>s the parent passed, whatever
\* spawn records cross meanwhile.
THEOREM StdioRoundTripCorrect == SSpec => []StdioRoundTrip
BY SpecIInv, PTL DEF IInv

\* For every set of headers, flags, stack sizes, argument pointers, CPUs
\* and stdio address: a RawPSpawnConfig or RawTSpawnConfig a parent built
\* with new is read by the receiver, through the revision it carries and
\* the COption and OptZero reads, as exactly the Rust arguments passed.
THEOREM SpawnRoundTripCorrect == SSpec => []SpawnRoundTrip
BY SpecIInv, PTL DEF IInv
=============================================================================
