------------------------------ MODULE SysResult ------------------------------
(***************************************************************************)
(* SysResult (errors.rs): the signed word every SafaOS syscall returns.  A *)
(* non-negative word is an Ok payload, a negative word -c is the error     *)
(* whose ErrorStatus code is c.                                            *)
(*                                                                         *)
(* One call across the gate: a producer puts a word on the wire, either    *)
(* the kernel through one of the constructors (err, try_ok, ok,            *)
(* try_from_result, From<Result>), or a foreign or newer sender through    *)
(* from_isize with any isize at all; then the receiver decodes it with     *)
(* into_result.  A constructor may refuse (try_* return Err(())) or panic  *)
(* (ok and From<Result> on an Ok payload above isize::MAX); decoding may   *)
(* panic in a debug build where -isize::MIN overflows.  Each call is       *)
(* independent (the type holds no state), so the model is one call.        *)
(***************************************************************************)
EXTENDS Word, ErrorStatus

\* Every ErrorStatus code fits the word (0x2A <= isize::MAX).
ASSUME WidthAssumption == MAX <= IsizeMax

VARIABLES
    phase,      \* "idle", "onwire", "rejected", "kpanic", "decoded", "upanic"
    origin,     \* who produced the word: "none", "kernel" or "foreign"
    intended,   \* the Result<usize, ErrorStatus> the kernel meant to return
    word,       \* the isize on the wire
    decoded     \* what into_result returned

vars == <<phase, origin, intended, word, decoded>>

Ok(x) == [tag |-> "Ok", val |-> x]
Err(x) == [tag |-> "Err", val |-> x]
Panic == [tag |-> "Panic", val |-> 0]
NoResult == [tag |-> "None", val |-> 0]

\* The Result<usize, ErrorStatus> values a kernel handler can return.
KernelResult == {Ok(v) : v \in Usize} \cup {Err(e) : e \in ErrorStatus}

(***************************************************************************)
(* The constructors and the decoder, as functions of their arguments.      *)
(* A constructor's outcome is Ok(word), Err(0) for Err(()), or Panic.      *)
(***************************************************************************)

\* SysResult::err: -(err as isize).
err(e) == -e

\* Mutations of try_ok: the cast and the check dropped; the check dropped;
\* the check off by one (refusing 0 as well).
try_ok_unchecked(value) == Ok(value)
try_ok_nocheck(value) == Ok(AsIsize(value))
try_ok_nonpositive(value) ==
    IF AsIsize(value) <= 0 THEN Err(0) ELSE Ok(AsIsize(value))

\* SysResult::try_ok: reinterpret the usize as isize, refuse a negative.
try_ok(value) == IF AsIsize(value) < 0 THEN Err(0) ELSE Ok(AsIsize(value))

\* SysResult::ok: try_ok, panicking on refusal.
ok(value) == IF try_ok(value).tag = "Err" THEN Panic ELSE try_ok(value)

\* SysResult::try_from_result.
try_from_result(r) == IF r.tag = "Err" THEN Ok(err(r.val)) ELSE try_ok(r.val)

\* From<Result<usize, ErrorStatus>>: try_from_result(..).expect(..).
from_result(r) ==
    IF try_from_result(r).tag = "Err" THEN Panic ELSE try_from_result(r)

\* SysResult::into_result: a negative word is negated (panicking on
\* isize::MIN in a debug build), truncated to u16 and decoded by from_u16.
into_result(w) ==
    IF w < 0
    THEN IF OverflowChecks /\ NegOverflows(w)
         THEN Panic
         ELSE Err(FromU16(AsU16(WrappingNeg(w))))
    ELSE Ok(w)

Init ==
    /\ phase = "idle"
    /\ origin = "none"
    /\ intended = NoResult
    /\ word = 0
    /\ decoded = NoResult

\* The kernel returns r through a constructor whose outcome is c: a word on
\* the wire, a refusal the handler sees, or a panic of the kernel.
KernelReturn(r, c) ==
    /\ phase = "idle"
    /\ origin' = "kernel"
    /\ intended' = r
    /\ phase' = CASE c.tag = "Ok" -> "onwire"
                  [] c.tag = "Err" -> "rejected"
                  [] c.tag = "Panic" -> "kpanic"
    /\ word' = IF c.tag = "Ok" THEN c.val ELSE word
    /\ UNCHANGED decoded

KernelErr(e) == KernelReturn(Err(e), Ok(err(e)))

KernelTryOk(v) == KernelReturn(Ok(v), try_ok(v))

KernelOk(v) == KernelReturn(Ok(v), ok(v))

KernelTryFromResult(r) == KernelReturn(r, try_from_result(r))

KernelFromResult(r) == KernelReturn(r, from_result(r))

\* SysResult::from_isize: any word, e.g. from an ABI newer than the receiver.
ForeignFromIsize(i) ==
    /\ phase = "idle"
    /\ phase' = "onwire"
    /\ origin' = "foreign"
    /\ word' = i
    /\ UNCHANGED <<intended, decoded>>

\* The receiver decodes the word with into_result.
IntoResult ==
    /\ phase = "onwire"
    /\ decoded' = into_result(word)
    /\ phase' = IF into_result(word) = Panic THEN "upanic" ELSE "decoded"
    /\ UNCHANGED <<origin, intended, word>>

Next ==
    \/ \E e \in ErrorStatus : KernelErr(e)
    \/ \E v \in Usize : KernelTryOk(v) \/ KernelOk(v)
    \/ \E r \in KernelResult : KernelTryFromResult(r) \/ KernelFromResult(r)
    \/ \E i \in Isize : ForeignFromIsize(i)
    \/ IntoResult

Spec == Init /\ [][Next]_vars

-----------------------------------------------------------------------------
(***************************************************************************)
(* Properties.                                                             *)
(***************************************************************************)

Results == {Ok(v) : v \in Usize} \cup {Err(e) : e \in 0..U16Mod}
           \cup {Panic, NoResult}

TypeOK ==
    /\ phase \in {"idle", "onwire", "rejected", "kpanic", "decoded", "upanic"}
    /\ origin \in {"none", "kernel", "foreign"}
    /\ intended \in KernelResult \cup {NoResult}
    /\ word \in Isize
    /\ decoded \in Results

\* Round trip of every kernel constructor through into_result: a word the
\* kernel put on the wire decodes, without panicking, to exactly the
\* Result the handler returned (err, try_ok/ok and into_result agree on
\* the usize/isize/u16 casts).
RoundTrip ==
    (origin = "kernel" /\ phase \in {"decoded", "upanic"}) => decoded = intended

\* The checked constructors refuse (try_ok, try_from_result) or panic (ok,
\* From<Result>) only for an Ok payload above isize::MAX: every payload
\* that fits and every error reaches the wire.
RejectOnlyOversize ==
    phase \in {"rejected", "kpanic"} =>
        intended.tag = "Ok" /\ intended.val > IsizeMax

\* into_result is total: whatever word a sender put on the wire, the
\* receiver decodes it without panicking, to an Ok payload in 0..isize::MAX
\* or to a variant of ErrorStatus (the forward-compatibility contract).
DecodeTotal ==
    /\ phase # "upanic"
    /\ phase = "decoded" =>
          \/ decoded.tag = "Ok" /\ decoded.val \in 0..IsizeMax
          \/ decoded.tag = "Err" /\ decoded.val \in ErrorStatus

\* The spec's wire contract: a negative word w carries the code -w, and a
\* code outside 1..MAX (a newer sender's) decodes to Unknown.
ForeignCodeDecodesUnknown ==
    (phase = "decoded" /\ word < 0 /\ -word > MAX) => decoded = Err(Unknown)

-----------------------------------------------------------------------------
(***************************************************************************)
(* Refinement: the word encoding implements the abstract gate of module    *)
(* OutcomeGate.  The abstract phase is the detailed one with both ways a   *)
(* constructor refuses (Err(()) or a panic) merged; the Result handed over *)
(* is what the kernel handler returned, or, for a foreign word, what the   *)
(* word decodes to; the Result the receiver got is what into_result gave.  *)
(***************************************************************************)
GatePhase ==
    CASE phase = "idle" -> "idle"
      [] phase = "onwire" -> "sent"
      [] phase \in {"rejected", "kpanic"} -> "refused"
      [] phase = "decoded" -> "delivered"
      [] phase = "upanic" -> "panicked"

GateMsg == IF origin = "foreign" THEN into_result(word) ELSE intended

Gate == INSTANCE OutcomeGate WITH
            Codes <- ErrorStatus,
            aphase <- GatePhase,
            src <- origin,
            msg <- GateMsg,
            got <- decoded

\* The outcome word implements the gate (errors.rs as a whole): every kernel
\* Result that fits reaches the receiver unchanged, only an oversize Ok is
\* refused, and a foreign word decodes to some Result that fits, with no
\* panic on either side of the wire.
ImplementsOutcomeGate == Gate!GInit /\ [][Gate!GNext]_Gate!gvars

-----------------------------------------------------------------------------
(***************************************************************************)
(* The inductive strengthening used by SysResult_proofs: RoundTrip holds   *)
(* after decoding because a kernel word on the wire already decodes to the *)
(* intended Result.                                                        *)
(***************************************************************************)
KernelWordFaithful ==
    (origin = "kernel" /\ phase = "onwire") => into_result(word) = intended

IInv == TypeOK /\ KernelWordFaithful /\ RoundTrip /\ RejectOnlyOversize
=============================================================================
