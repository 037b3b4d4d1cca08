------------------------------ MODULE NestedStr ------------------------------
(***************************************************************************)
(* ffi/str.rs: Str (a Slice<u8> whose bytes must be UTF-8) and             *)
(* Slice<Str>::try_into_str_slices_mut, the kernel's in-place validation   *)
(* of a foreign array of strings (the argv of a spawn request).  The outer *)
(* slice is checked, then every Str in order with the four slice checks    *)
(* followed by core::str::from_utf8_mut; the first failure returns as an   *)
(* InvalidStrError.  String contents are abstracted to one fact per start  *)
(* address: whether the bytes there are currently well-formed UTF-8 (an    *)
(* empty string always is).  Another thread of the calling process may     *)
(* rewrite string bytes while the kernel walks the array (Rewrite, at most *)
(* MaxWrites times).                                                       *)
(***************************************************************************)
EXTENDS Slice

CONSTANTS
    StrAlign,      \* align_of::<Str>() (a machine word)
    Mapped,        \* the addresses the validator closure accepts
    OuterHeaders,  \* the Slice<Str> headers a caller may pass
    Inner,         \* the Str values a caller may store
    Utf8Init,      \* the start addresses whose bytes are UTF-8 initially
    MaxOuterLen,   \* the longest outer array considered
    MaxWrites      \* how many byte rewrites the other thread makes

ASSUME NestedStrAssumption ==
    /\ StrAlign \in Nat \ {0}
    /\ Mapped \subseteq Usize
    /\ OuterHeaders \subseteq SliceVal
    /\ Inner \subseteq SliceVal
    /\ Utf8Init \subseteq Usize
    /\ MaxOuterLen \in Nat
    /\ MaxWrites \in Nat
    /\ \A h \in OuterHeaders : h.len <= MaxOuterLen \/ h.len > IsizeMax

\* InvalidStrError: InvalidSliceError(e), wrapped by the From impl the `?`
\* uses, or Utf8Error.
StrErrors == SliceErrors \cup {"Utf8Error"}

\* IntoErr for InvalidStrError: a slice error maps as InvalidSliceError
\* does, Utf8Error to InvalidStr.
StrErrorIntoErr_asptr(e) == SliceErrorIntoErr(e)

StrErrorIntoErr(e) ==
    IF e = "Utf8Error" THEN InvalidStr ELSE SliceErrorIntoErr(e)

\* from_utf8_mut on the bytes of s, given the addresses holding UTF-8.
Utf8Ok(s, utf8) == s.len = 0 \/ s.ptr \in utf8

\* Mutation: try_as_str_mut_custom without from_utf8_mut.
TryAsStrMutCustom_noutf8(s, validator, utf8) ==
    TryAsSliceMutCustom(s, 1, validator)

\* Str::try_as_str_mut_custom (and try_as_str_custom, try_as_str[_mut]):
\* the slice checks for u8 (alignment 1), then the UTF-8 check.
TryAsStrMutCustom(s, validator, utf8) ==
    IF TryAsSliceMutCustom(s, 1, validator).tag = "Err"
    THEN TryAsSliceMutCustom(s, 1, validator)
    ELSE IF ~Utf8Ok(s, utf8) THEN SliceErr("Utf8Error")
    ELSE SliceOk(s)

VARIABLES
    outer,    \* the outer header (self, passed by value)
    mem,      \* the outer array's Str elements, in the caller's memory
    utf8,     \* the start addresses whose bytes are UTF-8 now
    kpc,      \* the kernel's place: "root", "loop" or "done"
    i,        \* the loop index
    result,   \* what the call returned
    seen,     \* ghost: per index, the Str read and whether it was UTF-8
    writes    \* how many rewrites the other thread has made

vars == <<outer, mem, utf8, kpc, i, result, seen, writes>>

ElemIdx == 0..(MaxOuterLen - 1)

NoResult == [tag |-> "None", val |-> "none"]

Init ==
    /\ outer \in OuterHeaders
    /\ mem \in [ElemIdx -> Inner]
    /\ utf8 = Utf8Init
    /\ kpc = "root"
    /\ i = 0
    /\ result = NoResult
    /\ seen = [j \in {} |-> [str |-> outer, utf8 |-> TRUE]]
    /\ writes = 0

\* `self.try_as_slice_mut_custom(&custom_validate)?` fails: the slice error
\* returns, converted to InvalidStrError.
RootRejected ==
    /\ kpc = "root"
    /\ TryAsSliceMutCustom(outer, StrAlign, Mapped).tag = "Err"
    /\ result' = TryAsSliceMutCustom(outer, StrAlign, Mapped)
    /\ kpc' = "done"
    /\ UNCHANGED <<outer, mem, utf8, i, seen, writes>>

RootAccepted ==
    /\ kpc = "root"
    /\ TryAsSliceMutCustom(outer, StrAlign, Mapped).tag = "Ok"
    /\ kpc' = "loop"
    /\ UNCHANGED <<outer, mem, utf8, i, result, seen, writes>>

\* Mutation: the `?` stores the Result rather than the &str it holds.
Unwrap_result(r) == r

\* The `?` on a validated Str: the &str it holds (the same ptr and len).
Unwrap(r) == r.val

\* One iteration: `results[i] = slice.try_as_str_custom(&custom_validate)?`,
\* the &str stored over the Str it was read from.
ValidateStr ==
    /\ kpc = "loop"
    /\ i < outer.len
    /\ LET v == mem[i]
           r == TryAsStrMutCustom(v, Mapped, utf8)
       IN  /\ seen' = Recorded(seen, i, [str |-> v, utf8 |-> Utf8Ok(v, utf8)])
           /\ \/ /\ r.tag = "Err"
                 /\ result' = r
                 /\ kpc' = "done"
                 /\ UNCHANGED <<mem, i>>
              \/ /\ r.tag = "Ok"
                 /\ mem' = [mem EXCEPT ![i] = Unwrap(r)]
                 /\ i' = i + 1
                 /\ UNCHANGED <<result, kpc>>
    /\ UNCHANGED <<outer, utf8, writes>>

\* `while i < results.len()` ends: Ok(results).
LoopDone ==
    /\ kpc = "loop"
    /\ i >= outer.len
    /\ result' = SliceOk(outer)
    /\ kpc' = "done"
    /\ UNCHANGED <<outer, mem, utf8, i, seen, writes>>

\* Another thread rewrites the bytes of the string at address a, leaving
\* them well-formed or not, while the kernel is inside the call.
Rewrite(a, wellFormed) ==
    /\ kpc # "done"
    /\ writes < MaxWrites
    /\ utf8' = IF wellFormed THEN utf8 \cup {a} ELSE utf8 \ {a}
    /\ writes' = writes + 1
    /\ UNCHANGED <<outer, mem, kpc, i, result, seen>>

Next ==
    \/ RootRejected
    \/ RootAccepted
    \/ ValidateStr
    \/ LoopDone
    \/ \E s \in Inner, b \in BOOLEAN : Rewrite(s.ptr, b)

Spec == Init /\ [][Next]_vars

-----------------------------------------------------------------------------
(***************************************************************************)
(* Properties.                                                             *)
(***************************************************************************)

TypeOK ==
    /\ outer \in OuterHeaders
    /\ mem \in [ElemIdx -> Inner]
    /\ utf8 \subseteq Usize
    /\ kpc \in {"root", "loop", "done"}
    /\ i \in 0..MaxOuterLen
    /\ result \in {NoResult, SliceOk(outer)} \cup {SliceErr(e) : e \in StrErrors}
    /\ DOMAIN seen \subseteq ElemIdx
    /\ \A j \in DOMAIN seen : seen[j] \in [str : Inner, utf8 : BOOLEAN]
    /\ writes \in 0..MaxWrites

InBuffer == {j \in ElemIdx : j < outer.len}

\* An Ok return means every string of the array was read, passed the slice
\* checks and held well-formed UTF-8 at the moment it was read.
ReadsValidated ==
    (kpc = "done" /\ result.tag = "Ok") =>
        /\ MeetsSliceChecks(outer, StrAlign, Mapped)
        /\ DOMAIN seen = InBuffer
        /\ \A j \in InBuffer : MeetsSliceChecks(seen[j].str, 1, Mapped) /\ seen[j].utf8

\* The code the spec (section 7) gives the receiver for a rejected string:
\* a pointer problem is InvalidPtr, an oversized length StrTooLong, bytes
\* that are not UTF-8 InvalidStr; the checks run null, alignment, length,
\* validator, text.
CauseCode(s, utf8ok) ==
    IF s.ptr = 0 THEN InvalidPtr
    ELSE IF s.len > IsizeMax THEN StrTooLong
    ELSE IF s.ptr \notin Mapped THEN InvalidPtr
    ELSE IF ~utf8ok THEN InvalidStr
    ELSE 0

\* The ErrorStatus the kernel reports for a rejected argv (the into_err of
\* the returned InvalidStrError) names the cause of the first failing
\* string, and every string before it was valid.
ErrorCodeMatchesCause ==
    (kpc = "done" /\ result.tag = "Err" /\ DOMAIN seen # {}) =>
        \E k \in DOMAIN seen :
            /\ DOMAIN seen = 0..k
            /\ StrErrorIntoErr(result.val) = CauseCode(seen[k].str, seen[k].utf8)
            /\ StrErrorIntoErr(result.val) # 0
            /\ \A j \in 0..(k - 1) : CauseCode(seen[j].str, seen[j].utf8) = 0

\* What the spec promises the receiver of an Ok: every &str it got is
\* well-formed UTF-8 (the invariant of &str), for as long as it uses it.
ValidatedTextStaysUtf8 ==
    (kpc = "done" /\ result.tag = "Ok") =>
        \A j \in InBuffer : Utf8Ok(mem[j], utf8)
=============================================================================
