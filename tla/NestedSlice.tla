----------------------------- MODULE NestedSlice -----------------------------
(***************************************************************************)
(* Slice<Slice<T>>::try_into_slices_ptr_mut (ffi/slice.rs): the kernel     *)
(* validates a foreign buffer of foreign buffers (the argv/env arrays of   *)
(* a spawn request) in place.  It validates the outer slice, then walks    *)
(* its elements in order, validating each one and storing the resulting   *)
(* Rust slice back over the element it read (results aliases root); the   *)
(* first failure returns.  The buffer lies in the calling process's memory *)
(* and another thread of that process runs while the kernel walks it: the *)
(* Scribble action rewrites an element, at most MaxWrites times, while the *)
(* call is in progress.  Elements are read and stored atomically.          *)
(***************************************************************************)
EXTENDS Slice

CONSTANTS
    ElemAlign,     \* align_of::<T>()
    ElemSize,      \* size_of::<T>()
    SliceAlign,    \* align_of::<Slice<T>>() (a machine word)
    Mapped,        \* the addresses the validator closure accepts
    OuterHeaders,  \* the outer Slice<Slice<T>> headers a caller may pass
    Inner,         \* the inner Slice<T> values a caller may store
    MaxOuterLen,   \* the longest outer buffer considered
    MaxWrites      \* how many times the other thread writes the buffer

ASSUME NestedAssumption ==
    /\ ElemAlign \in Nat \ {0}
    /\ ElemSize \in Nat \ {0}
    /\ SliceAlign \in Nat \ {0}
    /\ Mapped \subseteq Usize
    /\ OuterHeaders \subseteq SliceVal
    /\ Inner \subseteq SliceVal
    /\ MaxOuterLen \in Nat
    /\ MaxWrites \in Nat
    /\ \A h \in OuterHeaders : h.len <= MaxOuterLen \/ h.len > IsizeMax

VARIABLES
    outer,    \* the outer header (self, passed by value)
    mem,      \* the outer buffer's elements, in the caller's memory
    kpc,      \* the kernel's place: "root", "loop" or "done"
    i,        \* the loop index
    result,   \* what the call returned
    seen,     \* ghost: the element value the kernel read at each index
    writes    \* how many writes the other thread has made

vars == <<outer, mem, kpc, i, result, seen, writes>>

ElemIdx == 0..(MaxOuterLen - 1)

NoResult == [tag |-> "None", val |-> "none"]

Init ==
    /\ outer \in OuterHeaders
    /\ mem \in [ElemIdx -> Inner]
    /\ kpc = "root"
    /\ i = 0
    /\ result = NoResult
    /\ seen = [j \in {} |-> outer]
    /\ writes = 0

\* `let root = self.try_as_slice_mut_custom(&custom_validate)?`: the outer
\* slice fails its checks and the call returns the error.
RootRejected ==
    /\ kpc = "root"
    /\ TryAsSliceMutCustom(outer, SliceAlign, Mapped).tag = "Err"
    /\ result' = TryAsSliceMutCustom(outer, SliceAlign, Mapped)
    /\ kpc' = "done"
    /\ UNCHANGED <<outer, mem, i, seen, writes>>

\* Mutation: the outer slice's result ignored (the `?` lost).
RootAccepted_unchecked ==
    /\ kpc = "root"
    /\ kpc' = "loop"
    /\ UNCHANGED <<outer, mem, i, result, seen, writes>>

\* The outer slice passes; the loop starts at i = 0.
RootAccepted ==
    /\ kpc = "root"
    /\ TryAsSliceMutCustom(outer, SliceAlign, Mapped).tag = "Ok"
    /\ kpc' = "loop"
    /\ UNCHANGED <<outer, mem, i, result, seen, writes>>

\* Mutation: the `?` stores the Result rather than the slice it holds.
Unwrap_result(r) == r

\* The `?` on a validated element: the Rust slice it holds.
Unwrap(r) == r.val

\* One iteration: read root[i]; on failure return the error (the `?`),
\* otherwise store the validated slice into results[i], which is the same
\* memory, and go on with i + 1.
ValidateElem ==
    /\ kpc = "loop"
    /\ i < outer.len
    /\ LET v == mem[i]
           r == TryAsSliceMutCustom(v, ElemAlign, Mapped)
       IN  /\ seen' = Recorded(seen, i, v)
           /\ \/ /\ r.tag = "Err"
                 /\ result' = r
                 /\ kpc' = "done"
                 /\ UNCHANGED <<mem, i>>
              \/ /\ r.tag = "Ok"
                 /\ mem' = [mem EXCEPT ![i] = Unwrap(r)]
                 /\ i' = i + 1
                 /\ UNCHANGED <<result, kpc>>
    /\ UNCHANGED <<outer, writes>>

\* Mutation: the loop leaves one element early.
LoopDone_early ==
    /\ kpc = "loop"
    /\ i >= outer.len - 1
    /\ result' = SliceOk(outer)
    /\ kpc' = "done"
    /\ UNCHANGED <<outer, mem, i, seen, writes>>

\* `while i < results.len()` ends: Ok(results), a view of the outer buffer.
LoopDone ==
    /\ kpc = "loop"
    /\ i >= outer.len
    /\ result' = SliceOk(outer)
    /\ kpc' = "done"
    /\ UNCHANGED <<outer, mem, i, seen, writes>>

\* Another thread of the calling process writes element j of its own buffer
\* while the kernel is still inside the call.
Scribble(j, v) ==
    /\ kpc # "done"
    /\ writes < MaxWrites
    /\ j < outer.len
    /\ mem' = [mem EXCEPT ![j] = v]
    /\ writes' = writes + 1
    /\ UNCHANGED <<outer, kpc, i, result, seen>>

Next ==
    \/ RootRejected
    \/ RootAccepted
    \/ ValidateElem
    \/ LoopDone
    \/ \E j \in ElemIdx, v \in Inner : Scribble(j, v)

Spec == Init /\ [][Next]_vars

-----------------------------------------------------------------------------
(***************************************************************************)
(* Properties.                                                             *)
(***************************************************************************)

TypeOK ==
    /\ outer \in OuterHeaders
    /\ mem \in [ElemIdx -> Inner]
    /\ kpc \in {"root", "loop", "done"}
    /\ i \in 0..MaxOuterLen
    /\ result \in {NoResult, SliceOk(outer)} \cup {SliceErr(e) : e \in SliceErrors}
    /\ DOMAIN seen \subseteq ElemIdx
    /\ \A j \in DOMAIN seen : seen[j] \in Inner
    /\ writes \in 0..MaxWrites

InBuffer == {j \in ElemIdx : j < outer.len}

\* An Ok return means the kernel checked the outer slice and read every one
\* of its elements, and each value it read passed the four checks at the
\* moment it was read (the loop neither skips nor stops early).
ReadsValidated ==
    (kpc = "done" /\ result.tag = "Ok") =>
        /\ MeetsSliceChecks(outer, SliceAlign, Mapped)
        /\ DOMAIN seen = InBuffer
        /\ \A j \in InBuffer : MeetsSliceChecks(seen[j], ElemAlign, Mapped)

\* Short-circuit: an Err return comes either from the outer slice, before
\* any element was read, or from the first element that failed, with every
\* earlier element valid and no later element read.
ShortCircuit ==
    (kpc = "done" /\ result.tag = "Err") =>
        \/ /\ DOMAIN seen = {}
           /\ ~MeetsSliceChecks(outer, SliceAlign, Mapped)
        \/ /\ MeetsSliceChecks(outer, SliceAlign, Mapped)
           /\ \E k \in InBuffer :
                 /\ DOMAIN seen = 0..k
                 /\ ~MeetsSliceChecks(seen[k], ElemAlign, Mapped)
                 /\ \A j \in 0..(k - 1) : MeetsSliceChecks(seen[j], ElemAlign, Mapped)

\* What the spec promises the receiver: when the call returns Ok, every
\* slice in the returned view passes the checks, so it can be used freely.
ValidatedViewSound ==
    (kpc = "done" /\ result.tag = "Ok") =>
        \A j \in InBuffer : MeetsSliceChecks(mem[j], ElemAlign, Mapped)

\* The spec: the count check "prevents length x size overflow"; every
\* validated element satisfies from_raw_parts' len * size <= isize::MAX.
ValidatedByteSizeFits ==
    (kpc = "done" /\ result.tag = "Ok") =>
        \A j \in InBuffer : ByteSizeFits(mem[j], ElemSize)

\* The spec: the validator establishes "that the range is actually mapped";
\* every byte of every validated element is accepted by the validator.
ValidatedRangeAccepted ==
    (kpc = "done" /\ result.tag = "Ok") =>
        \A j \in InBuffer : RangeAccepted(mem[j], ElemSize, Mapped)
=============================================================================
