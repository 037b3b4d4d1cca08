-------------------------------- MODULE Slice --------------------------------
(***************************************************************************)
(* ffi/slice.rs: Slice<T>, the FFI pointer + element count, and its        *)
(* validation try_as_slice_mut_custom, the only check a receiver runs      *)
(* before turning foreign bits into a Rust &mut [T].  Addresses are usize  *)
(* values; T is described by its alignment; the caller's validator closure *)
(* is the set of addresses it accepts.  Validation is a pure function of   *)
(* the slice it reads, so this module has no variables; NestedSlice runs   *)
(* it against foreign memory that another thread can change.               *)
(***************************************************************************)
EXTENDS Word, ErrorStatus

\* A Slice<T> as it lies in memory: #[repr(C)] { ptr, len }.
SliceVal == [ptr : Usize, len : Usize]

\* InvalidSliceError.
SliceErrors == {"PtrNotAligned", "PtrIsNull", "LenTooLarge", "Other"}

SliceOk(s) == [tag |-> "Ok", val |-> s]
SliceErr(e) == [tag |-> "Err", val |-> e]

\* Slice::try_as_slice_mut_custom: the four checks in the code's order, each
\* an early return; `validator` accepts the addresses of the set.
TryAsSliceMutCustom(s, align, validator) ==
    IF s.ptr = 0 THEN SliceErr("PtrIsNull")
    ELSE IF s.ptr % align # 0 THEN SliceErr("PtrNotAligned")
    ELSE IF s.len > IsizeMax THEN SliceErr("LenTooLarge")
    ELSE IF s.ptr \notin validator THEN SliceErr("Other")
    ELSE SliceOk(s)

\* try_as_slice_mut / try_as_slice: the custom form with `|_| true`.
TryAsSliceMut(s, align) == TryAsSliceMutCustom(s, align, Usize)

\* IntoErr for InvalidSliceError: LenTooLarge -> StrTooLong, else InvalidPtr.
SliceErrorIntoErr(e) == IF e = "LenTooLarge" THEN StrTooLong ELSE InvalidPtr

\* Ghost bookkeeping of the nested loops: the reads so far, f, with the
\* value x read at index k added (an earlier read at k is kept).
Recorded(f, k, x) ==
    [j \in DOMAIN f \cup {k} |-> IF j \in DOMAIN f THEN f[j] ELSE x]

(***************************************************************************)
(* Reference definitions, from the spec's list of what validation must     *)
(* establish and from the safety contract of core::slice::from_raw_parts,  *)
(* which the validated slice is handed to.                                 *)
(***************************************************************************)

\* The four checks the spec lists: non-null, aligned, count within isize,
\* start address accepted by the validator.
MeetsSliceChecks(s, align, validator) ==
    /\ s.ptr # 0
    /\ s.ptr % align = 0
    /\ s.len <= IsizeMax
    /\ s.ptr \in validator

\* from_raw_parts: len * size_of::<T>() must not exceed isize::MAX.
ByteSizeFits(s, size) == s.len * size <= IsizeMax

\* Every byte of the range lies in memory the validator accepts.
RangeAccepted(s, size, validator) ==
    \A a \in s.ptr..(s.ptr + s.len * size - 1) : a \in validator
=============================================================================
