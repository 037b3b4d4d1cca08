-------------------------- MODULE NestedSlice_proofs --------------------------
(***************************************************************************)
(* Proofs about try_into_slices_ptr_mut for every word width, alignment,   *)
(* validator, set of headers, buffer length and number of concurrent       *)
(* writes allowed by the assumptions: an Ok return means every element was *)
(* read and passed the checks when it was read, and an Err return comes   *)
(* from the outer slice or from the first failing element.                 *)
(***************************************************************************)
EXTENDS NestedSlice, TLAPS

USE IsizeMaxAssumption, NestedAssumption DEF Usize, UsizeMax

\* The verdict of the checks on an inner and on the outer slice.
Meets(s) == MeetsSliceChecks(s, ElemAlign, Mapped)
OuterOK == MeetsSliceChecks(outer, SliceAlign, Mapped)

(***************************************************************************)
(* The inductive invariant.  The loop keeps the reads made so far as a     *)
(* function on 0..i-1 whose values all passed the checks; the two done     *)
(* states are told apart by the tag of the result.                         *)
(***************************************************************************)
ReadsSoFar(n) ==
    /\ seen \in [0..(n - 1) -> Inner]
    /\ \A j \in 0..(n - 1) : Meets(seen[j])

\* The reads when the element at n failed: all earlier ones passed.
FailedAt(n) ==
    /\ seen \in [0..n -> Inner]
    /\ \A j \in 0..(n - 1) : Meets(seen[j])
    /\ ~Meets(seen[n])

LoopInv ==
    /\ kpc = "root" => i = 0 /\ seen \in [{} -> Inner]
    /\ kpc # "done" => result = NoResult
    /\ kpc = "loop" => OuterOK /\ i <= outer.len /\ ReadsSoFar(i)
    /\ kpc = "done" => result.tag \in {"Ok", "Err"}
    /\ (kpc = "done" /\ result.tag = "Ok") =>
          OuterOK /\ i = outer.len /\ ReadsSoFar(i)
    /\ (kpc = "done" /\ result.tag = "Err") =>
          \/ seen \in [{} -> Inner] /\ ~OuterOK
          \/ OuterOK /\ i < outer.len /\ FailedAt(i)

IInv == TypeOK /\ LoopInv

\* The four checks decide try_as_slice_mut_custom, which hands back the
\* slice it was given.
LEMMA CheckVerdict ==
    ASSUME NEW s \in SliceVal, NEW a, NEW V
    PROVE  /\ TryAsSliceMutCustom(s, a, V) \in {SliceOk(s)} \cup {SliceErr(e) : e \in SliceErrors}
           /\ TryAsSliceMutCustom(s, a, V).tag = "Ok" <=> MeetsSliceChecks(s, a, V)
BY DEF TryAsSliceMutCustom, MeetsSliceChecks, SliceOk, SliceErr, SliceErrors, SliceVal

\* A header the outer slice accepts is no longer than the model's buffer.
LEMMA OuterFits ==
    ASSUME outer \in OuterHeaders, OuterOK
    PROVE  /\ outer.len \in 0..MaxOuterLen
           /\ InBuffer = 0..(outer.len - 1)
<1>1. outer.len \in Nat /\ outer.len <= IsizeMax
    BY DEF OuterOK, MeetsSliceChecks, SliceVal
<1>2. outer.len <= MaxOuterLen
    BY <1>1
<1>3. QED
    BY <1>1, <1>2 DEF InBuffer, ElemIdx

\* Recording a read at the next index extends the reads by one.
LEMMA RecordNext ==
    ASSUME NEW n \in Nat, NEW v \in Inner, seen \in [0..(n - 1) -> Inner]
    PROVE  /\ Recorded(seen, n, v) \in [0..n -> Inner]
           /\ Recorded(seen, n, v)[n] = v
           /\ \A j \in 0..(n - 1) : Recorded(seen, n, v)[j] = seen[j]
BY DEF Recorded

LEMMA InitIInv == Init => IInv
BY DEF Init, IInv, TypeOK, LoopInv, NoResult

LEMMA RootRejectedIInv == IInv /\ RootRejected => IInv'
<1> SUFFICES ASSUME IInv, RootRejected PROVE IInv'
    OBVIOUS
<1>1. TryAsSliceMutCustom(outer, SliceAlign, Mapped)
         \in {SliceOk(outer)} \cup {SliceErr(e) : e \in SliceErrors}
    BY CheckVerdict DEF IInv, TypeOK
<1>2. ~OuterOK
    BY CheckVerdict DEF IInv, TypeOK, RootRejected, OuterOK
<1>3. TypeOK'
    BY <1>1 DEF IInv, TypeOK, RootRejected
<1>4. LoopInv'
    BY <1>2 DEF IInv, LoopInv, RootRejected, OuterOK
<1>5. QED
    BY <1>3, <1>4 DEF IInv

LEMMA RootAcceptedIInv == IInv /\ RootAccepted => IInv'
<1> SUFFICES ASSUME IInv, RootAccepted PROVE IInv'
    OBVIOUS
<1>1. OuterOK
    BY CheckVerdict DEF IInv, TypeOK, RootAccepted, OuterOK
<1>2. outer.len \in Nat
    BY DEF IInv, TypeOK, SliceVal
<1>3. QED
    BY <1>1, <1>2 DEF IInv, TypeOK, LoopInv, RootAccepted, OuterOK, ReadsSoFar

LEMMA ValidateElemIIv == IInv /\ ValidateElem => IInv'
<1> SUFFICES ASSUME IInv, ValidateElem PROVE IInv'
    OBVIOUS
<1> DEFINE ev == mem[i]
           er == TryAsSliceMutCustom(ev, ElemAlign, Mapped)
<1>1. kpc = "loop" /\ i < outer.len /\ OuterOK /\ ReadsSoFar(i)
    BY DEF IInv, LoopInv, ValidateElem
<1>2. outer.len \in 0..MaxOuterLen /\ i \in Nat
    BY <1>1, OuterFits DEF IInv, TypeOK
<1>3. i \in ElemIdx /\ ev \in Inner
    BY <1>1, <1>2 DEF IInv, TypeOK, ElemIdx
<1>4. ev \in SliceVal
    BY <1>3, NestedAssumption
<1>5. /\ Recorded(seen, i, ev) \in [0..i -> Inner]
      /\ Recorded(seen, i, ev)[i] = ev
      /\ \A j \in 0..(i - 1) : Recorded(seen, i, ev)[j] = seen[j]
    BY <1>1, <1>2, <1>3, RecordNext DEF ReadsSoFar
<1>6. seen' = Recorded(seen, i, ev)
    BY DEF ValidateElem
<1>7. er \in {SliceOk(ev)} \cup {SliceErr(e) : e \in SliceErrors}
      /\ (er.tag = "Ok" <=> Meets(ev))
    BY <1>4, CheckVerdict DEF Meets
<1>8. CASE er.tag = "Err"
    <2>1. result' = er /\ kpc' = "done" /\ UNCHANGED <<outer, mem, i, writes>>
        BY <1>8 DEF ValidateElem
    <2>3. FailedAt(i)'
        BY <1>1, <1>5, <1>6, <1>7, <1>8, <2>1 DEF ReadsSoFar, FailedAt
    <2>4. TypeOK'
        BY <1>2, <1>3, <1>5, <1>6, <1>7, <1>8, <2>1 DEF IInv, TypeOK, SliceOk, SliceErr, ElemIdx
    <2>5. LoopInv'
        BY <1>1, <1>5, <1>6, <1>7, <1>8, <2>1, <2>3 DEF LoopInv, SliceOk, SliceErr, OuterOK
    <2>6. QED
        BY <2>4, <2>5 DEF IInv
<1>9. CASE er.tag = "Ok"
    <2>1. /\ mem' = [mem EXCEPT ![i] = Unwrap(er)]
          /\ i' = i + 1 /\ result' = result /\ kpc' = kpc
          /\ UNCHANGED <<outer, writes>>
        BY <1>9 DEF ValidateElem
    <2>0. er = SliceOk(ev)
        <3>1. \A e \in SliceErrors : SliceErr(e).tag # "Ok"
            BY DEF SliceErr
        <3>2. QED
            BY <1>7, <1>9, <3>1
    <2>2. Unwrap(er) = ev /\ Meets(ev)
        BY <1>7, <1>9, <2>0 DEF Unwrap, SliceOk
    <2>3. ReadsSoFar(i)'
        BY <1>1, <1>2, <1>5, <1>6, <2>1, <2>2 DEF ReadsSoFar
    <2>4. TypeOK'
        BY <1>1, <1>2, <1>3, <1>5, <1>6, <2>1, <2>2 DEF IInv, TypeOK, ElemIdx
    <2>5. LoopInv'
        BY <1>1, <1>2, <2>1, <2>3 DEF IInv, LoopInv, OuterOK
    <2>6. QED
        BY <2>4, <2>5 DEF IInv
<1>10. er.tag \in {"Ok", "Err"}
    <2>1. \A e \in SliceErrors : SliceErr(e).tag = "Err"
        BY DEF SliceErr
    <2>2. SliceOk(ev).tag = "Ok"
        BY DEF SliceOk
    <2>3. QED
        BY <1>7, <2>1, <2>2
<1>11. QED
    BY <1>8, <1>9, <1>10

LEMMA LoopDoneIInv == IInv /\ LoopDone => IInv'
<1> SUFFICES ASSUME IInv, LoopDone PROVE IInv'
    OBVIOUS
<1>1. OuterOK /\ i = outer.len /\ ReadsSoFar(i)
    BY DEF IInv, LoopInv, LoopDone, TypeOK, SliceVal
<1>2. QED
    BY <1>1 DEF IInv, TypeOK, LoopInv, LoopDone, OuterOK, ReadsSoFar, SliceOk

LEMMA ScribbleIInv ==
    ASSUME NEW j \in ElemIdx, NEW v \in Inner, IInv, Scribble(j, v)
    PROVE  IInv'
<1>1. TypeOK'
    BY DEF IInv, TypeOK, Scribble
<1>2. LoopInv'
    BY DEF IInv, LoopInv, Scribble, OuterOK, ReadsSoFar, FailedAt, Meets
<1>3. QED
    BY <1>1, <1>2 DEF IInv

LEMMA NextIInv == IInv /\ [Next]_vars => IInv'
<1> SUFFICES ASSUME IInv, [Next]_vars PROVE IInv'
    OBVIOUS
<1>1. CASE RootRejected
    BY <1>1, RootRejectedIInv
<1>2. CASE RootAccepted
    BY <1>2, RootAcceptedIInv
<1>3. CASE ValidateElem
    BY <1>3, ValidateElemIIv
<1>4. CASE LoopDone
    BY <1>4, LoopDoneIInv
<1>5. CASE \E j \in ElemIdx, v \in Inner : Scribble(j, v)
    BY <1>5, ScribbleIInv
<1>6. CASE UNCHANGED vars
    BY <1>6 DEF vars, IInv, TypeOK, LoopInv, OuterOK, ReadsSoFar, FailedAt, Meets
<1>7. QED
    BY <1>1, <1>2, <1>3, <1>4, <1>5, <1>6 DEF Next

\* The invariant gives the two properties the nested_slice run checks.
LEMMA IInvProperties == IInv => ReadsValidated /\ ShortCircuit
<1> SUFFICES ASSUME IInv PROVE ReadsValidated /\ ShortCircuit
    OBVIOUS
<1>1. ReadsValidated
    <2> SUFFICES ASSUME kpc = "done", result.tag = "Ok"
                 PROVE  ReadsValidated
        BY DEF ReadsValidated
    <2>1. OuterOK /\ i = outer.len /\ ReadsSoFar(i)
        BY DEF IInv, LoopInv
    <2>2. InBuffer = 0..(outer.len - 1)
        BY <2>1, OuterFits DEF IInv, TypeOK
    <2>3. QED
        BY <2>1, <2>2 DEF ReadsValidated, ReadsSoFar, OuterOK, Meets
<1>2. ShortCircuit
    <2> SUFFICES ASSUME kpc = "done", result.tag = "Err"
                 PROVE  ShortCircuit
        BY DEF ShortCircuit
    <2>1. CASE seen \in [{} -> Inner] /\ ~OuterOK
        BY <2>1 DEF ShortCircuit, OuterOK
    <2>2. CASE OuterOK /\ i < outer.len /\ FailedAt(i)
        <3>1. InBuffer = 0..(outer.len - 1) /\ outer.len \in Nat /\ i \in Nat
            BY <2>2, OuterFits DEF IInv, TypeOK
        <3>2. i \in InBuffer
            BY <2>2, <3>1
        <3>3. QED
            BY <2>2, <3>2 DEF ShortCircuit, FailedAt, OuterOK, Meets
    <2>3. QED
        BY <2>1, <2>2 DEF IInv, LoopInv
<1>3. QED
    BY <1>1, <1>2

LEMMA SpecIInv == Spec => []IInv
BY InitIInv, NextIInv, PTL DEF Spec

\* Whatever the caller's other thread writes, and for every instance of the
\* constants: the model of try_into_slices_ptr_mut stays well typed.
THEOREM NestedTypeCorrect == Spec => []TypeOK
BY SpecIInv, PTL DEF IInv

\* An Ok return of try_into_slices_ptr_mut means the outer slice and every
\* element the kernel read passed the four checks when read, and every
\* element of the buffer was read, for every instance of the constants.
THEOREM ReadsValidatedCorrect == Spec => []ReadsValidated
BY SpecIInv, IInvProperties, PTL

\* An Err return of try_into_slices_ptr_mut comes from the outer slice
\* before any read, or from the first element that failed, with every
\* earlier element valid and none after it read.
THEOREM ShortCircuitCorrect == Spec => []ShortCircuit
BY SpecIInv, IInvProperties, PTL
=============================================================================
