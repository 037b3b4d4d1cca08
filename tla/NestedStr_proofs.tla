--------------------------- MODULE NestedStr_proofs ---------------------------
(***************************************************************************)
(* Proofs about try_into_str_slices_mut for every word width, validator,   *)
(* set of headers, buffer length and number of concurrent rewrites allowed *)
(* by the assumptions: an Ok return means every string was read, passed    *)
(* the slice checks and was UTF-8 when read, and an Err return reports the *)
(* ErrorStatus of the first failing string's cause.                        *)
(***************************************************************************)
EXTENDS NestedStr, TLAPS

USE IsizeMaxAssumption, NestedStrAssumption DEF Usize, UsizeMax

\* A read: the Str and whether its bytes were UTF-8 then.
Reads == [str : Inner, utf8 : BOOLEAN]

\* The verdict on a read string and on the outer slice.
Meets(x) == MeetsSliceChecks(x.str, 1, Mapped) /\ x.utf8
OuterOK == MeetsSliceChecks(outer, StrAlign, Mapped)

(***************************************************************************)
(* The inductive invariant: the reads made so far cover 0..i-1 and all     *)
(* passed; an Err after the outer check carries the code of the last read. *)
(***************************************************************************)
ReadsSoFar(n) ==
    /\ seen \in [0..(n - 1) -> Reads]
    /\ \A j \in 0..(n - 1) : Meets(seen[j])

FailedAt(n) ==
    /\ seen \in [0..n -> Reads]
    /\ \A j \in 0..(n - 1) : Meets(seen[j])
    /\ StrErrorIntoErr(result.val) = CauseCode(seen[n].str, seen[n].utf8)
    /\ StrErrorIntoErr(result.val) # 0

LoopInv ==
    /\ kpc = "root" => i = 0 /\ seen \in [{} -> Reads]
    /\ kpc # "done" => result = NoResult
    /\ kpc = "loop" => OuterOK /\ i <= outer.len /\ ReadsSoFar(i)
    /\ kpc = "done" => result.tag \in {"Ok", "Err"}
    /\ (kpc = "done" /\ result.tag = "Ok") =>
          OuterOK /\ i = outer.len /\ ReadsSoFar(i)
    /\ (kpc = "done" /\ result.tag = "Err") =>
          \/ seen \in [{} -> Reads]
          \/ OuterOK /\ i < outer.len /\ FailedAt(i)

IInv == TypeOK /\ LoopInv

\* The four checks decide try_as_slice_mut_custom.
LEMMA CheckVerdict ==
    ASSUME NEW s \in SliceVal, NEW a, NEW V
    PROVE  /\ TryAsSliceMutCustom(s, a, V) \in {SliceOk(s)} \cup {SliceErr(e) : e \in SliceErrors}
           /\ TryAsSliceMutCustom(s, a, V).tag = "Ok" <=> MeetsSliceChecks(s, a, V)
BY DEF TryAsSliceMutCustom, MeetsSliceChecks, SliceOk, SliceErr, SliceErrors, SliceVal

\* A passing string is exactly one whose cause code is 0.
LEMMA MeetsIffNoCause ==
    ASSUME NEW x \in Reads
    PROVE  Meets(x) <=> CauseCode(x.str, x.utf8) = 0
BY NestedStrAssumption DEF Reads, Meets, MeetsSliceChecks, SliceVal, CauseCode,
   InvalidPtr, InvalidStr, StrTooLong

\* The verdict on a read built from a string and its UTF-8 flag.
LEMMA MeetsRead ==
    ASSUME NEW s, NEW b \in BOOLEAN
    PROVE  Meets([str |-> s, utf8 |-> b]) <=> MeetsSliceChecks(s, 1, Mapped) /\ b
BY Zenon DEF Meets

\* try_as_str_mut_custom: the slice checks for u8, then from_utf8_mut; the
\* error it returns maps to the cause code of the string.
LEMMA StrVerdict ==
    ASSUME NEW s \in SliceVal, NEW u, NEW r, r = TryAsStrMutCustom(s, Mapped, u)
    PROVE  /\ r \in {SliceOk(s)} \cup {SliceErr(e) : e \in StrErrors}
           /\ r.tag \in {"Ok", "Err"}
           /\ r.tag = "Ok" <=> Meets([str |-> s, utf8 |-> Utf8Ok(s, u)])
           /\ r.tag = "Ok" => r = SliceOk(s)
           /\ r.tag = "Err" =>
                 /\ StrErrorIntoErr(r.val) = CauseCode(s, Utf8Ok(s, u))
                 /\ StrErrorIntoErr(r.val) # 0
<1>0. Meets([str |-> s, utf8 |-> Utf8Ok(s, u)]) <=> MeetsSliceChecks(s, 1, Mapped) /\ Utf8Ok(s, u)
    <2>1. Utf8Ok(s, u) \in BOOLEAN
        BY DEF Utf8Ok
    <2>2. QED
        BY <2>1, MeetsRead
<1>1. s.ptr % 1 = 0
    BY DEF SliceVal
<1>2. CASE s.ptr = 0
    <2>1. r = SliceErr("PtrIsNull")
        BY <1>2 DEF TryAsStrMutCustom, TryAsSliceMutCustom, SliceErr, SliceOk, SliceVal
    <2>2. QED
        BY <1>2, <2>1, <1>0 DEF SliceErr, StrErrors, SliceErrors, MeetsSliceChecks, SliceVal,
           StrErrorIntoErr, SliceErrorIntoErr, CauseCode, InvalidPtr, Utf8Ok
<1>3. CASE s.ptr # 0 /\ s.len > IsizeMax
    <2>1. r = SliceErr("LenTooLarge")
        BY <1>1, <1>3 DEF TryAsStrMutCustom, TryAsSliceMutCustom, SliceErr, SliceOk, SliceVal
    <2>2. QED
        BY <1>3, <2>1, <1>0 DEF SliceErr, StrErrors, SliceErrors, MeetsSliceChecks, SliceVal,
           StrErrorIntoErr, SliceErrorIntoErr, CauseCode, StrTooLong, Utf8Ok
<1>4. CASE s.ptr # 0 /\ s.len <= IsizeMax /\ s.ptr \notin Mapped
    <2>0. TryAsSliceMutCustom(s, 1, Mapped) = SliceErr("Other")
        BY <1>1, <1>4 DEF TryAsSliceMutCustom, SliceVal
    <2>1. r = SliceErr("Other")
        BY <2>0 DEF TryAsStrMutCustom, SliceErr, SliceVal
    <2>2. QED
        BY <1>4, <2>1, <1>0 DEF SliceErr, StrErrors, SliceErrors, MeetsSliceChecks, SliceVal,
           StrErrorIntoErr, SliceErrorIntoErr, CauseCode, InvalidPtr, Utf8Ok
<1>5. CASE MeetsSliceChecks(s, 1, Mapped) /\ ~Utf8Ok(s, u)
    <2>0. TryAsSliceMutCustom(s, 1, Mapped) = SliceOk(s)
        BY <1>5 DEF TryAsSliceMutCustom, MeetsSliceChecks, SliceVal
    <2>1. r = SliceErr("Utf8Error")
        BY <1>5, <2>0 DEF TryAsStrMutCustom, SliceOk, SliceErr
    <2>2. r.tag = "Err" /\ r \in {SliceErr(e) : e \in StrErrors}
        BY <2>1 DEF SliceErr, StrErrors
    <2>3. ~Meets([str |-> s, utf8 |-> Utf8Ok(s, u)])
        BY <1>0, <1>5
    <2>4. StrErrorIntoErr(r.val) = InvalidStr
        BY <2>1 DEF SliceErr, StrErrorIntoErr
    <2>5. CauseCode(s, Utf8Ok(s, u)) = InvalidStr
        BY <1>5 DEF CauseCode, MeetsSliceChecks, SliceVal, Utf8Ok
    <2>6. QED
        BY <2>2, <2>3, <2>4, <2>5 DEF InvalidStr
<1>6. CASE MeetsSliceChecks(s, 1, Mapped) /\ Utf8Ok(s, u)
    <2>0. TryAsSliceMutCustom(s, 1, Mapped) = SliceOk(s)
        BY <1>6 DEF TryAsSliceMutCustom, MeetsSliceChecks, SliceVal
    <2>1. r = SliceOk(s)
        BY <1>6, <2>0 DEF TryAsStrMutCustom, SliceOk, SliceErr
    <2>2. QED
        BY <1>6, <2>1, <1>0 DEF SliceOk, Utf8Ok, SliceVal
<1>7. QED
    BY <1>1, <1>2, <1>3, <1>4, <1>5, <1>6 DEF MeetsSliceChecks, SliceVal

\* A header the outer slice accepts is no longer than the model's buffer.
LEMMA OuterFits ==
    ASSUME outer \in OuterHeaders, OuterOK
    PROVE  /\ outer.len \in 0..MaxOuterLen
           /\ InBuffer = 0..(outer.len - 1)
<1>1. outer.len \in Nat /\ outer.len <= IsizeMax
    BY DEF OuterOK, MeetsSliceChecks, SliceVal
<1>2. QED
    BY <1>1 DEF InBuffer, ElemIdx

\* Recording a read at the next index extends the reads by one.
LEMMA RecordNext ==
    ASSUME NEW n \in Nat, NEW x \in Reads, seen \in [0..(n - 1) -> Reads]
    PROVE  /\ Recorded(seen, n, x) \in [0..n -> Reads]
           /\ Recorded(seen, n, x)[n] = x
           /\ \A j \in 0..(n - 1) : Recorded(seen, n, x)[j] = seen[j]
BY DEF Recorded

LEMMA InitIInv == Init => IInv
BY DEF Init, IInv, TypeOK, LoopInv, NoResult, Reads

LEMMA RootRejectedIInv == IInv /\ RootRejected => IInv'
<1> SUFFICES ASSUME IInv, RootRejected PROVE IInv'
    OBVIOUS
<1>1. TryAsSliceMutCustom(outer, StrAlign, Mapped)
         \in {SliceOk(outer)} \cup {SliceErr(e) : e \in SliceErrors}
    BY CheckVerdict DEF IInv, TypeOK
<1>2. TryAsSliceMutCustom(outer, StrAlign, Mapped) \in {SliceErr(e) : e \in StrErrors}
    <2>1. SliceOk(outer).tag = "Ok"
        BY DEF SliceOk
    <2>2. QED
        BY <1>1, <2>1 DEF RootRejected, StrErrors
<1>3. TypeOK'
    BY <1>2 DEF IInv, TypeOK, RootRejected
<1>4. result'.tag = "Err"
    BY <1>2 DEF RootRejected, SliceErr
<1>5. LoopInv'
    BY <1>4 DEF IInv, LoopInv, RootRejected
<1>6. QED
    BY <1>3, <1>5 DEF IInv

LEMMA RootAcceptedIInv == IInv /\ RootAccepted => IInv'
<1> SUFFICES ASSUME IInv, RootAccepted PROVE IInv'
    OBVIOUS
<1>1. OuterOK
    BY CheckVerdict DEF IInv, TypeOK, RootAccepted, OuterOK
<1>2. outer.len \in Nat
    BY DEF IInv, TypeOK, SliceVal
<1>3. QED
    BY <1>1, <1>2 DEF IInv, TypeOK, LoopInv, RootAccepted, OuterOK, ReadsSoFar
LEMMA ValidateStrIInv == IInv /\ ValidateStr => IInv'
<1> SUFFICES ASSUME IInv, ValidateStr PROVE IInv'
    OBVIOUS
<1> DEFINE ev == mem[i]
           ex == [str |-> ev, utf8 |-> Utf8Ok(ev, utf8)]
           er == TryAsStrMutCustom(ev, Mapped, utf8)
<1>1. kpc = "loop" /\ i < outer.len /\ OuterOK /\ ReadsSoFar(i)
    BY DEF IInv, LoopInv, ValidateStr
<1>2. outer.len \in 0..MaxOuterLen /\ i \in Nat
    BY <1>1, OuterFits DEF IInv, TypeOK
<1>3. i \in ElemIdx /\ ev \in Inner /\ ev \in SliceVal
    BY <1>1, <1>2 DEF IInv, TypeOK, ElemIdx
<1>4. ex \in Reads
    BY <1>3 DEF Reads, Utf8Ok
<1>5. /\ Recorded(seen, i, ex) \in [0..i -> Reads]
      /\ Recorded(seen, i, ex)[i] = ex
      /\ \A j \in 0..(i - 1) : Recorded(seen, i, ex)[j] = seen[j]
    BY <1>1, <1>2, <1>4, RecordNext DEF ReadsSoFar
<1>6. seen' = Recorded(seen, i, ex) /\ UNCHANGED <<outer, utf8, writes>>
    BY DEF ValidateStr
<1>7. /\ er \in {SliceOk(ev)} \cup {SliceErr(e) : e \in StrErrors}
      /\ er.tag \in {"Ok", "Err"}
      /\ er.tag = "Ok" <=> Meets(ex)
      /\ er.tag = "Ok" => er = SliceOk(ev)
      /\ er.tag = "Err" =>
            /\ StrErrorIntoErr(er.val) = CauseCode(ev, Utf8Ok(ev, utf8))
            /\ StrErrorIntoErr(er.val) # 0
    BY <1>3, StrVerdict
<1>8. CASE er.tag = "Err"
    <2>1. result' = er /\ kpc' = "done" /\ UNCHANGED <<mem, i>>
        BY <1>8 DEF ValidateStr
    <2>2. FailedAt(i)'
        <3>1. /\ seen' \in [0..i -> Reads]
              /\ \A j \in 0..(i - 1) : Meets(seen'[j])
            BY <1>1, <1>5, <1>6 DEF ReadsSoFar
        <3>2. seen'[i] = ex
            BY <1>5, <1>6
        <3>3. CauseCode(seen'[i].str, seen'[i].utf8) = CauseCode(ev, Utf8Ok(ev, utf8))
            <4>1. seen'[i].str = ev
                BY <3>2
            <4>2. seen'[i].utf8 <=> Utf8Ok(ev, utf8)
                BY <3>2
            <4>3. QED
                BY <4>1, <4>2 DEF CauseCode
        <3>4. /\ StrErrorIntoErr(result'.val) = CauseCode(ev, Utf8Ok(ev, utf8))
              /\ StrErrorIntoErr(result'.val) # 0
            BY <1>7, <1>8, <2>1
        <3>5. QED
            BY <2>1, <3>1, <3>3, <3>4 DEF FailedAt
    <2>3. result' \in {SliceErr(e) : e \in StrErrors}
        <3>1. SliceOk(ev).tag = "Ok"
            BY DEF SliceOk
        <3>2. QED
            BY <1>7, <1>8, <2>1, <3>1
    <2>4. TypeOK'
        <3>1. /\ DOMAIN seen' \subseteq ElemIdx
              /\ \A j \in DOMAIN seen' : seen'[j] \in [str : Inner, utf8 : BOOLEAN]
            BY <1>1, <1>2, <1>5, <1>6 DEF ElemIdx, Reads
        <3>2. i' \in 0..MaxOuterLen
            BY <1>2, <2>1 DEF IInv, TypeOK
        <3>3. QED
            BY <1>6, <2>1, <2>3, <3>1, <3>2 DEF IInv, TypeOK
    <2>5. LoopInv'
        BY <1>1, <1>6, <1>8, <2>1, <2>2 DEF LoopInv, OuterOK
    <2>6. QED
        BY <2>4, <2>5 DEF IInv
<1>9. CASE er.tag = "Ok"
    <2>1. /\ mem' = [mem EXCEPT ![i] = Unwrap(er)]
          /\ i' = i + 1 /\ result' = result /\ kpc' = kpc
        BY <1>9 DEF ValidateStr
    <2>2. Unwrap(er) = ev /\ Meets(ex)
        BY <1>7, <1>9 DEF Unwrap, SliceOk
    <2>3. ReadsSoFar(i)'
        BY <1>1, <1>2, <1>5, <1>6, <2>1, <2>2 DEF ReadsSoFar
    <2>4. TypeOK'
        <3>1. /\ DOMAIN seen' \subseteq ElemIdx
              /\ \A j \in DOMAIN seen' : seen'[j] \in [str : Inner, utf8 : BOOLEAN]
            BY <1>1, <1>2, <1>5, <1>6 DEF ElemIdx, Reads
        <3>2. i' \in 0..MaxOuterLen
            BY <1>1, <1>2, <2>1
        <3>3. mem' \in [ElemIdx -> Inner]
            BY <1>3, <2>1, <2>2 DEF IInv, TypeOK
        <3>4. QED
            BY <1>6, <2>1, <3>1, <3>2, <3>3 DEF IInv, TypeOK
    <2>5. LoopInv'
        BY <1>1, <1>2, <1>6, <2>1, <2>3 DEF IInv, LoopInv, OuterOK
    <2>6. QED
        BY <2>4, <2>5 DEF IInv
<1>10. QED
    BY <1>7, <1>8, <1>9

LEMMA LoopDoneIInv == IInv /\ LoopDone => IInv'
<1> SUFFICES ASSUME IInv, LoopDone PROVE IInv'
    OBVIOUS
<1>1. OuterOK /\ i = outer.len /\ ReadsSoFar(i)
    BY DEF IInv, LoopInv, LoopDone, TypeOK, SliceVal
<1>2. QED
    BY <1>1 DEF IInv, TypeOK, LoopInv, LoopDone, OuterOK, ReadsSoFar, SliceOk

LEMMA RewriteIInv ==
    ASSUME NEW s \in Inner, NEW b \in BOOLEAN, IInv, Rewrite(s.ptr, b)
    PROVE  IInv'
<1>1. s.ptr \in Usize
    BY DEF SliceVal
<1>2. TypeOK'
    <2>1. utf8' \subseteq Usize
        BY <1>1 DEF IInv, TypeOK, Rewrite
    <2>2. writes' \in 0..MaxWrites
        BY DEF IInv, TypeOK, Rewrite
    <2>3. QED
        BY <2>1, <2>2 DEF IInv, TypeOK, Rewrite
<1>3. LoopInv'
    BY DEF IInv, LoopInv, Rewrite, OuterOK, ReadsSoFar, FailedAt, Meets
<1>4. QED
    BY <1>2, <1>3 DEF IInv

LEMMA NextIInv == IInv /\ [Next]_vars => IInv'
<1> SUFFICES ASSUME IInv, [Next]_vars PROVE IInv'
    OBVIOUS
<1>1. CASE RootRejected
    BY <1>1, RootRejectedIInv
<1>2. CASE RootAccepted
    BY <1>2, RootAcceptedIInv
<1>3. CASE ValidateStr
    BY <1>3, ValidateStrIInv
<1>4. CASE LoopDone
    BY <1>4, LoopDoneIInv
<1>5. CASE \E s \in Inner, b \in BOOLEAN : Rewrite(s.ptr, b)
    BY <1>5, RewriteIInv
<1>6. CASE UNCHANGED vars
    BY <1>6 DEF vars, IInv, TypeOK, LoopInv, OuterOK, ReadsSoFar, FailedAt, Meets
<1>7. QED
    BY <1>1, <1>2, <1>3, <1>4, <1>5, <1>6 DEF Next

LEMMA SpecIInv == Spec => []IInv
BY InitIInv, NextIInv, PTL DEF Spec
\* The invariant gives the two properties the nested_str run checks.
LEMMA IInvProperties == IInv => ReadsValidated /\ ErrorCodeMatchesCause
<1> SUFFICES ASSUME IInv PROVE ReadsValidated /\ ErrorCodeMatchesCause
    OBVIOUS
<1>1. ReadsValidated
    <2> SUFFICES ASSUME kpc = "done", result.tag = "Ok"
                 PROVE  ReadsValidated
        BY DEF ReadsValidated
    <2>1. OuterOK /\ i = outer.len /\ ReadsSoFar(i)
        BY DEF IInv, LoopInv
    <2>2. InBuffer = 0..(outer.len - 1)
        BY <2>1, OuterFits DEF IInv, TypeOK
    <2>3. QED
        BY <2>1, <2>2 DEF ReadsValidated, ReadsSoFar, OuterOK, Meets
<1>2. ErrorCodeMatchesCause
    <2> SUFFICES ASSUME kpc = "done", result.tag = "Err", DOMAIN seen # {}
                 PROVE  ErrorCodeMatchesCause
        BY DEF ErrorCodeMatchesCause
    <2>1. OuterOK /\ i < outer.len /\ FailedAt(i)
        BY DEF IInv, LoopInv
    <2>2. i \in Nat /\ i \in DOMAIN seen /\ DOMAIN seen = 0..i
        BY <2>1 DEF IInv, TypeOK, FailedAt
    <2>3. \A j \in 0..(i - 1) : CauseCode(seen[j].str, seen[j].utf8) = 0
        <3>1. TAKE j \in 0..(i - 1)
        <3>2. seen[j] \in Reads /\ Meets(seen[j])
            BY <2>1, <2>2 DEF FailedAt
        <3>3. QED
            BY <3>2, MeetsIffNoCause
    <2>4. QED
        BY <2>1, <2>2, <2>3 DEF ErrorCodeMatchesCause, FailedAt
<1>3. QED
    BY <1>1, <1>2

\* Whatever the caller's other thread writes into the strings, and for every
\* instance of the constants: the model of try_into_str_slices_mut stays
\* well typed.
THEOREM StrTypeCorrect == Spec => []TypeOK
BY SpecIInv, PTL DEF IInv

\* An Ok return of try_into_str_slices_mut means the outer slice passed its
\* checks and every string of the buffer was read, passed the slice checks
\* and held UTF-8 when read, however the other thread rewrote the bytes.
THEOREM StrReadsValidatedCorrect == Spec => []ReadsValidated
BY SpecIInv, IInvProperties, PTL

\* An Err return of try_into_str_slices_mut after strings were read carries
\* (through into_err) the ErrorStatus of the first failing string's cause,
\* with every earlier string valid and none after it read.
THEOREM ErrorCodeMatchesCauseCorrect == Spec => []ErrorCodeMatchesCause
BY SpecIInv, IInvProperties, PTL
=============================================================================
