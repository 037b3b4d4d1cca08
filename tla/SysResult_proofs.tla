--------------------------- MODULE SysResult_proofs ---------------------------
(***************************************************************************)
(* Proofs about SysResult for every word width and u16 width allowed by    *)
(* the assumptions: the model stays well typed, and every word a kernel    *)
(* constructor puts on the wire decodes to the Result the handler meant.   *)
(***************************************************************************)
EXTENDS SysResult, TLAPS

USE IsizeMaxAssumption, OverflowChecksAssumption, U16ModAssumption,
    WidthAssumption DEF IsizeMin, Isize, UsizeMax, Usize, ErrorStatus, MAX

\* err followed by into_result gives back the ErrorStatus.
LEMMA ErrRoundTrip ==
    ASSUME NEW e \in ErrorStatus
    PROVE  /\ err(e) \in Isize
           /\ into_result(err(e)) = Err(e)
<1>1. err(e) < 0 /\ ~NegOverflows(err(e)) /\ WrappingNeg(err(e)) = e
    BY DEF err, NegOverflows, WrappingNeg, MAX
<1>2. AsU16(e) = e
    BY DEF AsU16, MAX
<1>3. FromU16(e) = e
    BY DEF FromU16, TryFromU16Ok
<1>4. QED
    BY <1>1, <1>2, <1>3 DEF into_result, err, MAX

\* try_ok refuses exactly the payloads above isize::MAX, and a word it
\* produces decodes back to the payload.
LEMMA TryOkRoundTrip ==
    ASSUME NEW v \in Usize
    PROVE  /\ try_ok(v).tag \in {"Ok", "Err"}
           /\ try_ok(v).tag = "Err" <=> v > IsizeMax
           /\ try_ok(v).tag = "Ok" =>
                 /\ try_ok(v).val \in Isize
                 /\ into_result(try_ok(v).val) = Ok(v)
<1>1. CASE v > IsizeMax
    <2>1. AsIsize(v) < 0
        BY <1>1 DEF AsIsize
    <2>2. QED
        BY <1>1, <2>1 DEF try_ok, Err
<1>2. CASE v <= IsizeMax
    <2>1. AsIsize(v) = v
        BY <1>2 DEF AsIsize
    <2>2. into_result(v) = Ok(v)
        BY DEF into_result
    <2>3. QED
        BY <1>2, <2>1, <2>2 DEF try_ok, Ok
<1>3. QED
    BY <1>1, <1>2

\* into_result of any word lies in Results.
LEMMA DecodeTyped ==
    ASSUME NEW w \in Isize
    PROVE  into_result(w) \in Results
<1>1. CASE w >= 0
    BY <1>1 DEF into_result, Results
<1>2. CASE w < 0
    <2>0. WrappingNeg(w) \in Int
        BY DEF WrappingNeg
    <2>1. AsU16(WrappingNeg(w)) \in 0..(U16Mod - 1)
        BY <2>0, U16Mod > 0 DEF AsU16
    <2>2. FromU16(AsU16(WrappingNeg(w))) \in 0..U16Mod
        BY <2>1 DEF FromU16, TryFromU16Ok, Unknown, MAX
    <2>3. QED
        BY <1>2, <2>2 DEF into_result, Results
<1>3. QED
    BY <1>1, <1>2

-----------------------------------------------------------------------------
(***************************************************************************)
(* What every kernel constructor guarantees of the outcome c it gives for  *)
(* the Result r: a word on the wire decodes to r, and a refusal or panic   *)
(* happens only for an Ok payload above isize::MAX.                        *)
(***************************************************************************)
ConstructorFaithful(r, c) ==
    /\ r \in KernelResult
    /\ c.tag \in {"Ok", "Err", "Panic"}
    /\ c.tag = "Ok" => c.val \in Isize /\ into_result(c.val) = r
    /\ c.tag # "Ok" => r.tag = "Ok" /\ r.val > IsizeMax

LEMMA ErrFaithful ==
    ASSUME NEW e \in ErrorStatus
    PROVE  ConstructorFaithful(Err(e), Ok(err(e)))
BY ErrRoundTrip DEF ConstructorFaithful, KernelResult, Ok, Err

LEMMA TryOkFaithful ==
    ASSUME NEW v \in Usize
    PROVE  ConstructorFaithful(Ok(v), try_ok(v))
BY TryOkRoundTrip DEF ConstructorFaithful, KernelResult, Ok

LEMMA OkFaithful ==
    ASSUME NEW v \in Usize
    PROVE  ConstructorFaithful(Ok(v), ok(v))
<1>1. ConstructorFaithful(Ok(v), try_ok(v))
    BY TryOkFaithful
<1>2. QED
    BY <1>1 DEF ConstructorFaithful, ok, Panic, Ok

LEMMA TryFromResultFaithful ==
    ASSUME NEW r \in KernelResult
    PROVE  ConstructorFaithful(r, try_from_result(r))
<1>1. CASE \E e \in ErrorStatus : r = Err(e)
    BY <1>1, ErrFaithful DEF try_from_result, Err
<1>2. CASE \E v \in Usize : r = Ok(v)
    BY <1>2, TryOkFaithful DEF try_from_result, Ok
<1>3. QED
    BY <1>1, <1>2 DEF KernelResult

LEMMA FromResultFaithful ==
    ASSUME NEW r \in KernelResult
    PROVE  ConstructorFaithful(r, from_result(r))
<1>1. ConstructorFaithful(r, try_from_result(r))
    BY TryFromResultFaithful
<1>2. QED
    BY <1>1 DEF ConstructorFaithful, from_result, Panic

\* A kernel return through a faithful constructor preserves IInv.
LEMMA KernelReturnInv ==
    ASSUME IInv, NEW r, NEW c, ConstructorFaithful(r, c), KernelReturn(r, c)
    PROVE  IInv'
<1>1. TypeOK'
    BY DEF IInv, TypeOK, ConstructorFaithful, KernelReturn
<1>2. KernelWordFaithful'
    BY DEF KernelWordFaithful, ConstructorFaithful, KernelReturn
<1>3. RoundTrip'
    <2>1. phase' \in {"onwire", "rejected", "kpanic"}
        BY DEF ConstructorFaithful, KernelReturn
    <2>2. QED
        BY <2>1 DEF RoundTrip
<1>4. RejectOnlyOversize'
    BY DEF RejectOnlyOversize, ConstructorFaithful, KernelReturn
<1>5. QED
    BY <1>1, <1>2, <1>3, <1>4 DEF IInv

-----------------------------------------------------------------------------
LEMMA InitIInv == Init => IInv
BY DEF Init, IInv, TypeOK, KernelWordFaithful, RoundTrip, RejectOnlyOversize,
       Results, NoResult

LEMMA NextIInv == IInv /\ [Next]_vars => IInv'
<1> SUFFICES ASSUME IInv, [Next]_vars PROVE IInv'
    OBVIOUS
<1>1. ASSUME NEW e \in ErrorStatus, KernelErr(e) PROVE IInv'
    BY <1>1, ErrFaithful, KernelReturnInv DEF KernelErr
<1>2. ASSUME NEW v \in Usize, KernelTryOk(v) PROVE IInv'
    BY <1>2, TryOkFaithful, KernelReturnInv DEF KernelTryOk
<1>3. ASSUME NEW v \in Usize, KernelOk(v) PROVE IInv'
    BY <1>3, OkFaithful, KernelReturnInv DEF KernelOk
<1>4. ASSUME NEW r \in KernelResult, KernelTryFromResult(r) PROVE IInv'
    BY <1>4, TryFromResultFaithful, KernelReturnInv DEF KernelTryFromResult
<1>5. ASSUME NEW r \in KernelResult, KernelFromResult(r) PROVE IInv'
    BY <1>5, FromResultFaithful, KernelReturnInv DEF KernelFromResult
<1>6. ASSUME NEW i \in Isize, ForeignFromIsize(i) PROVE IInv'
    BY <1>6 DEF ForeignFromIsize, IInv, TypeOK, KernelWordFaithful, RoundTrip,
                RejectOnlyOversize
<1>7. CASE IntoResult
    <2>1. into_result(word) \in Results
        BY DecodeTyped DEF IInv, TypeOK
    <2>2. QED
        BY <1>7, <2>1 DEF IntoResult, IInv, TypeOK, KernelWordFaithful,
                          RoundTrip, RejectOnlyOversize
<1>8. CASE UNCHANGED vars
    BY <1>8 DEF vars, IInv, TypeOK, KernelWordFaithful, RoundTrip,
                RejectOnlyOversize
<1>9. QED
    BY <1>1, <1>2, <1>3, <1>4, <1>5, <1>6, <1>7, <1>8 DEF Next

\* The model is well typed in every reachable state, for every width.
THEOREM TypeCorrect == Spec => []TypeOK
<1>1. IInv => TypeOK
    BY DEF IInv
<1>2. QED
    BY InitIInv, NextIInv, <1>1, PTL DEF Spec

\* For every word width and u16 width: whatever constructor a kernel
\* handler uses, a word it puts on the wire decodes through into_result to
\* exactly the Result<usize, ErrorStatus> the handler returned.
THEOREM RoundTripCorrect == Spec => []RoundTrip
<1>1. IInv => RoundTrip
    BY DEF IInv
<1>2. QED
    BY InitIInv, NextIInv, <1>1, PTL DEF Spec

\* For every width: the checked constructors refuse or panic only on an Ok
\* payload above isize::MAX.
THEOREM RejectOnlyOversizeCorrect == Spec => []RejectOnlyOversize
<1>1. IInv => RejectOnlyOversize
    BY DEF IInv
<1>2. QED
    BY InitIInv, NextIInv, <1>1, PTL DEF Spec
-----------------------------------------------------------------------------
(***************************************************************************)
(* Refinement of the abstract gate (module OutcomeGate) in a release       *)
(* build.  Besides IInv the step proof needs that a word on the wire has a *)
(* known producer, and that every word decodes to a Result that fits.      *)
(***************************************************************************)
OriginKnown == phase = "onwire" => origin \in {"kernel", "foreign"}

LEMMA OriginKnownInvariant == Spec => []OriginKnown
<1>1. Init => OriginKnown
    BY DEF Init, OriginKnown
<1>2. OriginKnown /\ [Next]_vars => OriginKnown'
    BY DEF OriginKnown, Next, vars, KernelErr, KernelTryOk, KernelOk,
           KernelTryFromResult, KernelFromResult, KernelReturn,
           ForeignFromIsize, IntoResult
<1>3. QED
    BY <1>1, <1>2, PTL DEF Spec

\* In a release build into_result never panics, and yields a Result the
\* abstract gate lets through.
LEMMA DecodeDeliverable ==
    ASSUME ~OverflowChecks, NEW w \in Isize
    PROVE  into_result(w) \in Gate!Deliverable
<1>1. CASE w >= 0
    BY <1>1 DEF into_result, Gate!Deliverable, Gate!Ok, Ok
<1>2. CASE w < 0
    <2>0. AsU16(WrappingNeg(w)) \in Int
        BY DEF AsU16, WrappingNeg
    <2>1. FromU16(AsU16(WrappingNeg(w))) \in ErrorStatus
        BY <2>0 DEF FromU16, TryFromU16Ok, Unknown
    <2>2. into_result(w) = Err(FromU16(AsU16(WrappingNeg(w))))
        BY <1>2 DEF into_result
    <2>3. QED
        BY <2>1, <2>2 DEF Gate!Deliverable, Gate!Err, Err
<1>3. QED
    BY <1>1, <1>2

\* A kernel return through a faithful constructor is a Send or a Refuse.
LEMMA KernelReturnRefines ==
    ASSUME ~OverflowChecks, NEW r, NEW c, ConstructorFaithful(r, c),
           KernelReturn(r, c)
    PROVE  Gate!GNext
<1>1. CASE c.tag = "Ok"
    <2>1. r \in Gate!Deliverable
        BY <1>1, DecodeDeliverable DEF ConstructorFaithful
    <2>2. Gate!Send(r)
        BY <1>1, <2>1 DEF KernelReturn, Gate!Send, GatePhase, GateMsg
    <2>3. QED
        BY <2>1, <2>2 DEF Gate!GNext
<1>2. CASE c.tag # "Ok"
    <2>1. PICK v \in Usize : r = Ok(v)
        BY <1>2 DEF ConstructorFaithful, KernelResult, Ok, Err
    <2>2. v > IsizeMax
        BY <1>2, <2>1 DEF ConstructorFaithful, Ok
    <2>3. r \in Gate!Oversize
        BY <2>1, <2>2 DEF Gate!Oversize, Gate!Ok, Ok
    <2>4. c.tag \in {"Err", "Panic"}
        BY <1>2 DEF ConstructorFaithful
    <2>5. Gate!Refuse(r)
        BY <2>3, <2>4 DEF KernelReturn, Gate!Refuse, GatePhase, GateMsg
    <2>6. QED
        BY <2>3, <2>5 DEF Gate!GNext
<1>3. QED
    BY <1>1, <1>2

LEMMA StepRefines ==
    ASSUME ~OverflowChecks, IInv, OriginKnown, [Next]_vars
    PROVE  [Gate!GNext]_Gate!gvars
<1>1. ASSUME NEW e \in ErrorStatus, KernelErr(e) PROVE Gate!GNext
    BY <1>1, ErrFaithful, KernelReturnRefines DEF KernelErr
<1>2. ASSUME NEW v \in Usize, KernelTryOk(v) PROVE Gate!GNext
    BY <1>2, TryOkFaithful, KernelReturnRefines DEF KernelTryOk
<1>3. ASSUME NEW v \in Usize, KernelOk(v) PROVE Gate!GNext
    BY <1>3, OkFaithful, KernelReturnRefines DEF KernelOk
<1>4. ASSUME NEW r \in KernelResult, KernelTryFromResult(r) PROVE Gate!GNext
    BY <1>4, TryFromResultFaithful, KernelReturnRefines DEF KernelTryFromResult
<1>5. ASSUME NEW r \in KernelResult, KernelFromResult(r) PROVE Gate!GNext
    BY <1>5, FromResultFaithful, KernelReturnRefines DEF KernelFromResult
<1>6. ASSUME NEW i \in Isize, ForeignFromIsize(i) PROVE Gate!GNext
    <2>1. into_result(i) \in Gate!Deliverable
        BY DecodeDeliverable
    <2>2. Gate!Forge(into_result(i))
        BY <1>6, <2>1 DEF ForeignFromIsize, Gate!Forge, GatePhase, GateMsg
    <2>3. QED
        BY <2>1, <2>2 DEF Gate!GNext
<1>7. CASE IntoResult
    <2>1. into_result(word) \in Gate!Deliverable
        BY DecodeDeliverable DEF IInv, TypeOK
    <2>2. into_result(word) # Panic
        BY <2>1 DEF Gate!Deliverable, Gate!Ok, Gate!Err, Panic
    <2>3. GateMsg = into_result(word)
        BY <1>7 DEF IntoResult, GateMsg, OriginKnown, IInv, KernelWordFaithful
    <2>4. Gate!Deliver
        BY <1>7, <2>2, <2>3 DEF IntoResult, Gate!Deliver, GatePhase, GateMsg
    <2>5. QED
        BY <2>4 DEF Gate!GNext
<1>8. CASE UNCHANGED vars
    BY <1>8 DEF vars, Gate!gvars, GatePhase, GateMsg
<1>9. QED
    BY <1>1, <1>2, <1>3, <1>4, <1>5, <1>6, <1>7, <1>8 DEF Next

\* In a release build, for every word width and u16 width, the outcome
\* word implements the abstract gate: a kernel Result that fits reaches
\* the receiver unchanged, only an oversize Ok payload is refused, and a
\* foreign word decodes, without a panic, to some Result that fits.
THEOREM ImplementsOutcomeGateCorrect ==
    ASSUME ~OverflowChecks
    PROVE  Spec => ImplementsOutcomeGate
<1>1. Spec => [](IInv /\ OriginKnown)
    BY InitIInv, NextIInv, OriginKnownInvariant, PTL DEF Spec
<1>2. Init => Gate!GInit
    BY DEF Init, Gate!GInit, GatePhase, GateMsg, NoResult, Gate!NoResult
<1>3. (IInv /\ OriginKnown) /\ [Next]_vars => [Gate!GNext]_Gate!gvars
    BY StepRefines
<1>4. QED
    BY <1>1, <1>2, <1>3, PTL DEF Spec, ImplementsOutcomeGate
=============================================================================
