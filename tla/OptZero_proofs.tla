----------------------------- MODULE OptZero_proofs -----------------------------
(***************************************************************************)
(* Proofs about the zero-sentinel optional for every NotZeroable type T    *)
(* allowed by OptZeroAssumption: its bit patterns, its zeroed value, its   *)
(* is_zero and the closures passed to map.  A value a sender converted     *)
(* with from_option reads back with into_option as the Option it came      *)
(* from, except that a present zero payload reads as absent.              *)
(***************************************************************************)
EXTENDS OptZero, TLAPS

USE OptZeroAssumption

\* into_option undoes from_option, up to the zero collision.
LEMMA IntoFromOption ==
    ASSUME NEW o \in Options
    PROVE  IntoOption(FromOption(o)) = Expected(o)
<1>1. CASE o = None
    BY <1>1 DEF IntoOption, FromOption, Expected, None
<1>2. CASE o # None
    <2>1. PICK x \in Values : o = Some(x)
        BY <1>2 DEF Options
    <2>2. FromOption(o) = x
        BY <2>1 DEF FromOption, Some
    <2>3. QED
        BY <2>1, <2>2 DEF IntoOption, Expected, Some
<1>3. QED
    BY <1>1, <1>2

\* The checked factory returns an Option<T>.
LEMMA NewOption ==
    ASSUME NEW v \in Values
    PROVE  New(v) \in Options
BY DEF New, Options

\* OptZero::map keeps the payload a T, and Option::map an Option<T>.
LEMMA MapTyped ==
    ASSUME NEW b \in Values, NEW f \in Fns
    PROVE  /\ Map(b, f) \in Values
           /\ OptionMap(IntoOption(b), f) \in Options
<1>1. f \in [Values -> Values]
    OBVIOUS
<1>2. f[b] \in Values
    BY <1>1
<1>3. Map(b, f) \in Values
    BY <1>2 DEF Map
<1>4. CASE IsZero(b)
    <2>1. IntoOption(b) = None
        BY <1>4, Zenon DEF IntoOption
    <2>2. OptionMap(None, f) = None
        BY DEF OptionMap, None
    <2>3. QED
        BY <1>3, <2>1, <2>2 DEF Options
<1>5. CASE ~IsZero(b)
    <2>1. IntoOption(b) = Some(b)
        BY <1>5 DEF IntoOption
    <2>2. OptionMap(IntoOption(b), f) = Some(f[b])
        BY <2>1 DEF OptionMap, Some
    <2>3. Some(f[b]) \in {Some(x) : x \in Values}
        BY <1>2
    <2>4. QED
        BY <1>3, <2>2, <2>3 DEF Options
<1>6. QED
    BY <1>3, <1>4, <1>5

(***************************************************************************)
(* The inductive invariant: while a sender's value is on the wire or has   *)
(* been read, the bits are from_option of the Option it sent; a decoded    *)
(* value is into_option of the bits.                                       *)
(***************************************************************************)
SenderBits == (origin = "sender" /\ phase # "idle") => bits = FromOption(sent)

DecodedRead == phase = "decoded" => received = IntoOption(bits)

IInv == TypeOK /\ SenderBits /\ DecodedRead

LEMMA InitIInv == Init => IInv
BY DEF Init, IInv, TypeOK, SenderBits, DecodedRead, Options

LEMMA NextIInv == IInv /\ [Next]_vars => IInv'
<1> SUFFICES ASSUME IInv, [Next]_vars PROVE IInv'
    OBVIOUS
<1>1. ASSUME NEW o \in Options, SendFromOption(o) PROVE IInv'
    BY <1>1 DEF SendFromOption, IInv, TypeOK, SenderBits, DecodedRead, FromOption,
       Options, None, Some
<1>2. ASSUME NEW v \in Values, SendNew(v) PROVE IInv'
    <2>1. New(v) \in Options
        BY NewOption
    <2>2. FromOption(New(v)) \in Values
        BY <2>1 DEF FromOption, Options, None, Some
    <2>3. QED
        BY <1>2, <2>1, <2>2 DEF SendNew, IInv, TypeOK, SenderBits, DecodedRead
<1>3. ASSUME NEW v \in Values, SendForeign(v) PROVE IInv'
    BY <1>3 DEF SendForeign, IInv, TypeOK, SenderBits, DecodedRead
<1>4. CASE RecvIntoOption
    BY <1>4 DEF RecvIntoOption, IInv, TypeOK, SenderBits, DecodedRead, IntoOption,
       Options, None, Some
<1>5. CASE RecvNonZero
    BY <1>5 DEF RecvNonZero, IInv, TypeOK, SenderBits, DecodedRead, IntoOption,
       Options, None, Some
<1>6. ASSUME NEW f \in Fns, RecvMap(f) PROVE IInv'
    <2>1. Map(bits, f) \in Values /\ OptionMap(IntoOption(bits), f) \in Options
        BY MapTyped DEF IInv, TypeOK
    <2>2. QED
        BY <1>6, <2>1 DEF RecvMap, IInv, TypeOK, SenderBits, DecodedRead, IntoOption,
           Options, None, Some
<1>7. CASE UNCHANGED vars
    BY <1>7 DEF vars, IInv, TypeOK, SenderBits, DecodedRead
<1>8. QED
    BY <1>1, <1>2, <1>3, <1>4, <1>5, <1>6, <1>7 DEF Next

LEMMA SpecIInv == Spec => []IInv
BY InitIInv, NextIInv, PTL DEF Spec

\* The invariant gives the round trip: a decoded sender value is
\* into_option(from_option(sent)).
LEMMA IInvRoundTrip == IInv => SenderRoundTrip
<1> SUFFICES ASSUME IInv, origin = "sender", phase = "decoded"
             PROVE  received = Expected(sent)
    BY DEF SenderRoundTrip
<1>1. received = IntoOption(FromOption(sent)) /\ sent \in Options
    BY DEF IInv, TypeOK, SenderBits, DecodedRead
<1>2. QED
    BY <1>1, IntoFromOption

\* For every NotZeroable type and every set of map closures, the gate's
\* state stays well typed.
THEOREM OptZeroTypeCorrect == Spec => []TypeOK
BY SpecIInv, PTL DEF IInv

\* For every NotZeroable type: an Option a sender converted with
\* from_option (or built with the checked new) reads back with into_option
\* as itself, a present zero payload excepted, which reads as None.
THEOREM SenderRoundTripCorrect == Spec => []SenderRoundTrip
BY SpecIInv, IInvRoundTrip, PTL
=============================================================================
