------------------------------- MODULE OptZero -------------------------------
(***************************************************************************)
(* The zero-sentinel optional (ffi/option.rs OptZero<T>) over the types    *)
(* that implement NotZeroable: ShouldNotBeZero<int> (ffi/num.rs), whose    *)
(* zero is the integer 0, FFINonNull<T> (ffi/ptr.rs), whose zero is null,  *)
(* and Slice<T>/Str (ffi/slice.rs, ffi/str.rs), whose zero is any slice    *)
(* with a null pointer.  T is a parameter: Values are its bit patterns,    *)
(* Zeroed is the all-zero pattern and IsZero its NotZeroable::is_zero.     *)
(*                                                                         *)
(* One value crosses the gate: a sender builds the OptZero from an Option  *)
(* (possibly made by the checked factory new), or a foreign sender writes  *)
(* any bits; the receiver reads it with into_option, with map, or, for     *)
(* ShouldNotBeZero, through From<OptZero<..>> for Option<NonZero<..>>,     *)
(* which calls NonZero::new_unchecked on the payload.                      *)
(***************************************************************************)
EXTENDS Integers

CONSTANTS
    Values,      \* the bit patterns of T
    Zeroed,      \* core::mem::zeroed::<T>()
    IsZero(_),   \* NotZeroable::is_zero
    NonZeroOf(_),\* the integer NonZero::new_unchecked receives for a payload
    Fns          \* the closures a receiver may pass to map, as functions

\* mem::zeroed() reads as zero for every NotZeroable type of the ABI.
ASSUME OptZeroAssumption ==
    /\ Zeroed \in Values
    /\ IsZero(Zeroed) = TRUE
    /\ \A v \in Values : IsZero(v) \in BOOLEAN
    /\ Fns \subseteq [Values -> Values]

None == [some |-> FALSE, val |-> Zeroed]
Some(x) == [some |-> TRUE, val |-> x]

\* Option<T>.
Options == {None} \cup {Some(x) : x \in Values}

\* ShouldNotBeZero::new / FFINonNull::new: None for a zero value.
New(v) == IF IsZero(v) THEN None ELSE Some(v)

\* Mutation: none() built from an all-ones sentinel rather than zeroed().
FromOption_sentinel(o) == IF o.some THEN o.val ELSE Zeroed - 1

\* OptZero::from_option: None -> none() (zeroed bits), Some(x) -> some(x).
FromOption(o) == IF o.some THEN o.val ELSE Zeroed

\* Mutation: into_option without the is_zero test.
IntoOption_unchecked(bits) == Some(bits)

\* OptZero::into_option (and as_option, From<OptZero<T>> for Option<T>).
IntoOption(bits) == IF IsZero(bits) THEN None ELSE Some(bits)

\* OptZero::map: f applied only when present, the result wrapped by some().
Map(bits, f) == IF IsZero(bits) THEN Zeroed ELSE f[bits]

\* Option::map on the receiver's side, the reference for OptZero::map.
OptionMap(o, f) == IF o.some THEN Some(f[o.val]) ELSE None

VARIABLES
    phase,     \* "idle", "onwire", "decoded"
    origin,    \* "none", "sender" or "foreign"
    sent,      \* the Option<T> the sender converted
    bits,      \* the T bits on the wire
    received,  \* what the receiver obtained
    nonzero,   \* the NonZero conversion: "none", "ok" or "ub" (new_unchecked(0))
    mapped     \* ghost: Option::map of what the receiver read, when it maps

vars == <<phase, origin, sent, bits, received, nonzero, mapped>>

Init ==
    /\ phase = "idle"
    /\ origin = "none"
    /\ sent = None
    /\ bits = Zeroed
    /\ received = None
    /\ nonzero = "none"
    /\ mapped = None

\* A sender converts an Option<T> with OptZero::from_option.
SendFromOption(o) ==
    /\ phase = "idle"
    /\ phase' = "onwire"
    /\ origin' = "sender"
    /\ sent' = o
    /\ bits' = FromOption(o)
    /\ UNCHANGED <<received, nonzero, mapped>>

\* A sender builds the payload with the checked factory and converts it.
SendNew(v) ==
    /\ phase = "idle"
    /\ phase' = "onwire"
    /\ origin' = "sender"
    /\ sent' = New(v)
    /\ bits' = FromOption(New(v))
    /\ UNCHANGED <<received, nonzero, mapped>>

\* A foreign sender writes any bits in the OptZero's place.
SendForeign(b) ==
    /\ phase = "idle"
    /\ phase' = "onwire"
    /\ origin' = "foreign"
    /\ bits' = b
    /\ UNCHANGED <<sent, received, nonzero, mapped>>

\* The receiver reads the value with into_option.
RecvIntoOption ==
    /\ phase = "onwire"
    /\ phase' = "decoded"
    /\ received' = IntoOption(bits)
    /\ UNCHANGED <<origin, sent, bits, nonzero, mapped>>

\* From<OptZero<ShouldNotBeZero<T>>> for Option<NonZero<T>>: into_option,
\* then NonZero::new_unchecked(value.value()) on a present payload.
RecvNonZero ==
    /\ phase = "onwire"
    /\ phase' = "decoded"
    /\ received' = IntoOption(bits)
    /\ nonzero' = IF ~IntoOption(bits).some THEN "none"
                  ELSE IF NonZeroOf(bits) = 0 THEN "ub" ELSE "ok"
    /\ UNCHANGED <<origin, sent, bits, mapped>>

\* The receiver maps the value with OptZero::map(f) and reads the result.
RecvMap(f) ==
    /\ phase = "onwire"
    /\ phase' = "mapped"
    /\ received' = IntoOption(Map(bits, f))
    /\ mapped' = OptionMap(IntoOption(bits), f)
    /\ UNCHANGED <<origin, sent, bits, nonzero>>

Next ==
    \/ \E o \in Options : SendFromOption(o)
    \/ \E v \in Values : SendNew(v) \/ SendForeign(v)
    \/ RecvIntoOption
    \/ RecvNonZero
    \/ \E f \in Fns : RecvMap(f)

Spec == Init /\ [][Next]_vars

-----------------------------------------------------------------------------
(***************************************************************************)
(* Properties.                                                             *)
(***************************************************************************)

TypeOK ==
    /\ phase \in {"idle", "onwire", "decoded", "mapped"}
    /\ origin \in {"none", "sender", "foreign"}
    /\ sent \in Options
    /\ bits \in Values
    /\ received \in Options
    /\ nonzero \in {"none", "ok", "ub"}
    /\ mapped \in Options

\* What the sender's Option reads as on the other side: itself, except
\* the documented collision that a present zero payload reads as absent.
Expected(o) == IF o.some /\ IsZero(o.val) THEN None ELSE o

\* A value a sender converted reads back on the receiver's side as the
\* Option it came from, up to the documented zero collision: None stays
\* None (zeroed bits are zero) and a non-zero payload stays itself.
SenderRoundTrip ==
    (origin = "sender" /\ phase = "decoded") => received = Expected(sent)

\* The spec: map "applies f only if present"; reading the mapped value is
\* Option::map of the value read before mapping.
MapAgreesWithOption ==
    phase = "mapped" => received = mapped
=============================================================================
