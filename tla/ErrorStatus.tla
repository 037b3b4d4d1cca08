----------------------------- MODULE ErrorStatus -----------------------------
(***************************************************************************)
(* The error catalogue of errors.rs: `ErrorStatus`, a #[repr(u16)] enum    *)
(* with the dense discriminants 1..=0x2A, and its numeric decoders.  The   *)
(* catalogue is fixed by the code; only the width of u16 is a constant     *)
(* (U16Mod = 2^16 on the target), so that TLC can reach the truncation of  *)
(* a wider value to u16 with small numbers.                                *)
(***************************************************************************)
EXTENDS Integers

CONSTANT U16Mod

\* ErrorStatus::MAX = NotBound = 0x2A
MAX == 42

ASSUME U16ModAssumption == U16Mod \in Nat /\ MAX < U16Mod

\* The discriminants of ErrorStatus (Generic = 1 .. NotBound = 0x2A).
ErrorStatus == 1..MAX

\* The variants the rest of the core names.
InvalidPtr == 9
InvalidStr == 10
StrTooLong == 11
Unknown == 28

\* `x as u16` for an integer x of a wider type: keep the low 16 bits.
AsU16(x) == x % U16Mod

\* Mutation of try_from_u16: the upper bound off by one.
TryFromU16Ok_offbyone(value) == value > 0 /\ value <= MAX + 1

\* ErrorStatus::try_from_u16 succeeds exactly for 0 < value <= MAX (and
\* then transmutes value, i.e. the variant is the number itself).
TryFromU16Ok(value) == value > 0 /\ value <= MAX

\* ErrorStatus::from_u16: try_from_u16, falling back to Unknown.
FromU16(value) == IF TryFromU16Ok(value) THEN value ELSE Unknown
=============================================================================
