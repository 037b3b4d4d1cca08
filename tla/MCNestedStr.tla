----------------------------- MODULE MCNestedStr -----------------------------
(***************************************************************************)
(* NestedStr for TLC: a 4-bit address space (isize::MAX = 7), word-aligned *)
(* Str elements (alignment 2), a validator accepting addresses 2..9,       *)
(* arrays of up to two strings, and one string of each kind: well-formed,  *)
(* at an odd address (legal for u8), empty over malformed bytes, malformed, *)
(* null, rejected by the validator and longer than isize::MAX.  The bytes  *)
(* at 2 and 3 are UTF-8 at the start, those at 6 are not.                  *)
(***************************************************************************)
EXTENDS NestedStr

S(p, l) == [ptr |-> p, len |-> l]

MCIsizeMax == 7
MCU16Mod == 64
MCMapped == 2..9
MCOuterHeaders == {S(4, 2), S(4, 1), S(4, 0), S(0, 2), S(5, 2), S(12, 1), S(4, 8)}
MCInner == {S(2, 2), S(3, 1), S(6, 0), S(6, 1), S(0, 1), S(12, 1), S(2, 8)}
MCUtf8Init == {2, 3}
=============================================================================
