---------------------------- MODULE MCNestedSlice ----------------------------
(***************************************************************************)
(* NestedSlice for TLC: a 4-bit address space (isize::MAX = 7), T with     *)
(* size and alignment 2, word-aligned outer elements, a validator that     *)
(* accepts addresses 2..9, outer buffers of up to two elements, and one    *)
(* inner slice of each kind: valid, null, misaligned, rejected by the      *)
(* validator, count above isize::MAX, count whose byte size overflows      *)
(* isize, and a range that runs past the accepted memory.                  *)
(***************************************************************************)
EXTENDS NestedSlice

S(p, l) == [ptr |-> p, len |-> l]

MCIsizeMax == 7
MCU16Mod == 64
MCMapped == 2..9
MCOuterHeaders == {S(4, 2), S(4, 1), S(4, 0), S(0, 2), S(5, 2), S(12, 1), S(4, 8)}
MCInner == {S(2, 2), S(6, 1), S(0, 1), S(3, 1), S(12, 1), S(2, 8), S(4, 7), S(8, 2)}
=============================================================================
