-------------------------------- MODULE Word --------------------------------
(***************************************************************************)
(* Machine-word arithmetic of the SafaOS ABI, scaled by one constant.      *)
(* isize and usize share a width; IsizeMax is isize::MAX (2^63 - 1 on the  *)
(* real target, a small value for TLC).  The casts the code performs with  *)
(* `as` are two's-complement reinterpretations and are modelled as such.   *)
(* OverflowChecks is the build profile: TRUE for a debug build, where an   *)
(* arithmetic overflow panics, FALSE for a release build, where it wraps.  *)
(***************************************************************************)
EXTENDS Integers

CONSTANTS IsizeMax, OverflowChecks

ASSUME IsizeMaxAssumption == IsizeMax \in Nat \ {0}
ASSUME OverflowChecksAssumption == OverflowChecks \in BOOLEAN

IsizeMin == -(IsizeMax + 1)
Isize == IsizeMin..IsizeMax
UsizeMax == 2 * IsizeMax + 1
Usize == 0..UsizeMax

\* `u as isize` for a usize u: the upper half of usize reads as negative.
AsIsize(u) == IF u > IsizeMax THEN u - (UsizeMax + 1) ELSE u

\* `-i` on an isize in a release build: -isize::MIN wraps to isize::MIN.
WrappingNeg(i) == IF i = IsizeMin THEN IsizeMin ELSE -i

\* `-i` overflows exactly at isize::MIN.
NegOverflows(i) == i = IsizeMin
=============================================================================
