------------------------------ MODULE MCOptZero ------------------------------
(***************************************************************************)
(* OptZero for TLC with T = ShouldNotBeZero of a small unsigned type:   *)
(* payloads 0..9, zero the integer 0, and three closures for map: the    *)
(* identity, a successor that wraps to 0, and a predecessor reaching 0.  *)
(***************************************************************************)
EXTENDS OptZero

MCValues == 0..9
MCIsZero(v) == v = 0
MCNonZeroOf(v) == v
MCFns == {[x \in 0..9 |-> x], [x \in 0..9 |-> (x + 1) % 10],
          [x \in 0..9 |-> IF x = 0 THEN 0 ELSE x - 1]}
=============================================================================
