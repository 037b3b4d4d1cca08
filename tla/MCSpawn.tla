-------------------------------- MODULE MCSpawn --------------------------------
(***************************************************************************)
(* Spawn for TLC.  The stdio part is MCStdio's instance (u32 scaled to     *)
(* 0..3, ids 0 and 3, foreign payloads 1 and 5).  A Rust &str or slice     *)
(* header is non-null even when empty (a dangling, aligned pointer); a     *)
(* foreign header may be null with a non-zero length.  CPU 0 is the boot   *)
(* CPU, the reason the cpu field is a COption.  Foreign records carry      *)
(* every revision 1..3 and a priority byte (4) that is no variant.         *)
(***************************************************************************)
EXTENDS Spawn

MCPayloads == {1, 5}
MCRustHeaders == {[ptr |-> 4, len |-> 0]}
MCForeignHeaders == {[ptr |-> 4, len |-> 0], [ptr |-> 0, len |-> 3]}
=============================================================================
