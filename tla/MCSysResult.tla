----------------------------- MODULE MCSysResult -----------------------------
(***************************************************************************)
(* SysResult for TLC.  A 8-bit word (isize::MAX = 127) and a 6-bit        *)
(* "u16" (64 values): the catalogue's codes 1..42 fit the narrow type as   *)
(* they fit u16, and the word is wider than the code, as isize is wider    *)
(* than u16 on the target, so every cast of the code meets values that     *)
(* overflow it.  All 256 words and all 256 usize payloads are enumerated.  *)
(***************************************************************************)
EXTENDS SysResult

MCIsizeMax == 127
MCU16Mod == 64
=============================================================================
