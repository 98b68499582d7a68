---------------------------- MODULE MCConfigCarry ----------------------------
(***************************************************************************)
(* Small instances of ConfigCarry for TLC.                                 *)
(***************************************************************************)
EXTENDS ConfigCarry
=============================================================================
