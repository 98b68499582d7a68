---------------------------- MODULE MCHealthWait ----------------------------
(***************************************************************************)
(* Small instances of HealthWait for TLC.                                  *)
(***************************************************************************)
EXTENDS HealthWait
=============================================================================
