--------------------------- MODULE MCManifestCheck ---------------------------
(***************************************************************************)
(* Small instances of ManifestCheck for TLC.                               *)
(***************************************************************************)
EXTENDS ManifestCheck
=============================================================================
