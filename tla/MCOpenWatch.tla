----------------------------- MODULE MCOpenWatch -----------------------------
(***************************************************************************)
(* Small instances of OpenWatch for TLC.                                   *)
(***************************************************************************)
EXTENDS OpenWatch, TLC

\* Model values, given in the configurations.
CONSTANTS a, b, t, v1, v2

MCTagOf == [n \in Names |-> t]

\* Passes differ only in what they are asked to do.
MCSymmetry == Permutations(Passes)
=============================================================================
