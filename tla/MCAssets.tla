------------------------------ MODULE MCAssets ------------------------------
(* Constants for model checking module Assets. *)
EXTENDS Assets, TLC

CONSTANTS s1, s2, c1, c2

MCAddress == (s1 :> 1) @@ (s2 :> 2)

\* The contexts have the same roles.
MCSymmetry == Permutations({c1, c2})
=============================================================================
