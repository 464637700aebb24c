------------------------------- MODULE MCIpc -------------------------------
(* Instances of Ipc for TLC. *)
EXTENDS Ipc, TLC

CONSTANTS s1, s2, c1, c2

\* The clients are interchangeable.
MCSymmetry == Permutations({c1, c2})
=============================================================================
