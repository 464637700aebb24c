------------------------------- MODULE MCRing -------------------------------
(* Instances of Ring for TLC. *)
EXTENDS Ring

CONSTANTS a, b
=============================================================================
