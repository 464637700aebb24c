------------------------------ MODULE MCRWLock ------------------------------
(* Instances of RWLock for TLC. *)
EXTENDS RWLock

CONSTANTS p1, p2, p3

MCProc == {p1, p2, p3}
=============================================================================
