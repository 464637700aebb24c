------------------------------- MODULE MCPmm -------------------------------
(* Memory maps for TLC. *)
EXTENDS Pmm, TLC

Entry(s, l, f) == [start |-> s, len |-> l, free |-> f]

\* A hole, a free entry too small for a section, one whose section ends behind
\* it, where the next entry begins, and one whose tail is cut.
MCMap == <<Entry(0, 2, TRUE), Entry(2, 2, FALSE), Entry(4, 1, TRUE),
           Entry(5, 4, TRUE), Entry(9, 5, TRUE)>>

Symmetry == Permutations(Memories)
============================================================================
