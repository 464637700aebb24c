--------------------------- MODULE MCSchedPolicy ---------------------------
(* Instances of SchedPolicy for TLC. *)
EXTENDS SchedPolicy

CONSTANTS t1, t2, t3

MCTasks == {t1, t2, t3}
=============================================================================
