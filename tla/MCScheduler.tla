---------------------------- MODULE MCScheduler ----------------------------
(* Instances of Scheduler for TLC. *)
EXTENDS Scheduler, TLC

CONSTANTS t1, t2, t3, i0, i1, i2

MCIdle2 == (0 :> i0) @@ (1 :> i1)
MCIdle3 == (0 :> i0) @@ (1 :> i1) @@ (2 :> i2)
============================================================================
