---------------------------- MODULE IpcQueueSpec ----------------------------
(***************************************************************************)
(* What an IPC endpoint promises about its messages: one queue.  Messages  *)
(* are numbered in the order in which they were accepted, and each of them *)
(* is handed out once, the oldest first, whether it was sent to be waited  *)
(* for or not.                                                             *)
(***************************************************************************)
EXTENDS Integers

VARIABLES pending,  \* the numbers of the messages accepted and not handed out
          clock     \* the number of the next message

Init == pending = {} /\ clock = 1

Accept ==
    /\ pending' = pending \cup {clock}
    /\ clock' = clock + 1

HandOut ==
    /\ \E m \in pending :
          /\ \A n \in pending : m <= n
          /\ pending' = pending \ {m}
    /\ UNCHANGED clock

Next == Accept \/ HandOut

Spec == Init /\ [][Next]_<<pending, clock>>
=============================================================================
