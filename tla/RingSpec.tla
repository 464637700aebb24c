------------------------------ MODULE RingSpec ------------------------------
(***************************************************************************)
(* What a ring promises: a queue without a limit, first in, first out.     *)
(***************************************************************************)
EXTENDS Sequences

CONSTANT Items
VARIABLES queue,   \* the elements, the oldest first
          out      \* what the last call returned

Push(x) == queue' = Append(queue, x) /\ out' = out

Pop == queue # <<>> /\ out' = queue[1] /\ queue' = Tail(queue)

\* The oldest or the youngest element is looked at.
Peek == queue # <<>> /\ out' \in {queue[1], queue[Len(queue)]} /\ queue' = queue

Next == (\E x \in Items : Push(x)) \/ Pop \/ Peek

Spec == queue = <<>> /\ [][Next]_<<queue, out>>
=============================================================================
