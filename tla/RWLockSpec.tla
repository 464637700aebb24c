----------------------------- MODULE RWLockSpec -----------------------------
(***************************************************************************)
(* What a reader-writer lock promises its callers (the comment at the head *)
(* of class RWLock, src/src/libcore/lock/rwlock.hpp:13-17): at any time    *)
(* either one writer or any number of readers hold the lock, and a writer  *)
(* may turn into a reader without letting another writer in between.       *)
(***************************************************************************)
CONSTANT Proc       \* the contexts (tasks, interrupt handlers) using the lock

VARIABLES writing,  \* the contexts that hold the lock for writing
          reading   \* the contexts that hold the lock for reading

vars == <<writing, reading>>

Init == writing = {} /\ reading = {}

AcquireWrite(p) ==
    /\ writing = {} /\ reading = {}
    /\ writing' = {p}
    /\ UNCHANGED reading

AcquireRead(p) ==
    /\ writing = {} /\ p \notin reading
    /\ reading' = reading \cup {p}
    /\ UNCHANGED writing

\* One step: the writer is a reader in the very state in which it stops
\* being the writer.
Downgrade(p) ==
    /\ p \in writing
    /\ writing' = writing \ {p}
    /\ reading' = reading \cup {p}

ReleaseWrite(p) ==
    /\ p \in writing
    /\ writing' = writing \ {p}
    /\ UNCHANGED reading

ReleaseRead(p) ==
    /\ p \in reading
    /\ reading' = reading \ {p}
    /\ UNCHANGED writing

Next == \E p \in Proc : \/ AcquireWrite(p) \/ AcquireRead(p) \/ Downgrade(p)
                        \/ ReleaseWrite(p) \/ ReleaseRead(p)

Spec == Init /\ [][Next]_vars
=============================================================================
