------------------------------- MODULE RWLock -------------------------------
(***************************************************************************)
(* fc::RWLock (src/src/libcore/lock/rwlock.hpp) and its kernel variant     *)
(* SRWLock (src/src/kernel/generic/smart_lock.hpp): three counters guarded *)
(* by one spin lock, _access_lock.                                         *)
(*                                                                         *)
(* A context in Proc is a task or an interrupt handler.  It runs one       *)
(* operation after the other; pc names the point it has reached.  Every    *)
(* critical section of _access_lock takes two steps, one that wins the     *)
(* spin lock and one that runs the body and releases it, so that any other *)
(* context may act in between: a try_lock may fail there, and              *)
(* read_release, which does not take _access_lock, may decrement _readers. *)
(***************************************************************************)
EXTENDS Integers, FiniteSets

CONSTANTS Proc,     \* the contexts that use the lock
          NoProc,   \* "_access_lock is free"
          IniRetry  \* ini_retry of try_write_acquire (3 in the code)

ASSUME ProcAssumption == IsFiniteSet(Proc) /\ NoProc \notin Proc
ASSUME RetryAssumption == IniRetry \in Nat \ {0}

VARIABLES access,   \* _access_lock: its owner, or NoProc
          readers,  \* _readers
          writers,  \* _writers
          waiters,  \* _waiters
          pc,       \* where each context is
          retry     \* try_write_acquire's retry; 0 in an acquire with no limit

vars == <<access, readers, writers, waiters, pc, retry>>

\* Points at which a context owns _access_lock.
Locked == {"announce", "check", "drop", "wr_body", "rm_body", "ra_check"}

\* Points at which a context is counted in _waiters.
Announced == {"w_lock", "check", "g_lock", "drop"}

\* Points at which a context holds the lock for writing, or for reading.
Writing == {"writing", "wr_lock", "wr_body", "rm_lock", "rm_body"}
Reading == {"reading"}

PCs == {"idle", "tw_enter", "wa_lock", "swa_enter", "ra_lock", "w_lock",
        "g_lock", "rr_check", "panic"} \cup Locked \cup Writing \cup Reading

At(S) == {p \in Proc : pc[p] \in S}

TypeOK ==
    /\ access \in Proc \cup {NoProc}
    /\ readers \in Int /\ writers \in Int /\ waiters \in Int
    /\ pc \in [Proc -> PCs]
    /\ retry \in [Proc -> 0 .. IniRetry]

Init ==
    /\ access = NoProc
    /\ readers = 0 /\ writers = 0 /\ waiters = 0
    /\ pc = [p \in Proc |-> "idle"]
    /\ retry = [p \in Proc |-> 0]

Goto(p, from, to) == pc[p] = from /\ pc' = [pc EXCEPT ![p] = to]

\* Lock::lock returns: the compare-exchange of try_acquire succeeded.
lock(p) == access = NoProc /\ access' = p

\* Lock::release
release(p) == access' = NoProc

-----------------------------------------------------------------------------
\* The caller picks an operation: try_write_acquire, RWLock::write_acquire,
\* SRWLock::write_acquire or read_acquire.
Call(p) ==
    /\ \E op \in {"tw_enter", "wa_lock", "swa_enter", "ra_lock"} :
          Goto(p, "idle", op)
    /\ UNCHANGED <<access, readers, writers, waiters, retry>>

\* try_write_acquire gives up at once when _access_lock is busy.
try_write_acquire_busy(p) ==
    /\ access # NoProc
    /\ Goto(p, "tw_enter", "idle")
    /\ UNCHANGED <<access, readers, writers, waiters, retry>>

try_write_acquire(p) ==
    /\ lock(p)
    /\ Goto(p, "tw_enter", "announce")
    /\ retry' = [retry EXCEPT ![p] = IniRetry]
    /\ UNCHANGED <<readers, writers, waiters>>

\* RWLock::write_acquire announces itself under _access_lock ...
write_acquire(p) ==
    /\ lock(p)
    /\ Goto(p, "wa_lock", "announce")
    /\ retry' = [retry EXCEPT ![p] = 0]
    /\ UNCHANGED <<readers, writers, waiters>>

announce(p) ==
    /\ Goto(p, "announce", "w_lock")
    /\ waiters' = waiters + 1
    /\ release(p)
    /\ UNCHANGED <<readers, writers, retry>>

\* ... and SRWLock::write_acquire does so with a bare _waiters++.
SRWLock_write_acquire(p) ==
    /\ Goto(p, "swa_enter", "w_lock")
    /\ waiters' = waiters + 1
    /\ retry' = [retry EXCEPT ![p] = 0]
    /\ UNCHANGED <<access, readers, writers>>

\* The loop shared by the three write acquires: win _access_lock ...
write_lock(p) ==
    /\ lock(p)
    /\ Goto(p, "w_lock", "check")
    /\ UNCHANGED <<readers, writers, waiters, retry>>

\* Mutant of write_granted: tests only for another writer.
write_granted_despite_readers(p) ==
    /\ writers = 0
    /\ Goto(p, "check", "writing")
    /\ writers' = writers + 1
    /\ waiters' = waiters - 1
    /\ release(p)
    /\ UNCHANGED <<readers, retry>>

\* ... and become the writer if nobody holds the lock ...
write_granted(p) ==
    /\ readers = 0 /\ writers = 0
    /\ Goto(p, "check", "writing")
    /\ writers' = writers + 1
    /\ waiters' = waiters - 1
    /\ release(p)
    /\ UNCHANGED <<readers, retry>>

\* Mutant of write_refused: the retries are never counted down.
write_refused_forever(p) ==
    /\ ~ (readers = 0 /\ writers = 0)
    /\ Goto(p, "check", "w_lock")
    /\ release(p)
    /\ UNCHANGED <<readers, writers, waiters, retry>>

\* ... or release it and go round again, until try_write_acquire has used
\* up its retries.
write_refused(p) ==
    /\ ~ (readers = 0 /\ writers = 0)
    /\ Goto(p, "check", IF retry[p] = 1 THEN "g_lock" ELSE "w_lock")
    /\ retry' = [retry EXCEPT ![p] = IF @ = 0 THEN 0 ELSE @ - 1]
    /\ release(p)
    /\ UNCHANGED <<readers, writers, waiters>>

give_up_lock(p) ==
    /\ lock(p)
    /\ Goto(p, "g_lock", "drop")
    /\ UNCHANGED <<readers, writers, waiters, retry>>

\* Mutants of give_up: an early return that forgets the announcement, and
\* one that forgets the spin lock.
give_up_leaks_waiter(p) ==
    /\ Goto(p, "drop", "idle")
    /\ release(p)
    /\ UNCHANGED <<readers, writers, waiters, retry>>

give_up_keeps_access(p) ==
    /\ Goto(p, "drop", "idle")
    /\ waiters' = waiters - 1
    /\ UNCHANGED <<access, readers, writers, retry>>

\* try_write_acquire returns false after taking its announcement back.
give_up(p) ==
    /\ Goto(p, "drop", "idle")
    /\ waiters' = waiters - 1
    /\ release(p)
    /\ UNCHANGED <<readers, writers, retry>>

-----------------------------------------------------------------------------
\* A counter found negative after a decrement reaches unreachable$(), which
\* stops the machine.
Checked(counter, to) == IF counter < 0 THEN "panic" ELSE to

\* The writer leaves the lock, or keeps it as a reader.
release_call(p) ==
    /\ \E op \in {"wr_lock", "rm_lock"} : Goto(p, "writing", op)
    /\ UNCHANGED <<access, readers, writers, waiters, retry>>

write_release_lock(p) ==
    /\ lock(p)
    /\ Goto(p, "wr_lock", "wr_body")
    /\ UNCHANGED <<readers, writers, waiters, retry>>

write_release(p) ==
    /\ writers' = writers - 1
    /\ Goto(p, "wr_body", Checked(writers', "idle"))
    /\ release(p)
    /\ UNCHANGED <<readers, waiters, retry>>

release_mutability_lock(p) ==
    /\ lock(p)
    /\ Goto(p, "rm_lock", "rm_body")
    /\ UNCHANGED <<readers, writers, waiters, retry>>

\* Mutant of release_mutability: the writer is not counted as a reader.
release_mutability_uncounted(p) ==
    /\ writers' = writers - 1
    /\ Goto(p, "rm_body", Checked(writers', "reading"))
    /\ release(p)
    /\ UNCHANGED <<readers, waiters, retry>>

release_mutability(p) ==
    /\ writers' = writers - 1
    /\ readers' = readers + 1
    /\ Goto(p, "rm_body", Checked(writers', "reading"))
    /\ release(p)
    /\ UNCHANGED <<waiters, retry>>

-----------------------------------------------------------------------------
read_acquire_lock(p) ==
    /\ lock(p)
    /\ Goto(p, "ra_lock", "ra_check")
    /\ UNCHANGED <<readers, writers, waiters, retry>>

\* Mutant of read_acquire: a reader does not look for a writer.
read_acquire_beside_writer(p) ==
    /\ Goto(p, "ra_check", "reading")
    /\ readers' = readers + 1
    /\ release(p)
    /\ UNCHANGED <<writers, waiters, retry>>

\* A reader is kept out by a writer only, never by waiting writers.
read_acquire(p) ==
    /\ Goto(p, "ra_check", IF writers = 0 THEN "reading" ELSE "ra_lock")
    /\ readers' = IF writers = 0 THEN readers + 1 ELSE readers
    /\ release(p)
    /\ UNCHANGED <<writers, waiters, retry>>

\* The decrement is one atomic instruction, made without _access_lock ...
read_release(p) ==
    /\ Goto(p, "reading", "rr_check")
    /\ readers' = readers - 1
    /\ UNCHANGED <<access, writers, waiters, retry>>

\* ... and _readers is read again, later, by the underflow test.
read_release_check(p) ==
    /\ Goto(p, "rr_check", Checked(readers, "idle"))
    /\ UNCHANGED <<access, readers, writers, waiters, retry>>

-----------------------------------------------------------------------------
\* The steps that spin on _access_lock.
Lock(p) ==
    \/ write_acquire(p) \/ write_lock(p) \/ give_up_lock(p)
    \/ write_release_lock(p) \/ release_mutability_lock(p) \/ read_acquire_lock(p)

\* The steps no other context can hold up.
Step(p) ==
    \/ try_write_acquire_busy(p) \/ try_write_acquire(p) \/ announce(p)
    \/ SRWLock_write_acquire(p) \/ write_granted(p) \/ write_refused(p)
    \/ give_up(p) \/ release_call(p) \/ write_release(p) \/ release_mutability(p)
    \/ read_acquire(p) \/ read_release(p) \/ read_release_check(p)

Next == \E p \in Proc : Call(p) \/ Lock(p) \/ Step(p)

Spec == Init /\ [][Next]_vars

(***************************************************************************)
(* Fairness.  A context in the middle of an operation keeps running, and   *)
(* holders release (WF).  A context that keeps trying to win _access_lock  *)
(* wins it in the end (SF): Lock::lock declares anything else unreachable  *)
(* (src/src/libcore/lock/lock.hpp:92-99).  Nobody is obliged to Call.      *)
(***************************************************************************)
Fairness == \A p \in Proc : WF_vars(Step(p)) /\ SF_vars(Lock(p))

FairSpec == Spec /\ Fairness

-----------------------------------------------------------------------------
(* Properties *)

\* While one context is the writer, no other context writes and none reads
\* (write_granted against read_acquire, release_mutability and the unlocked
\* read_release).
Exclusion ==
    \A p, q \in Proc : p # q /\ pc[p] \in Writing => pc[q] \notin Writing \cup Reading

\* The counters count: _readers is the number of contexts that read, _writers
\* the number that write, whatever the interleaving of the unlocked decrement
\* in read_release, and _waiters the number of writers that wait: no path
\* leaves a stale announcement behind, the give-up path of try_write_acquire
\* included.  An acquire decides on these counters alone.
CountersExact ==
    /\ readers = Cardinality(At(Reading))
    /\ writers = Cardinality(At(Writing))
    /\ waiters = Cardinality(At(Announced))

\* The underflow assertions (unreachable$() in release_mutability,
\* write_release and read_release) never fire, although read_release tests a
\* value that other contexts may have changed since its own decrement.
NoPanic == At({"panic"}) = {}

\* The lock implements the abstract reader-writer lock: each operation takes
\* effect in one step, and the downgrade lets no writer in between.
Abstract == INSTANCE RWLockSpec WITH writing <- At(Writing), reading <- At(Reading)
Refines == Abstract!Spec

\* No deadlock among the operations: a writer gets out of the lock again, and
\* when somebody waits for the lock somebody gets it (it may be another
\* context: the lock starves writers).
Waiting == At({"w_lock", "check", "ra_lock", "ra_check"})
Progress ==
    /\ \A p \in Proc : (pc[p] \in Writing) ~> (pc[p] \notin Writing)
    /\ (Waiting # {}) ~> (At(Writing \cup Reading) # {} \/ Waiting = {})

\* Every try_write_acquire returns: the scheduler tick relies on it.
TryReturns == \A p \in Proc : (pc[p] = "tw_enter") ~> (pc[p] \in {"idle", "writing"})

=============================================================================
