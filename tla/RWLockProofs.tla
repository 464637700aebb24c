---------------------------- MODULE RWLockProofs ----------------------------
(***************************************************************************)
(* Proofs about RWLock for every finite set of contexts and every retry    *)
(* limit.  Mutual exclusion is not inductive: an acquire looks at the      *)
(* counters, so the invariant has to say that the counters count, and that *)
(* needs the ownership of _access_lock.                                    *)
(***************************************************************************)
EXTENDS RWLock, FiniteSetTheorems, TLAPS

\* _access_lock is owned by the context that is inside a critical section.
AccessOwned == \A p \in Proc : pc[p] \in Locked <=> access = p

\* The inductive invariant.
LockInv ==
    /\ TypeOK
    /\ AccessOwned
    /\ CountersExact
    /\ NoPanic
    /\ Exclusion

\* By how much a step from one point to another changes the number of
\* contexts in S.
Delta(S, from, to) ==
    IF to \in S THEN (IF from \in S THEN 0 ELSE 1)
                ELSE (IF from \in S THEN -1 ELSE 0)

\* A set of contexts is finite: its cardinality is a natural number, zero only
\* for the empty set (what an acquire concludes from reading a zero counter).
LEMMA AtFinite ==
    ASSUME NEW S
    PROVE  /\ IsFiniteSet(At(S))
           /\ Cardinality(At(S)) \in Nat
           /\ Cardinality(At(S)) = 0 <=> At(S) = {}
<1>1. IsFiniteSet(At(S))
  BY ProcAssumption, FS_Subset DEF At
<1>2. QED
  BY <1>1, FS_CardinalityType, FS_EmptySet

\* One context that moves changes the count of every set of points by Delta.
LEMMA CountMove ==
    ASSUME TypeOK, NEW p \in Proc, NEW from, NEW to, Goto(p, from, to), NEW S
    PROVE  Cardinality(At(S)') = Cardinality(At(S)) + Delta(S, from, to)
<1>1. pc[p] = from /\ pc' = [pc EXCEPT ![p] = to] /\ pc \in [Proc -> PCs]
  BY DEF Goto, TypeOK
<1>2. At(S)' = IF to \in S THEN At(S) \cup {p} ELSE At(S) \ {p}
  BY <1>1 DEF At
<1>3. p \in At(S) <=> from \in S
  BY <1>1 DEF At
<1>4. IsFiniteSet(At(S)) /\ Cardinality(At(S)) \in Nat
  BY AtFinite
<1>5. CASE to \in S /\ from \notin S
  BY <1>2, <1>3, <1>4, <1>5, FS_AddElement DEF Delta
<1>6. CASE to \notin S /\ from \in S
  BY <1>2, <1>3, <1>4, <1>6, FS_RemoveElement DEF Delta
<1>7. CASE to \in S <=> from \in S
  <2>1. At(S)' = At(S)
    BY <1>2, <1>3, <1>7
  <2>2. QED
    BY <2>1, <1>4, <1>7 DEF Delta
<1>8. QED
  BY <1>5, <1>6, <1>7

\* CountMove for the three sets the counters are about, and the type of pc.
LEMMA Moved ==
    ASSUME LockInv, NEW p \in Proc, NEW from \in PCs, NEW to \in PCs, Goto(p, from, to)
    PROVE  /\ Cardinality(At(Reading)') = readers + Delta(Reading, from, to)
           /\ Cardinality(At(Writing)') = writers + Delta(Writing, from, to)
           /\ Cardinality(At(Announced)') = waiters + Delta(Announced, from, to)
           /\ pc' \in [Proc -> PCs]
           /\ pc[p] = from /\ pc' = [pc EXCEPT ![p] = to]
<1>1. TypeOK /\ CountersExact
  BY DEF LockInv
<1>2. QED
  BY <1>1, CountMove DEF CountersExact, Goto, TypeOK

\* What Moved says of the new state, put back together: a step from one point
\* to another keeps the invariant if it changes each counter by its Delta,
\* hands _access_lock over with its critical section, keeps the types, and
\* enters Writing or Reading only where that is allowed.
LEMMA MoveKeepsInv ==
    ASSUME LockInv, NEW p \in Proc, NEW from \in PCs, NEW to \in PCs \ {"panic"},
           Goto(p, from, to),
           readers' = readers + Delta(Reading, from, to),
           writers' = writers + Delta(Writing, from, to),
           waiters' = waiters + Delta(Announced, from, to),
           access' = IF to \in Locked THEN p ELSE IF from \in Locked THEN NoProc ELSE access,
           to \in Locked /\ from \notin Locked => access = NoProc,
           retry' \in [Proc -> 0 .. IniRetry],
           to \in Writing /\ from \notin Writing => At(Writing \cup Reading) = {},
           to \in Reading => At(Writing) \subseteq {p}
    PROVE  LockInv'
<1>1. /\ Cardinality(At(Reading)') = readers'
      /\ Cardinality(At(Writing)') = writers'
      /\ Cardinality(At(Announced)') = waiters'
      /\ pc' \in [Proc -> PCs]
      /\ pc[p] = from /\ pc' = [pc EXCEPT ![p] = to]
  BY Moved
<1>2. TypeOK /\ AccessOwned /\ NoPanic /\ Exclusion
  BY DEF LockInv
<1>3. readers \in Int /\ writers \in Int /\ waiters \in Int
  BY <1>2 DEF TypeOK
<1>4. TypeOK'
  BY <1>1, <1>2, <1>3, ProcAssumption DEF TypeOK, Delta
<1>5. AccessOwned'
  BY <1>1, <1>2, ProcAssumption DEF AccessOwned, TypeOK
<1>6. CountersExact'
  BY <1>1 DEF CountersExact
<1>7. NoPanic'
  BY <1>1, <1>2 DEF NoPanic, At, TypeOK
<1>8. Exclusion'
  <2> SUFFICES ASSUME NEW q \in Proc, NEW r \in Proc, q # r,
                      pc'[q] \in Writing, pc'[r] \in Writing \cup Reading
               PROVE  FALSE
    BY DEF Exclusion
  <2>1. CASE q = p
    <3>1. pc[r] \in Writing \cup Reading /\ r \in At(Writing \cup Reading)
      BY <1>1, <2>1 DEF At
    <3>2. from \in Writing
      BY <1>1, <2>1, <3>1
    <3>3. QED
      BY <1>1, <1>2, <2>1, <3>1, <3>2 DEF Exclusion
  <2>2. CASE r = p
    <3>1. pc[q] \in Writing /\ q \in At(Writing) /\ q \in At(Writing \cup Reading)
      BY <1>1, <2>2 DEF At
    <3>2. to \in Writing /\ from \in Writing
      BY <1>1, <2>2, <3>1
    <3>3. QED
      BY <1>1, <1>2, <2>2, <3>1, <3>2 DEF Exclusion
  <2>3. CASE q # p /\ r # p
    BY <1>1, <1>2, <2>3 DEF Exclusion
  <2>4. QED
    BY <2>1, <2>2, <2>3
<1>9. QED
  BY <1>4, <1>5, <1>6, <1>7, <1>8 DEF LockInv


\* The initial state: nobody is anywhere.
LEMMA InitInv == Init => LockInv
<1> SUFFICES ASSUME Init PROVE LockInv
  OBVIOUS
<1>1. At(Reading) = {} /\ At(Writing) = {} /\ At(Announced) = {} /\ At({"panic"}) = {}
  BY DEF Init, At, Reading, Writing, Announced
<1>2. Cardinality({}) = 0
  BY FS_EmptySet
<1>3. CountersExact /\ NoPanic
  BY <1>1, <1>2 DEF Init, CountersExact, NoPanic
<1>4. TypeOK
  BY RetryAssumption DEF Init, TypeOK, PCs
<1>5. AccessOwned /\ Exclusion
  BY ProcAssumption DEF Init, AccessOwned, Exclusion, Locked, Writing
<1>6. QED
  BY <1>3, <1>4, <1>5 DEF LockInv

\* Winning the spin lock (Lock) keeps the invariant: no counter changes.
LEMMA LockKeepsInv == ASSUME LockInv, NEW p \in Proc, Lock(p) PROVE LockInv'
<1>0. TypeOK /\ CountersExact
  BY DEF LockInv
<1>1. readers \in Int /\ writers \in Int /\ waiters \in Int /\ retry' \in [Proc -> 0 .. IniRetry]
  BY <1>0, RetryAssumption DEF TypeOK, Lock, write_acquire, write_lock, give_up_lock,
     write_release_lock, release_mutability_lock, read_acquire_lock
<1>2. CASE write_acquire(p)
  <2>1. Goto(p, "wa_lock", "announce") /\ access = NoProc /\ access' = p
    BY <1>2 DEF write_acquire, lock
  <2>2. UNCHANGED <<readers, writers, waiters>>
    BY <1>2 DEF write_acquire
  <2>3. QED
    BY <1>1, <2>1, <2>2, MoveKeepsInv DEF PCs, Locked, Announced, Writing, Reading, Delta
<1>3. CASE write_lock(p)
  <2>1. Goto(p, "w_lock", "check") /\ access = NoProc /\ access' = p
    BY <1>3 DEF write_lock, lock
  <2>2. UNCHANGED <<readers, writers, waiters>>
    BY <1>3 DEF write_lock
  <2>3. QED
    BY <1>1, <2>1, <2>2, MoveKeepsInv DEF PCs, Locked, Announced, Writing, Reading, Delta
<1>4. CASE give_up_lock(p)
  <2>1. Goto(p, "g_lock", "drop") /\ access = NoProc /\ access' = p
    BY <1>4 DEF give_up_lock, lock
  <2>2. UNCHANGED <<readers, writers, waiters>>
    BY <1>4 DEF give_up_lock
  <2>3. QED
    BY <1>1, <2>1, <2>2, MoveKeepsInv DEF PCs, Locked, Announced, Writing, Reading, Delta
<1>5. CASE write_release_lock(p)
  <2>1. Goto(p, "wr_lock", "wr_body") /\ access = NoProc /\ access' = p
    BY <1>5 DEF write_release_lock, lock
  <2>2. UNCHANGED <<readers, writers, waiters>>
    BY <1>5 DEF write_release_lock
  <2>3. QED
    BY <1>1, <2>1, <2>2, MoveKeepsInv DEF PCs, Locked, Announced, Writing, Reading, Delta
<1>6. CASE release_mutability_lock(p)
  <2>1. Goto(p, "rm_lock", "rm_body") /\ access = NoProc /\ access' = p
    BY <1>6 DEF release_mutability_lock, lock
  <2>2. UNCHANGED <<readers, writers, waiters>>
    BY <1>6 DEF release_mutability_lock
  <2>3. QED
    BY <1>1, <2>1, <2>2, MoveKeepsInv DEF PCs, Locked, Announced, Writing, Reading, Delta
<1>7. CASE read_acquire_lock(p)
  <2>1. Goto(p, "ra_lock", "ra_check") /\ access = NoProc /\ access' = p
    BY <1>7 DEF read_acquire_lock, lock
  <2>2. UNCHANGED <<readers, writers, waiters>>
    BY <1>7 DEF read_acquire_lock
  <2>3. QED
    BY <1>1, <2>1, <2>2, MoveKeepsInv DEF PCs, Locked, Announced, Writing, Reading, Delta
<1>8. QED
  BY <1>2, <1>3, <1>4, <1>5, <1>6, <1>7 DEF Lock

\* The call of an operation keeps the invariant.
LEMMA CallKeepsInv == ASSUME LockInv, NEW p \in Proc, Call(p) PROVE LockInv'
<1>1. PICK op \in {"tw_enter", "wa_lock", "swa_enter", "ra_lock"} : Goto(p, "idle", op)
  BY DEF Call
<1>2. UNCHANGED <<access, readers, writers, waiters, retry>>
  BY DEF Call
<1>3. readers \in Int /\ writers \in Int /\ waiters \in Int /\ retry' \in [Proc -> 0 .. IniRetry]
  BY <1>2 DEF LockInv, TypeOK
<1>4. QED
  BY <1>1, <1>2, <1>3, MoveKeepsInv DEF PCs, Locked, Announced, Writing, Reading, Delta

\* The other steps keep the invariant.  The two grants are the interesting
\* ones: they conclude from a zero counter that nobody holds the lock.
LEMMA StepKeepsInv == ASSUME LockInv, NEW p \in Proc, Step(p) PROVE LockInv'
<1>0. TypeOK /\ AccessOwned /\ CountersExact /\ Exclusion
  BY DEF LockInv
<1>1. readers \in Int /\ writers \in Int /\ waiters \in Int /\ retry' \in [Proc -> 0 .. IniRetry]
  <2>1. retry \in [Proc -> 0 .. IniRetry] /\ readers \in Int /\ writers \in Int /\ waiters \in Int
    BY <1>0 DEF TypeOK
  <2>2. UNCHANGED retry \/ \E n \in 0 .. IniRetry : retry' = [retry EXCEPT ![p] = n]
    <3>1. CASE try_write_acquire(p) \/ SRWLock_write_acquire(p)
      BY <3>1, RetryAssumption DEF try_write_acquire, SRWLock_write_acquire
    <3>2. CASE write_refused(p)
      <4>1. retry[p] \in 0 .. IniRetry /\ IniRetry \in Nat
        BY <2>1, RetryAssumption
      <4>2. PICK n : n = IF retry[p] = 0 THEN 0 ELSE retry[p] - 1
        OBVIOUS
      <4>3. n \in 0 .. IniRetry
        BY <4>1, <4>2
      <4>4. retry' = [retry EXCEPT ![p] = n]
        BY <3>2, <4>2 DEF write_refused
      <4>5. QED
        BY <4>3, <4>4
    <3>3. QED
      BY <3>1, <3>2 DEF Step, try_write_acquire_busy, announce, write_granted, give_up,
         release_call, write_release, release_mutability, read_acquire, read_release,
         read_release_check
  <2>3. QED
    BY <2>1, <2>2
<1>2. readers >= 0 /\ writers >= 0
  BY <1>0, AtFinite DEF CountersExact
<1>3. pc[p] \in Writing => At(Writing) \subseteq {p} /\ writers >= 1
  <2>1. pc[p] \in Writing => At(Writing) # {}
    BY DEF At
  <2>2. pc[p] \in Writing => Cardinality(At(Writing)) # 0
    BY <2>1, AtFinite
  <2>3. QED
    BY <1>0, <1>1, <1>2, <2>2 DEF Exclusion, At, CountersExact
<1>4. CASE try_write_acquire_busy(p)
  <2>1. Goto(p, "tw_enter", "idle") /\ access' = access
    BY <1>4 DEF try_write_acquire_busy, lock, release
  <2>2. UNCHANGED <<readers, writers, waiters>>
    BY <1>4 DEF try_write_acquire_busy
  <2>3. QED
    BY <1>1, <2>1, <2>2, MoveKeepsInv DEF PCs, Locked, Announced, Writing, Reading, Delta
<1>5. CASE try_write_acquire(p)
  <2>1. Goto(p, "tw_enter", "announce") /\ access = NoProc /\ access' = p
    BY <1>5 DEF try_write_acquire, lock, release
  <2>2. UNCHANGED <<readers, writers, waiters>>
    BY <1>5 DEF try_write_acquire
  <2>3. QED
    BY <1>1, <2>1, <2>2, MoveKeepsInv DEF PCs, Locked, Announced, Writing, Reading, Delta
<1>6. CASE announce(p)
  <2>1. Goto(p, "announce", "w_lock") /\ access' = NoProc /\ waiters' = waiters + 1
    BY <1>6 DEF announce, lock, release
  <2>2. UNCHANGED <<readers, writers>>
    BY <1>6 DEF announce
  <2>3. QED
    BY <1>1, <2>1, <2>2, MoveKeepsInv DEF PCs, Locked, Announced, Writing, Reading, Delta
<1>7. CASE SRWLock_write_acquire(p)
  <2>1. Goto(p, "swa_enter", "w_lock") /\ access' = access /\ waiters' = waiters + 1
    BY <1>7 DEF SRWLock_write_acquire, lock, release
  <2>2. UNCHANGED <<readers, writers>>
    BY <1>7 DEF SRWLock_write_acquire
  <2>3. QED
    BY <1>1, <2>1, <2>2, MoveKeepsInv DEF PCs, Locked, Announced, Writing, Reading, Delta
<1>8. CASE write_granted(p)
  <2>1. /\ Goto(p, "check", "writing") /\ access' = NoProc
        /\ writers' = writers + 1 /\ waiters' = waiters - 1 /\ readers' = readers
        /\ readers = 0 /\ writers = 0
    BY <1>8 DEF write_granted, release
  <2>2. At(Reading) = {} /\ At(Writing) = {}
    BY <1>0, <2>1, AtFinite DEF CountersExact
  <2>3. At(Writing \cup Reading) = {}
    BY <2>2 DEF At
  <2>4. QED
    BY <1>1, <2>1, <2>3, MoveKeepsInv DEF PCs, Locked, Announced, Writing, Reading, Delta
<1>9. CASE write_refused(p)
  <2>1. PICK to \in {"g_lock", "w_lock"} : Goto(p, "check", to)
    BY <1>9 DEF write_refused
  <2>2. access' = NoProc /\ UNCHANGED <<readers, writers, waiters>>
    BY <1>9 DEF write_refused, release
  <2>3. QED
    BY <1>1, <2>1, <2>2, MoveKeepsInv DEF PCs, Locked, Announced, Writing, Reading, Delta
<1>10. CASE give_up(p)
  <2>1. Goto(p, "drop", "idle") /\ access' = NoProc /\ waiters' = waiters - 1
    BY <1>10 DEF give_up, lock, release
  <2>2. UNCHANGED <<readers, writers>>
    BY <1>10 DEF give_up
  <2>3. QED
    BY <1>1, <2>1, <2>2, MoveKeepsInv DEF PCs, Locked, Announced, Writing, Reading, Delta
<1>11. CASE release_call(p)
  <2>1. PICK op \in {"wr_lock", "rm_lock"} : Goto(p, "writing", op)
    BY <1>11 DEF release_call
  <2>2. UNCHANGED <<access, readers, writers, waiters>>
    BY <1>11 DEF release_call
  <2>3. QED
    BY <1>1, <2>1, <2>2, MoveKeepsInv DEF PCs, Locked, Announced, Writing, Reading, Delta
<1>12. CASE write_release(p)
  <2>1. pc[p] = "wr_body" /\ writers' = writers - 1
    BY <1>12 DEF write_release, Goto
  <2>2. writers' >= 0
    BY <1>1, <1>3, <2>1 DEF Writing
  <2>3. Goto(p, "wr_body", "idle") /\ access' = NoProc /\ UNCHANGED <<readers, waiters>>
    BY <1>1, <1>12, <2>1, <2>2 DEF write_release, release, Checked
  <2>4. QED
    BY <1>1, <2>1, <2>3, MoveKeepsInv DEF PCs, Locked, Announced, Writing, Reading, Delta
<1>13. CASE release_mutability(p)
  <2>1. pc[p] = "rm_body" /\ writers' = writers - 1 /\ readers' = readers + 1
    BY <1>13 DEF release_mutability, Goto
  <2>2. writers' >= 0 /\ At(Writing) \subseteq {p}
    BY <1>1, <1>3, <2>1 DEF Writing
  <2>3. Goto(p, "rm_body", "reading") /\ access' = NoProc /\ UNCHANGED waiters
    BY <1>1, <1>13, <2>1, <2>2 DEF release_mutability, release, Checked
  <2>4. QED
    BY <1>1, <2>1, <2>2, <2>3, MoveKeepsInv DEF PCs, Locked, Announced, Writing, Reading, Delta
<1>14. CASE read_acquire(p)
  <2>1. access' = NoProc /\ UNCHANGED <<writers, waiters>>
    BY <1>14 DEF read_acquire, release
  <2>2. CASE writers = 0
    <3>1. Goto(p, "ra_check", "reading") /\ readers' = readers + 1
      BY <1>14, <2>2 DEF read_acquire
    <3>2. At(Writing) = {}
      BY <1>0, <2>2, AtFinite DEF CountersExact
    <3>3. QED
      BY <1>1, <2>1, <3>1, <3>2, MoveKeepsInv DEF PCs, Locked, Announced, Writing, Reading, Delta
  <2>3. CASE writers # 0
    <3>1. Goto(p, "ra_check", "ra_lock") /\ readers' = readers
      BY <1>14, <2>3 DEF read_acquire
    <3>2. QED
      BY <1>1, <2>1, <3>1, MoveKeepsInv DEF PCs, Locked, Announced, Writing, Reading, Delta
  <2>4. QED
    BY <2>2, <2>3
<1>15. CASE read_release(p)
  <2>1. Goto(p, "reading", "rr_check") /\ access' = access /\ readers' = readers - 1
    BY <1>15 DEF read_release, lock, release
  <2>2. UNCHANGED <<writers, waiters>>
    BY <1>15 DEF read_release
  <2>3. QED
    BY <1>1, <2>1, <2>2, MoveKeepsInv DEF PCs, Locked, Announced, Writing, Reading, Delta
<1>16. CASE read_release_check(p)
  <2>1. Goto(p, "rr_check", "idle") /\ access' = access /\ UNCHANGED <<readers, writers, waiters>>
    BY <1>1, <1>2, <1>16 DEF read_release_check, Checked
  <2>2. QED
    BY <1>1, <2>1, MoveKeepsInv DEF PCs, Locked, Announced, Writing, Reading, Delta
<1>17. QED
  BY <1>4, <1>5, <1>6, <1>7, <1>8, <1>9, <1>10, <1>11, <1>12, <1>13, <1>14, <1>15, <1>16 DEF Step

\* The invariant holds in every reachable state of the lock.
THEOREM LockInvariant == Spec => []LockInv
<1>1. LockInv /\ [Next]_vars => LockInv'
  <2> SUFFICES ASSUME LockInv, [Next]_vars PROVE LockInv'
    OBVIOUS
  <2>1. CASE Next
    BY <2>1, CallKeepsInv, LockKeepsInv, StepKeepsInv DEF Next
  <2>2. CASE UNCHANGED vars
    BY <2>2 DEF vars, LockInv, TypeOK, AccessOwned, CountersExact, NoPanic,
       Exclusion, At
  <2>3. QED
    BY <2>1, <2>2
<1>2. QED
  BY InitInv, <1>1, PTL DEF Spec

\* One writer or several readers, whatever the number of contexts: the promise
\* of the comment at the head of class RWLock.
THEOREM MutualExclusion == Spec => []Exclusion
<1>1. LockInv => Exclusion
  BY DEF LockInv
<1>2. QED
  BY <1>1, LockInvariant, PTL

\* The counters an acquire decides on are exact in every state, so the
\* unlocked decrement of read_release is safe.
THEOREM CountersAreExact == Spec => []CountersExact
<1>1. LockInv => CountersExact
  BY DEF LockInv
<1>2. QED
  BY <1>1, LockInvariant, PTL

\* The unreachable$() assertions of the release operations never fire.
THEOREM AssertionsHold == Spec => []NoPanic
<1>1. LockInv => NoPanic
  BY DEF LockInv
<1>2. QED
  BY <1>1, LockInvariant, PTL

-----------------------------------------------------------------------------
(* The lock implements the abstract reader-writer lock of RWLockSpec. *)

\* How a step moves one context in or out of a set of points.
LEMMA SetMove ==
    ASSUME TypeOK, NEW p \in Proc, NEW from, NEW to, Goto(p, from, to), NEW S
    PROVE  /\ to \in S /\ from \notin S => At(S)' = At(S) \cup {p} /\ p \notin At(S)
           /\ to \notin S /\ from \in S => At(S)' = At(S) \ {p} /\ p \in At(S)
           /\ (to \in S <=> from \in S) => At(S)' = At(S)
  BY DEF Goto, TypeOK, At

\* Which of the points below hold the lock, and how.
LEMMA Points ==
    /\ "check" \notin Writing \cup Reading /\ "idle" \notin Writing \cup Reading
    /\ "panic" \notin Writing \cup Reading /\ "ra_check" \notin Writing \cup Reading
    /\ "ra_lock" \notin Writing \cup Reading /\ "rr_check" \notin Writing \cup Reading
    /\ {"writing", "wr_body", "rm_body"} \subseteq Writing \ Reading
    /\ "reading" \in Reading \ Writing
  BY DEF Writing, Reading

\* A step between points that are both holding, or both not holding, in the
\* same way is invisible to the abstract lock.
LEMMA Silent ==
    ASSUME TypeOK, NEW p \in Proc, NEW from, NEW to, Goto(p, from, to),
           from \in Writing <=> to \in Writing, from \in Reading <=> to \in Reading
    PROVE  UNCHANGED Abstract!vars
<1>1. At(Writing)' = At(Writing) /\ At(Reading)' = At(Reading)
  BY SetMove
<1>2. QED
  BY <1>1 DEF Abstract!vars

\* Every step of the lock is a step of the abstract lock, or none.
LEMMA StepSimulation ==
    ASSUME LockInv, NEW p \in Proc, Call(p) \/ Lock(p) \/ Step(p)
    PROVE  Abstract!Next \/ UNCHANGED Abstract!vars
<1>0. TypeOK /\ CountersExact /\ Exclusion
  BY DEF LockInv
<1>1. CASE Call(p) \/ release_call(p) \/ write_refused(p)
  <2>1. PICK from, to : /\ Goto(p, from, to)
                        /\ from \in Writing <=> to \in Writing
                        /\ from \in Reading <=> to \in Reading
    BY <1>1 DEF Call, release_call, write_refused, Writing, Reading
  <2>2. QED
    BY <1>0, <2>1, Silent
<1>2. CASE Lock(p)
  <2>1. PICK from, to : /\ Goto(p, from, to)
                        /\ from \in Writing <=> to \in Writing
                        /\ from \in Reading <=> to \in Reading
    BY <1>2 DEF Lock, write_acquire, write_lock, give_up_lock, write_release_lock,
       release_mutability_lock, read_acquire_lock, Writing, Reading
  <2>2. QED
    BY <1>0, <2>1, Silent
<1>3. CASE \/ try_write_acquire_busy(p) \/ try_write_acquire(p) \/ announce(p)
           \/ SRWLock_write_acquire(p) \/ give_up(p)
  <2>1. PICK from, to : /\ Goto(p, from, to)
                        /\ from \in Writing <=> to \in Writing
                        /\ from \in Reading <=> to \in Reading
    BY <1>3 DEF try_write_acquire_busy, try_write_acquire, announce,
       SRWLock_write_acquire, give_up, Writing, Reading
  <2>2. QED
    BY <1>0, <2>1, Silent
<1>4. CASE write_granted(p)
  <2>1. Goto(p, "check", "writing") /\ readers = 0 /\ writers = 0
    BY <1>4 DEF write_granted
  <2>2. At(Reading) = {} /\ At(Writing) = {}
    BY <1>0, <2>1, AtFinite DEF CountersExact
  <2>3. At(Writing)' = {p} /\ At(Reading)' = At(Reading)
    BY <1>0, <2>1, <2>2, SetMove, Points
  <2>4. Abstract!AcquireWrite(p)
    BY <2>2, <2>3 DEF Abstract!AcquireWrite
  <2>5. QED
    BY <2>4 DEF Abstract!Next
<1>5. CASE write_release(p)
  <2>1. PICK to \in {"idle", "panic"} : Goto(p, "wr_body", to)
    BY <1>5 DEF write_release, Checked
  <2>2. At(Writing)' = At(Writing) \ {p} /\ At(Reading)' = At(Reading) /\ p \in At(Writing)
    BY <1>0, <2>1, SetMove, Points
  <2>3. Abstract!ReleaseWrite(p)
    BY <2>2 DEF Abstract!ReleaseWrite
  <2>4. QED
    BY <2>3 DEF Abstract!Next
<1>6. CASE release_mutability(p)
  <2>1. LockInv'
    BY <1>6, StepKeepsInv DEF Step
  <2>2. Goto(p, "rm_body", "reading")
    BY <1>0, <1>6, <2>1 DEF release_mutability, Checked, LockInv, NoPanic, At, Goto, TypeOK
  <2>3. At(Writing)' = At(Writing) \ {p} /\ At(Reading)' = At(Reading) \cup {p} /\ p \in At(Writing)
    BY <1>0, <2>2, SetMove, Points
  <2>4. Abstract!Downgrade(p)
    BY <2>3 DEF Abstract!Downgrade
  <2>5. QED
    BY <2>4 DEF Abstract!Next
<1>7. CASE read_acquire(p)
  <2>1. CASE writers = 0
    <3>1. Goto(p, "ra_check", "reading")
      BY <1>7, <2>1 DEF read_acquire
    <3>2. At(Writing) = {}
      BY <1>0, <2>1, AtFinite DEF CountersExact
    <3>3. At(Reading)' = At(Reading) \cup {p} /\ At(Writing)' = At(Writing) /\ p \notin At(Reading)
      BY <1>0, <3>1, SetMove, Points
    <3>4. Abstract!AcquireRead(p)
      BY <3>2, <3>3 DEF Abstract!AcquireRead
    <3>5. QED
      BY <3>4 DEF Abstract!Next
  <2>2. CASE writers # 0
    <3>1. Goto(p, "ra_check", "ra_lock")
      BY <1>7, <2>2 DEF read_acquire
    <3>2. QED
      BY <1>0, <3>1, Silent, Points
  <2>3. QED
    BY <2>1, <2>2
<1>8. CASE read_release(p)
  <2>1. Goto(p, "reading", "rr_check")
    BY <1>8 DEF read_release
  <2>2. At(Reading)' = At(Reading) \ {p} /\ At(Writing)' = At(Writing) /\ p \in At(Reading)
    BY <1>0, <2>1, SetMove, Points
  <2>3. Abstract!ReleaseRead(p)
    BY <2>2 DEF Abstract!ReleaseRead
  <2>4. QED
    BY <2>3 DEF Abstract!Next
<1>9. CASE read_release_check(p)
  <2>1. PICK to \in {"idle", "panic"} : Goto(p, "rr_check", to)
    BY <1>9 DEF read_release_check, Checked
  <2>2. QED
    BY <1>0, <2>1, Silent, Points
<1>10. QED
  BY <1>1, <1>2, <1>3, <1>4, <1>5, <1>6, <1>7, <1>8, <1>9 DEF Step

\* The code's lock implements the abstract lock: each acquire, downgrade and
\* release takes effect at one instant, for any number of contexts.
THEOREM Refinement == Spec => Refines
<1>1. Init => Abstract!Init
  BY DEF Init, Abstract!Init, At, Writing, Reading
<1>2. LockInv /\ [Next]_vars => [Abstract!Next]_(Abstract!vars)
  <2> SUFFICES ASSUME LockInv, [Next]_vars
               PROVE  Abstract!Next \/ UNCHANGED Abstract!vars
    OBVIOUS
  <2>1. CASE Next
    BY <2>1, StepSimulation DEF Next
  <2>2. CASE UNCHANGED vars
    BY <2>2 DEF vars, Abstract!vars, At
  <2>3. QED
    BY <2>1, <2>2
<1>3. QED
  BY <1>1, <1>2, LockInvariant, PTL DEF Spec, Refines, Abstract!Spec

=============================================================================
