---------------------------- MODULE SchedPolicyProofs ----------------------------
(***************************************************************************)
(* Proofs about module SchedPolicy, for any CPUs, tasks and number of run  *)
(* queues.                                                                 *)
(*                                                                         *)
(* A task is lost when a CPU is given a task while another one is in its   *)
(* slot, so the invariant follows the slots through the loops: those that  *)
(* update_runned_task has emptied, and then those of the CPUs on           *)
(* schedule_all's two lists, which are exactly the CPUs without a task.    *)
(* For fix_sched_affinity the argument is a count: after an exchange the   *)
(* CPU on top of the worklist is settled, so exchanges and CPUs taken off  *)
(* the list alternate at worst.                                            *)
(***************************************************************************)
EXTENDS SchedPolicy, FiniteSetTheorems, SequenceTheorems, TLAPS

NoRepeat(s) == \A j, k \in DOMAIN s : s[j] = s[k] => j = k

QueueSet(l) == ToSet(task_queues[l])

\* A task has one place at most, and one when it was launched.
Placed(t) ==
    /\ \A l, m \in Levels : t \in QueueSet(l) /\ t \in QueueSet(m) => l = m
    /\ \A c, d \in Cpus : slot[c] = t /\ slot[d] = t => c = d
    /\ \A l \in Levels, c \in Cpus : t \in QueueSet(l) => slot[c] # t
    /\ t \in blocked => (\A l \in Levels : t \notin QueueSet(l)) /\ \A c \in Cpus : slot[c] # t
    /\ t \in launched <=>
           t \in blocked \/ (\E l \in Levels : t \in QueueSet(l)) \/ \E c \in Cpus : slot[c] = t

Homes ==
    /\ \A l \in Levels : NoRepeat(task_queues[l])
    /\ \A t \in Tasks : Placed(t)

Assigning == phase \in {"level", "match", "any"}
OnList == ToSet(choosen) \cup ToSet(retried)

\* Where the loops are, and which slots are empty there
Idles ==
    /\ phase = "requeue" => i \in 0 .. CpuCount /\ \A c \in 0 .. i - 1 : slot[c] = NoTask
    /\ phase = "level" => i \in 0 .. TASK_QUEUE_COUNT /\ retried = <<>>
    /\ phase \in {"match", "any"} => i \in Levels
    /\ phase = "any" => choosen = <<>>
    /\ phase = "one" => i \in Cpus /\ slot[i] = NoTask
    /\ Assigning =>
           /\ \A c \in Cpus : slot[c] = NoTask <=> c \in OnList
           /\ NoRepeat(choosen) /\ NoRepeat(retried) /\ ToSet(choosen) \cap ToSet(retried) = {}

\* How many rounds fix_sched_affinity has made
Rounds ==
    /\ phase # "failed"
    /\ phase # "fix" => attempt = 0
    /\ phase = "fix" => attempt + 2 * Len(to_fix)
                          <= 2 * CpuCount + (IF to_fix # <<>> /\ Settled THEN 1 ELSE 0)

\* The inductive invariant
PolicyInv == TypeOK /\ Homes /\ Idles /\ UrgentFirst /\ Conserving /\ Rounds

-----------------------------------------------------------------------------
(* Sequences *)

LEMMA SetOf ==
    ASSUME NEW T, NEW s \in Seq(T)
    PROVE  /\ ToSet(s) \subseteq T /\ \A x : x \in ToSet(s) <=> \E j \in 1 .. Len(s) : x = s[j]
           /\ s = <<>> <=> ToSet(s) = {}
  <1>1. DOMAIN s = 1 .. Len(s) /\ Len(s) \in Nat /\ \A j \in 1 .. Len(s) : s[j] \in T
    OBVIOUS
  <1>2. ToSet(s) = {s[j] : j \in 1 .. Len(s)}
    BY <1>1 DEF ToSet
  <1>3. ToSet(s) = {} => Len(s) = 0
    BY <1>1, <1>2
  <1>4. s = <<>> => ToSet(s) = {}
    BY <1>1, <1>2
  <1>5. Len(s) = 0 => s = <<>>
    OBVIOUS
  <1> QED BY <1>1, <1>2, <1>3, <1>4, <1>5

\* push of a task that is not in the queue
LEMMA Pushed ==
    ASSUME NEW T, NEW s \in Seq(T), NEW x \in T
    PROVE  /\ Append(s, x) \in Seq(T) /\ ToSet(Append(s, x)) = ToSet(s) \cup {x}
           /\ NoRepeat(s) /\ x \notin ToSet(s) => NoRepeat(Append(s, x))
           /\ Len(Append(s, x)) = Len(s) + 1 /\ Append(s, x) # <<>> /\ Last(Append(s, x)) = x
  <1> DEFINE a == Append(s, x)
  <1>1. /\ a \in Seq(T) /\ Len(s) \in Nat /\ Len(a) = Len(s) + 1 /\ a[Len(a)] = x
        /\ \A j \in 1 .. Len(s) : a[j] = s[j]
        /\ DOMAIN a = 1 .. Len(s) + 1 /\ DOMAIN s = 1 .. Len(s)
    OBVIOUS
  <1> HIDE DEF a
  <1>2. ToSet(a) = ToSet(s) \cup {x}
    <2>1. ASSUME NEW y PROVE y \in ToSet(a) <=> y \in ToSet(s) \/ y = x
      <3>1. y \in ToSet(a) <=> \E j \in 1 .. Len(s) + 1 : y = a[j]
        BY <1>1, SetOf
      <3>2. y \in ToSet(s) <=> \E j \in 1 .. Len(s) : y = s[j]
        BY SetOf
      <3> QED BY <1>1, <3>1, <3>2
    <2> QED BY <2>1
  <1>3. ASSUME NoRepeat(s), x \notin ToSet(s) PROVE NoRepeat(a)
    <2>1. \A j \in 1 .. Len(s) : s[j] # x
      BY <1>3, SetOf
    <2>2. \A j, k \in 1 .. Len(s) : s[j] = s[k] => j = k
      BY <1>1, <1>3 DEF NoRepeat
    <2> QED BY <1>1, <2>1, <2>2 DEF NoRepeat
  <1>4. a # <<>> /\ Last(a) = x
    BY <1>1 DEF Last
  <1> QED BY <1>1, <1>2, <1>3, <1>4 DEF a

\* pop of the top
LEMMA Popped ==
    ASSUME NEW T, NEW s \in Seq(T), s # <<>>
    PROVE  /\ Front(s) \in Seq(T) /\ Len(Front(s)) = Len(s) - 1 /\ Len(s) > 0
           /\ Last(s) \in T /\ Last(s) \in ToSet(s)
           /\ NoRepeat(s) => ToSet(Front(s)) = ToSet(s) \ {Last(s)} /\ NoRepeat(Front(s))
  <1> DEFINE f == Front(s)
  <1>1. Len(s) \in Nat /\ Len(s) > 0 /\ DOMAIN s = 1 .. Len(s) /\ Last(s) = s[Len(s)]
    BY DEF Last
  <1>2. f \in Seq(T) /\ Len(f) = Len(s) - 1 /\ DOMAIN f = 1 .. Len(s) - 1 /\ \A j \in 1 .. Len(s) - 1 : f[j] = s[j]
    <2>1. f = SubSeq(s, 1, Len(s) - 1)
      BY DEF Front
    <2> HIDE DEF f
    <2> QED BY <1>1, <2>1
  <1>3. Last(s) \in T /\ Last(s) \in ToSet(s)
    BY <1>1, SetOf
  <1> HIDE DEF f
  <1>4. ASSUME NoRepeat(s) PROVE ToSet(f) = ToSet(s) \ {Last(s)} /\ NoRepeat(f)
    <2>1. \A j, k \in 1 .. Len(s) : s[j] = s[k] => j = k
      BY <1>1, <1>4 DEF NoRepeat
    <2>2. ASSUME NEW y PROVE y \in ToSet(f) <=> y \in ToSet(s) /\ y # s[Len(s)]
      <3>1. y \in ToSet(f) <=> \E j \in 1 .. Len(s) - 1 : y = f[j]
        <4>1. y \in ToSet(f) <=> \E j \in 1 .. Len(f) : y = f[j]
          BY <1>2, SetOf
        <4> QED BY <1>2, <4>1
      <3>2. y \in ToSet(s) <=> \E j \in 1 .. Len(s) : y = s[j]
        BY SetOf
      <3> QED BY <1>1, <1>2, <2>1, <3>1, <3>2
    <2>3. NoRepeat(f)
      BY <1>1, <1>2, <2>1 DEF NoRepeat
    <2> QED BY <1>1, <2>2, <2>3
  <1> QED BY <1>1, <1>2, <1>3, <1>4 DEF f

\* A task is taken out of the middle of a queue.
LEMMA Removed ==
    ASSUME NEW T, NEW s \in Seq(T), NEW k \in 1 .. Len(s), NoRepeat(s)
    PROVE  /\ RemoveAt(s, k) \in Seq(T) /\ NoRepeat(RemoveAt(s, k))
           /\ ToSet(RemoveAt(s, k)) = ToSet(s) \ {s[k]}
  <1> DEFINE r == RemoveAt(s, k)
  <1>1. Len(s) \in Nat /\ DOMAIN s = 1 .. Len(s) /\ k \in Nat /\ k >= 1 /\ k <= Len(s)
    OBVIOUS
  <1> DEFINE a == SubSeq(s, 1, k - 1)  b == SubSeq(s, k + 1, Len(s))
  <1>2. a \in Seq(T) /\ Len(a) = k - 1 /\ \A j \in 1 .. k - 1 : a[j] = s[j]
    BY <1>1
  <1>3. b \in Seq(T) /\ Len(b) = Len(s) - k /\ \A j \in 1 .. Len(s) - k : b[j] = s[k + j]
    <2>1. b \in Seq(T) /\ Len(b) = IF k + 1 <= Len(s) THEN Len(s) - (k + 1) + 1 ELSE 0
      <3>1. \A j \in k + 1 .. Len(s) : s[j] \in T
        BY <1>1
      <3> QED BY <1>1, <3>1, SubSeqProperties
    <2>2. \A n \in Nat : k <= n => (IF k + 1 <= n THEN n - (k + 1) + 1 ELSE 0) = n - k
      BY <1>1
    <2>3. Len(b) = Len(s) - k
      <3> HIDE DEF a, b, r
      <3> QED BY <1>1, <2>1, <2>2
    <2>4. ASSUME NEW j \in 1 .. Len(s) - k PROVE b[j] = s[k + j]
      <3>1. j \in 1 .. Len(s) - (k + 1) + 1 /\ (k + 1) + j - 1 = k + j
        BY <1>1
      <3>2. \A m \in k + 1 .. Len(s) : s[m] \in T
        BY <1>1
      <3>3. b[j] = s[(k + 1) + j - 1]
        BY <1>1, <3>1, <3>2, SubSeqProperties
      <3> QED BY <3>1, <3>3
    <2> QED BY <2>1, <2>3, <2>4
  <1>4. r = a \o b
    BY DEF RemoveAt
  <1> HIDE DEF a, b, r
  <1>5. /\ r \in Seq(T) /\ Len(r) = Len(s) - 1 /\ DOMAIN r = 1 .. Len(s) - 1
        /\ \A j \in 1 .. Len(s) - 1 : r[j] = IF j < k THEN s[j] ELSE s[j + 1]
    <2>1. r \in Seq(T) /\ Len(r) = Len(a) + Len(b)
          /\ \A j \in 1 .. Len(a) + Len(b) : r[j] = IF j <= Len(a) THEN a[j] ELSE b[j - Len(a)]
      BY <1>2, <1>3, <1>4, ConcatProperties
    <2>2. Len(r) = Len(s) - 1 /\ DOMAIN r = 1 .. Len(s) - 1
      BY <1>1, <1>2, <1>3, <2>1
    <2>3. ASSUME NEW j \in 1 .. Len(s) - 1 PROVE r[j] = IF j < k THEN s[j] ELSE s[j + 1]
      <3> j \in 1 .. Len(a) + Len(b)
        BY <1>1, <1>2, <1>3
      <3>1. CASE j < k
        <4>1. j <= Len(a) /\ j \in 1 .. k - 1
          BY <1>1, <1>2, <3>1
        <4> QED BY <1>2, <2>1, <3>1, <4>1
      <3>2. CASE ~ (j < k)
        <4>1. j - (k - 1) \in 1 .. Len(s) - k /\ k + (j - (k - 1)) = j + 1
          BY <1>1, <3>2
        <4>2. ~ (j <= Len(a)) /\ j - Len(a) = j - (k - 1)
          BY <1>1, <1>2, <3>2
        <4>3. r[j] = b[j - (k - 1)]
          BY <2>1, <4>2
        <4> QED BY <1>3, <3>2, <4>1, <4>3
      <3> QED BY <3>1, <3>2
    <2> QED BY <2>1, <2>2, <2>3
  <1>6. \A j, m \in 1 .. Len(s) : s[j] = s[m] => j = m
    BY <1>1 DEF NoRepeat
  <1>7. NoRepeat(r)
    BY <1>1, <1>5, <1>6 DEF NoRepeat
  <1>8. ASSUME NEW y PROVE y \in ToSet(r) <=> y \in ToSet(s) /\ y # s[k]
    <2>1. y \in ToSet(r) <=> \E j \in 1 .. Len(s) - 1 : y = r[j]
      <3>1. y \in ToSet(r) <=> \E j \in 1 .. Len(r) : y = r[j]
        BY <1>5, SetOf
      <3> QED BY <1>5, <3>1
    <2>2. y \in ToSet(s) <=> \E j \in 1 .. Len(s) : y = s[j]
      BY SetOf
    <2>3. ASSUME NEW j \in 1 .. Len(s) - 1, y = r[j] PROVE y \in ToSet(s) /\ y # s[k]
      BY <1>1, <1>5, <1>6, <2>2, <2>3
    <2>4. ASSUME NEW j \in 1 .. Len(s), y = s[j], y # s[k] PROVE y \in ToSet(r)
      <3>1. CASE j < k
        BY <1>1, <1>5, <2>1, <2>4, <3>1
      <3>2. CASE j > k
        <4>1. j - 1 \in 1 .. Len(s) - 1 /\ ~ (j - 1 < k) /\ j - 1 + 1 = j
          BY <1>1, <3>2
        <4> QED BY <1>5, <2>1, <2>4, <4>1
      <3> QED BY <1>1, <2>4, <3>1, <3>2
    <2> QED BY <2>1, <2>2, <2>3, <2>4
  <1> QED BY <1>5, <1>7, <1>8 DEF r

\* Queue 0 collects queue 1.
LEMMA Joined ==
    ASSUME NEW T, NEW s \in Seq(T), NEW u \in Seq(T), NoRepeat(s), NoRepeat(u),
           ToSet(s) \cap ToSet(u) = {}
    PROVE  s \o u \in Seq(T) /\ NoRepeat(s \o u) /\ ToSet(s \o u) = ToSet(s) \cup ToSet(u)
  <1> DEFINE r == s \o u
  <1>1. /\ r \in Seq(T) /\ Len(r) = Len(s) + Len(u)
        /\ \A j \in 1 .. Len(s) + Len(u) : r[j] = IF j <= Len(s) THEN s[j] ELSE u[j - Len(s)]
    OBVIOUS
  <1> HIDE DEF r
  <1>2. Len(s) \in Nat /\ Len(u) \in Nat /\ DOMAIN s = 1 .. Len(s) /\ DOMAIN u = 1 .. Len(u)
        /\ DOMAIN r = 1 .. Len(s) + Len(u)
    BY <1>1
  <1>3. /\ \A j \in 1 .. Len(s) : j \in 1 .. Len(s) + Len(u) /\ r[j] = s[j]
        /\ \A j \in 1 .. Len(u) : j + Len(s) \in 1 .. Len(s) + Len(u) /\ r[j + Len(s)] = u[j]
        /\ \A j \in 1 .. Len(s) + Len(u) : j \in 1 .. Len(s) \/ j - Len(s) \in 1 .. Len(u)
    <2>1. ASSUME NEW j \in 1 .. Len(u) PROVE j + Len(s) \in 1 .. Len(s) + Len(u) /\ r[j + Len(s)] = u[j]
      <3>1. j + Len(s) \in 1 .. Len(s) + Len(u) /\ ~ (j + Len(s) <= Len(s)) /\ j + Len(s) - Len(s) = j
        BY <1>2
      <3> QED BY <1>1, <3>1
    <2> QED BY <1>1, <1>2, <2>1
  <1>4. /\ \A y : y \in ToSet(s) <=> \E j \in 1 .. Len(s) : y = s[j]
        /\ \A y : y \in ToSet(u) <=> \E j \in 1 .. Len(u) : y = u[j]
        /\ \A y : y \in ToSet(r) <=> \E j \in 1 .. Len(s) + Len(u) : y = r[j]
    <2>1. \A y : y \in ToSet(r) <=> \E j \in 1 .. Len(r) : y = r[j]
      BY <1>1, SetOf
    <2>2. /\ \A y : y \in ToSet(s) <=> \E j \in 1 .. Len(s) : y = s[j]
          /\ \A y : y \in ToSet(u) <=> \E j \in 1 .. Len(u) : y = u[j]
      BY SetOf
    <2> QED BY <1>1, <2>1, <2>2
  <1>5. ToSet(r) = ToSet(s) \cup ToSet(u)
    <2>1. ASSUME NEW y \in ToSet(r) PROVE y \in ToSet(s) \cup ToSet(u)
      <3>1. PICK j \in 1 .. Len(s) + Len(u) : y = r[j]
        BY <1>4
      <3>2. CASE j \in 1 .. Len(s)
        BY <1>3, <1>4, <3>1, <3>2
      <3>3. CASE j \notin 1 .. Len(s)
        <4>1. j - Len(s) \in 1 .. Len(u) /\ r[j] = u[j - Len(s)]
          BY <1>1, <1>2, <3>3
        <4> QED BY <1>4, <3>1, <4>1
      <3> QED BY <3>2, <3>3
    <2>2. ASSUME NEW y \in ToSet(s) PROVE y \in ToSet(r)
      BY <1>3, <1>4
    <2>3. ASSUME NEW y \in ToSet(u) PROVE y \in ToSet(r)
      <3>1. PICK j \in 1 .. Len(u) : y = u[j]
        BY <1>4
      <3> QED BY <1>3, <1>4, <3>1
    <2> QED BY <2>1, <2>2, <2>3
  <1>6. NoRepeat(r)
    <2> SUFFICES ASSUME NEW j \in 1 .. Len(s) + Len(u), NEW k \in 1 .. Len(s) + Len(u), r[j] = r[k]
                 PROVE  j = k
      BY <1>2 DEF NoRepeat
    <2>1. \A p, q \in 1 .. Len(s) : s[p] = s[q] => p = q
      BY <1>2 DEF NoRepeat
    <2>2. \A p, q \in 1 .. Len(u) : u[p] = u[q] => p = q
      BY <1>2 DEF NoRepeat
    <2>3. \A p \in 1 .. Len(s), q \in 1 .. Len(u) : s[p] # u[q]
      BY <1>4
    <2>4. ASSUME NEW p \in 1 .. Len(s) + Len(u), p > Len(s)
          PROVE  p - Len(s) \in 1 .. Len(u) /\ r[p] = u[p - Len(s)]
      BY <1>1, <1>2, <2>4
    <2>5. CASE j <= Len(s) /\ k <= Len(s)
      BY <1>2, <1>3, <2>1, <2>5
    <2>6. CASE j <= Len(s) /\ k > Len(s)
      BY <1>2, <1>3, <2>3, <2>4, <2>6
    <2>7. CASE j > Len(s) /\ k <= Len(s)
      BY <1>2, <1>3, <2>3, <2>4, <2>7
    <2>8. CASE j > Len(s) /\ k > Len(s)
      <3>1. j - Len(s) = k - Len(s)
        BY <2>2, <2>4, <2>8
      <3> QED BY <1>2, <3>1
    <2> QED BY <1>2, <2>5, <2>6, <2>7, <2>8
  <1> QED BY <1>1, <1>5, <1>6 DEF r

LEMMA EveryCpu ==
    AllCpus \in Seq(Cpus) /\ ToSet(AllCpus) = Cpus /\ NoRepeat(AllCpus) /\ Len(AllCpus) = CpuCount
  <1>1. CpuCount \in Nat
    BY PolicyAssumption
  <1>2. AllCpus \in Seq(Cpus) /\ Len(AllCpus) = CpuCount /\ \A k \in 1 .. CpuCount : AllCpus[k] = k - 1
    BY <1>1 DEF AllCpus, Cpus
  <1>3. \A c : c \in ToSet(AllCpus) <=> \E k \in 1 .. CpuCount : c = AllCpus[k]
    BY <1>2, SetOf
  <1>4. ASSUME NEW c \in Cpus PROVE c \in ToSet(AllCpus)
    <2>1. c + 1 \in 1 .. CpuCount /\ (c + 1) - 1 = c
      BY <1>1 DEF Cpus
    <2>2. AllCpus[c + 1] = c
      <3>1. AllCpus[c + 1] = (c + 1) - 1
        BY <1>2, <2>1, Zenon
      <3> QED BY <2>1, <3>1
    <2> QED BY <1>3, <2>1, <2>2
  <1>5. ToSet(AllCpus) \subseteq Cpus
    BY <1>2, SetOf
  <1>6. NoRepeat(AllCpus)
    BY <1>1, <1>2 DEF NoRepeat
  <1> QED BY <1>2, <1>4, <1>5, <1>6

-----------------------------------------------------------------------------
(* Tasks on the move *)

LEMMA QueueTypes ==
    ASSUME TypeOK, NEW l \in Levels
    PROVE  /\ task_queues[l] \in Seq(Tasks) /\ QueueSet(l) \subseteq Tasks
           /\ task_queues[l] = <<>> <=> QueueSet(l) = {}
           /\ \A k \in DOMAIN task_queues[l] : k \in 1 .. Len(task_queues[l]) /\ task_queues[l][k] \in QueueSet(l)
  <1>1. task_queues[l] \in Seq(Tasks)
    BY DEF TypeOK
  <1>2. DOMAIN task_queues[l] = 1 .. Len(task_queues[l])
    BY <1>1
  <1> QED BY <1>1, <1>2, SetOf DEF QueueSet

\* A task that is in no queue is pushed to one.
LEMMA QueueGets ==
    ASSUME TypeOK, Homes, NEW t \in Tasks, \A m \in Levels : t \notin QueueSet(m),
           \E l \in Levels : Push(t, l)
    PROVE  /\ task_queues' \in [Levels -> Seq(Tasks)]
           /\ \A m \in Levels : NoRepeat(task_queues'[m])
           /\ \E l \in Levels : \A m \in Levels :
                 QueueSet(m)' = IF m = l THEN QueueSet(m) \cup {t} ELSE QueueSet(m)
  <1>1. PICK l \in Levels : task_queues' = [task_queues EXCEPT ![l] = Append(@, t)]
    BY DEF Push
  <1>2. task_queues \in [Levels -> Seq(Tasks)] /\ task_queues[l] \in Seq(Tasks)
    BY DEF TypeOK
  <1>3. t \notin ToSet(task_queues[l])
    BY DEF QueueSet
  <1>4. NoRepeat(task_queues[l]) /\ \A m \in Levels : NoRepeat(task_queues[m])
    BY DEF Homes
  <1>5. PICK a \in Seq(Tasks) : /\ a = Append(task_queues[l], t) /\ NoRepeat(a)
                                /\ ToSet(a) = ToSet(task_queues[l]) \cup {t}
    <2>1. /\ Append(task_queues[l], t) \in Seq(Tasks) /\ NoRepeat(Append(task_queues[l], t))
          /\ ToSet(Append(task_queues[l], t)) = ToSet(task_queues[l]) \cup {t}
      BY <1>2, <1>3, <1>4, Pushed
    <2> QED BY <2>1, Zenon
  <1>6. task_queues' = [task_queues EXCEPT ![l] = a]
    BY <1>1, <1>5
  <1>7. \A m \in Levels : task_queues'[m] = IF m = l THEN a ELSE task_queues[m]
    BY <1>2, <1>6
  <1>8. \A m \in Levels : QueueSet(m)' = IF m = l THEN QueueSet(m) \cup {t} ELSE QueueSet(m)
    BY <1>5, <1>7 DEF QueueSet
  <1>9. \A m \in Levels : NoRepeat(task_queues'[m])
    BY <1>4, <1>5, <1>7
  <1>10. task_queues' \in [Levels -> Seq(Tasks)]
    BY <1>2, <1>6
  <1> QED BY <1>8, <1>9, <1>10

\* The other tasks stay where they are.
LEMMA Unmoved ==
    ASSUME NEW v, Placed(v), \A l \in Levels : v \in QueueSet(l)' <=> v \in QueueSet(l),
           \A c \in Cpus : slot'[c] = v <=> slot[c] = v,
           v \in blocked' <=> v \in blocked, v \in launched' <=> v \in launched
    PROVE  Placed(v)'
  BY DEF Placed

\* A launched task goes to a queue.
LEMMA Launched ==
    ASSUME TypeOK, Homes, NEW t \in Tasks, t \notin launched, \E l \in Levels : Push(t, l),
           launched' = launched \cup {t}, UNCHANGED <<blocked, slot>>
    PROVE  Homes' /\ task_queues' \in [Levels -> Seq(Tasks)]
  <1>1. /\ t \notin blocked /\ (\A l \in Levels : t \notin QueueSet(l)) /\ \A c \in Cpus : slot[c] # t
    BY DEF Homes, Placed
  <1>2. /\ task_queues' \in [Levels -> Seq(Tasks)]
        /\ \A m \in Levels : NoRepeat(task_queues'[m])
    BY <1>1, QueueGets
  <1>3. PICK l \in Levels : \A m \in Levels :
          QueueSet(m)' = IF m = l THEN QueueSet(m) \cup {t} ELSE QueueSet(m)
    BY <1>1, QueueGets
  <1>4. Placed(t)'
    BY <1>1, <1>3 DEF Placed
  <1>5. ASSUME NEW v \in Tasks, v # t PROVE Placed(v)'
    BY <1>3, <1>5, Unmoved DEF Homes
  <1> QED BY <1>2, <1>4, <1>5 DEF Homes

\* A blocked task goes to a queue.
LEMMA Resolved ==
    ASSUME TypeOK, Homes, NEW t \in blocked, \E l \in Levels : Push(t, l),
           blocked' = blocked \ {t}, UNCHANGED <<launched, slot>>
    PROVE  Homes' /\ task_queues' \in [Levels -> Seq(Tasks)]
  <1>1. /\ t \in Tasks /\ (\A l \in Levels : t \notin QueueSet(l)) /\ \A c \in Cpus : slot[c] # t
    BY DEF Homes, Placed, TypeOK
  <1>2. /\ task_queues' \in [Levels -> Seq(Tasks)]
        /\ \A m \in Levels : NoRepeat(task_queues'[m])
    BY <1>1, QueueGets
  <1>3. PICK l \in Levels : \A m \in Levels :
          QueueSet(m)' = IF m = l THEN QueueSet(m) \cup {t} ELSE QueueSet(m)
    BY <1>1, QueueGets
  <1>4. Placed(t)'
    BY <1>1, <1>3 DEF Homes, Placed
  <1>5. ASSUME NEW v \in Tasks, v # t PROVE Placed(v)'
    BY <1>3, <1>5, Unmoved DEF Homes
  <1> QED BY <1>2, <1>4, <1>5 DEF Homes

\* The task in a slot is put back.
LEMMA Returned ==
    ASSUME TypeOK, Homes, NEW c \in Cpus, slot[c] # NoTask, PutBack(c), UNCHANGED launched
    PROVE  /\ Homes' /\ task_queues' \in [Levels -> Seq(Tasks)] /\ blocked' \subseteq Tasks
           /\ slot' = [slot EXCEPT ![c] = NoTask] /\ slot' \in [Cpus -> Tasks \cup {NoTask}]
           /\ old_affinity' \in [Tasks -> Cpus \cup {CpuCoreNone}]
  <1>1. PICK t \in Tasks : t = slot[c]
    BY DEF TypeOK
  <1>2. /\ slot' = [slot EXCEPT ![c] = NoTask] /\ old_affinity' = [old_affinity EXCEPT ![t] = c]
        /\ add_entity_to_queue(t)
    BY <1>1 DEF PutBack
  <1>3. /\ slot' \in [Cpus -> Tasks \cup {NoTask}]
        /\ old_affinity' \in [Tasks -> Cpus \cup {CpuCoreNone}]
        /\ \A d \in Cpus : slot'[d] = IF d = c THEN NoTask ELSE slot[d]
    BY <1>2 DEF TypeOK
  <1>4. /\ t \notin blocked /\ (\A l \in Levels : t \notin QueueSet(l)) /\ t \in launched /\ t # NoTask
        /\ \A d \in Cpus : slot[d] = t <=> d = c
    BY <1>1, PolicyAssumption DEF Homes, Placed
  <1>5. CASE blocked' = blocked \cup {t} /\ UNCHANGED task_queues
    <2>1. \A l \in Levels : QueueSet(l)' = QueueSet(l)
      BY <1>5 DEF QueueSet
    <2>2. blocked' \subseteq Tasks /\ task_queues' \in [Levels -> Seq(Tasks)]
      BY <1>5 DEF TypeOK
    <2>3. Placed(t)'
      BY <1>3, <1>4, <1>5, <2>1 DEF Placed
    <2>4. ASSUME NEW v \in Tasks, v # t PROVE Placed(v)'
      BY <1>1, <1>3, <1>5, <2>1, <2>4, PolicyAssumption, Unmoved DEF Homes
    <2>5. Homes'
      BY <1>5, <2>3, <2>4 DEF Homes
    <2> QED BY <1>2, <1>3, <2>2, <2>5
  <1>6. CASE (\E l \in Levels : Push(t, l)) /\ UNCHANGED blocked
    <2>1. /\ task_queues' \in [Levels -> Seq(Tasks)]
          /\ \A m \in Levels : NoRepeat(task_queues'[m])
      BY <1>4, <1>6, QueueGets
    <2>2. PICK l \in Levels : \A m \in Levels :
            QueueSet(m)' = IF m = l THEN QueueSet(m) \cup {t} ELSE QueueSet(m)
      BY <1>4, <1>6, QueueGets
    <2>3. Placed(t)'
      BY <1>3, <1>4, <1>6, <2>2 DEF Placed
    <2>4. ASSUME NEW v \in Tasks, v # t PROVE Placed(v)'
      BY <1>1, <1>3, <1>6, <2>2, <2>4, PolicyAssumption, Unmoved DEF Homes
    <2>5. Homes'
      BY <2>1, <2>3, <2>4 DEF Homes
    <2>6. blocked' \subseteq Tasks
      BY <1>6 DEF TypeOK
    <2> QED BY <1>2, <1>3, <2>1, <2>5, <2>6
  <1> QED BY <1>2, <1>5, <1>6 DEF add_entity_to_queue

\* A CPU without a task is given one.
LEMMA Given ==
    ASSUME TypeOK, Homes, NEW c \in Cpus, slot[c] = NoTask, NEW l \in Levels,
           NEW k \in DOMAIN task_queues[l], run_task_queued(c, l, k), UNCHANGED <<launched, blocked>>
    PROVE  /\ Homes' /\ task_queues' \in [Levels -> Seq(Tasks)]
           /\ slot' \in [Cpus -> Tasks \cup {NoTask}] /\ affinity' \in [Tasks -> Cpus \cup {CpuCoreNone}]
           /\ \A d \in Cpus : slot'[d] = NoTask <=> slot[d] = NoTask /\ d # c
           /\ \A m \in Levels : m # l => task_queues'[m] = task_queues[m]
  <1>1. PICK t \in Tasks : t = task_queues[l][k] /\ t \in QueueSet(l) /\ k \in 1 .. Len(task_queues[l])
    BY QueueTypes
  <1>2. /\ slot' = [slot EXCEPT ![c] = t] /\ affinity' = [affinity EXCEPT ![t] = c]
        /\ task_queues' = [task_queues EXCEPT ![l] = RemoveAt(@, k)]
    BY <1>1 DEF run_task_queued
  <1>3. /\ slot' \in [Cpus -> Tasks \cup {NoTask}] /\ affinity' \in [Tasks -> Cpus \cup {CpuCoreNone}]
        /\ \A d \in Cpus : slot'[d] = IF d = c THEN t ELSE slot[d]
    BY <1>2 DEF TypeOK
  <1>4. PICK q \in Seq(Tasks) : q = RemoveAt(task_queues[l], k) /\ NoRepeat(q) /\ ToSet(q) = ToSet(task_queues[l]) \ {t}
    BY <1>1, QueueTypes, Removed DEF Homes
  <1>5. task_queues' = [task_queues EXCEPT ![l] = q] /\ task_queues \in [Levels -> Seq(Tasks)]
    BY <1>2, <1>4 DEF TypeOK
  <1>6. /\ task_queues' \in [Levels -> Seq(Tasks)]
        /\ \A m \in Levels : task_queues'[m] = IF m = l THEN q ELSE task_queues[m]
    BY <1>5
  <1>7. \A m \in Levels : QueueSet(m)' = IF m = l THEN QueueSet(m) \ {t} ELSE QueueSet(m)
    BY <1>4, <1>6 DEF QueueSet
  <1>8. \A m \in Levels : NoRepeat(task_queues'[m])
    BY <1>4, <1>6 DEF Homes
  <1>9. \A m \in Levels : t \in QueueSet(m) <=> m = l
    BY <1>1 DEF Homes, Placed
  <1>10. t # NoTask /\ t \notin blocked /\ t \in launched /\ \A d \in Cpus : slot[d] # t
    BY <1>1, PolicyAssumption DEF Homes, Placed
  <1>11. Placed(t)'
    BY <1>3, <1>7, <1>9, <1>10 DEF Placed
  <1>12. ASSUME NEW v \in Tasks, v # t PROVE Placed(v)'
    BY <1>3, <1>7, <1>12, PolicyAssumption, Unmoved DEF Homes
  <1>13. Homes'
    BY <1>8, <1>11, <1>12 DEF Homes
  <1> QED BY <1>3, <1>6, <1>10, <1>13

LEMMA SamePlaces ==
    ASSUME Homes, UNCHANGED <<launched, task_queues, blocked, slot>>
    PROVE  Homes'
  <1>1. \A l \in Levels : QueueSet(l)' = QueueSet(l)
    BY DEF QueueSet
  <1>2. \A t \in Tasks : Placed(t)'
    BY <1>1, Unmoved DEF Homes
  <1> QED BY <1>2 DEF Homes

-----------------------------------------------------------------------------
(* Between the ticks *)

LEMMA PolicyInvInit == Init => PolicyInv
  <1> SUFFICES ASSUME Init PROVE PolicyInv
    OBVIOUS
  <1>1. TypeOK
    <2>1. <<>> \in Seq(Tasks) /\ <<>> \in Seq(Cpus)
      OBVIOUS
    <2>2. 0 \in 0 .. MaxAttempt /\ 0 \in 0 .. CpuCount + TASK_QUEUE_COUNT
      BY PolicyAssumption DEF MaxAttempt
    <2> QED BY <2>1, <2>2 DEF Init, TypeOK
  <1>2. \A l \in Levels : QueueSet(l) = {} /\ NoRepeat(task_queues[l])
    BY DEF Init, QueueSet, ToSet, NoRepeat
  <1>3. Homes
    BY <1>2, PolicyAssumption DEF Init, Homes, Placed
  <1> QED BY <1>1, <1>3 DEF Init, PolicyInv, Idles, Assigning, UrgentFirst, Conserving, Rounds

LEMMA TaskRun == ASSUME PolicyInv, NEW t \in Tasks, task_run(t) PROVE PolicyInv'
  <1>1. TASK_QUEUE_COUNT \div 2 \in Levels
    BY PolicyAssumption DEF Levels
  <1>2. Homes' /\ task_queues' \in [Levels -> Seq(Tasks)]
    BY <1>1, Launched DEF PolicyInv, task_run
  <1>3. TypeOK'
    BY <1>2 DEF PolicyInv, TypeOK, task_run, homes, passes, fixing
  <1> QED BY <1>2, <1>3 DEF PolicyInv, task_run, passes, fixing, Idles, Assigning, UrgentFirst, Conserving, Rounds

LEMMA Resolve == ASSUME PolicyInv, NEW t \in Tasks, resolve_blocked_task(t) PROVE PolicyInv'
  <1>1. Homes' /\ task_queues' \in [Levels -> Seq(Tasks)]
    BY Resolved DEF PolicyInv, resolve_blocked_task
  <1>2. TypeOK'
    BY <1>1 DEF PolicyInv, TypeOK, resolve_blocked_task, homes, passes, fixing
  <1> QED BY <1>1, <1>2 DEF PolicyInv, resolve_blocked_task, passes, fixing, Idles, Assigning,
                            UrgentFirst, Conserving, Rounds

LEMMA Begin == ASSUME PolicyInv, reschedule_all PROVE PolicyInv'
  <1>1. Homes'
    BY SamePlaces DEF PolicyInv, reschedule_all, queues
  <1>2. TypeOK'
    BY DEF PolicyInv, TypeOK, reschedule_all, queues, homes, passes, fixing
  <1> QED BY <1>1, <1>2 DEF PolicyInv, reschedule_all, fixing, Idles, Assigning, UrgentFirst,
                            Conserving, Rounds

\* The task in c's slot blocks.
LEMMA Block == ASSUME PolicyInv, NEW c \in Cpus, update_runned_task_for_cpu(c) PROVE PolicyInv'
  <1>1. /\ Homes' /\ task_queues' \in [Levels -> Seq(Tasks)] /\ blocked' \subseteq Tasks
        /\ slot' = [slot EXCEPT ![c] = NoTask] /\ slot' \in [Cpus -> Tasks \cup {NoTask}]
        /\ old_affinity' \in [Tasks -> Cpus \cup {CpuCoreNone}]
    BY Returned DEF PolicyInv, update_runned_task_for_cpu
  <1>2. phase = "rest" /\ phase' = "one" /\ i' = c /\ UNCHANGED <<launched, affinity, choosen, retried, to_fix, attempt>>
    BY DEF update_runned_task_for_cpu, passes, fixing
  <1>3. c \in 0 .. CpuCount + TASK_QUEUE_COUNT
    BY PolicyAssumption DEF Cpus
  <1>4. TypeOK'
    BY <1>1, <1>2, <1>3 DEF PolicyInv, TypeOK
  <1>5. slot'[c] = NoTask
    BY <1>1 DEF PolicyInv, TypeOK
  <1> QED BY <1>1, <1>2, <1>4, <1>5 DEF PolicyInv, Idles, Assigning, UrgentFirst, Conserving, Rounds

LEMMA Nearest ==
    ASSUME NEW l \in Levels, NEW c \in Cpus, NEW k \in query_nearest_task(l, c)
    PROVE  k \in DOMAIN task_queues[l]
  BY DEF query_nearest_task

LEMMA One == ASSUME PolicyInv, schedule_one PROVE PolicyInv'
  <1>1. /\ phase = "one" /\ phase' = "rest" /\ i' = 0
        /\ UNCHANGED <<launched, blocked, old_affinity, choosen, retried, to_fix, attempt>>
    BY DEF schedule_one, passes, fixing
  <1>2. i \in Cpus /\ slot[i] = NoTask
    BY <1>1 DEF PolicyInv, Idles
  <1>3. /\ Homes' /\ task_queues' \in [Levels -> Seq(Tasks)]
        /\ slot' \in [Cpus -> Tasks \cup {NoTask}] /\ affinity' \in [Tasks -> Cpus \cup {CpuCoreNone}]
    <2>1. CASE UNCHANGED <<task_queues, slot, affinity>>
      BY <1>1, <2>1, SamePlaces DEF PolicyInv, TypeOK
    <2>2. ASSUME NEW l \in Levels, task_queues[l] # <<>>,
                 NEW k \in (IF query_nearest_task(l, i) = {} THEN {1} ELSE query_nearest_task(l, i)),
                 run_task_queued(i, l, k)
          PROVE  /\ Homes' /\ task_queues' \in [Levels -> Seq(Tasks)]
                 /\ slot' \in [Cpus -> Tasks \cup {NoTask}] /\ affinity' \in [Tasks -> Cpus \cup {CpuCoreNone}]
      <3>1. k \in DOMAIN task_queues[l]
        <4>1. CASE query_nearest_task(l, i) = {}
          <5>1. task_queues[l] \in Seq(Tasks) /\ k = 1
            BY <2>2, <4>1, QueueTypes DEF PolicyInv
          <5> QED BY <2>2, <5>1
        <4>2. CASE query_nearest_task(l, i) # {}
          BY <1>2, <2>2, <4>2, Nearest
        <4> QED BY <4>1, <4>2
      <3> QED BY <1>1, <1>2, <2>2, <3>1, Given DEF PolicyInv
    <2> QED BY <2>1, <2>2 DEF schedule_one
  <1>4. TypeOK'
    <2>1. 0 \in 0 .. CpuCount + TASK_QUEUE_COUNT
      BY PolicyAssumption
    <2> QED BY <1>1, <1>3, <2>1 DEF PolicyInv, TypeOK
  <1> QED BY <1>1, <1>3, <1>4 DEF PolicyInv, Idles, Assigning, UrgentFirst, Conserving, Rounds

-----------------------------------------------------------------------------
(* The tick *)

\* Queue 0 collects queue 1, and each other queue becomes the one before it.
LEMMA Shift == ASSUME PolicyInv, shift_queues PROVE PolicyInv'
  <1>1. /\ phase = "resolve" /\ phase' = "requeue" /\ i' = 0
        /\ UNCHANGED <<launched, blocked, slot, affinity, old_affinity, choosen, retried, to_fix, attempt>>
        /\ task_queues' = [l \in Levels |->
              IF l = 0 THEN task_queues[0] \o task_queues[1]
              ELSE IF l + 1 \in Levels THEN task_queues[l + 1] ELSE <<>>]
    BY DEF shift_queues, homes, passes, fixing
  <1>2. 0 \in Levels /\ 1 \in Levels /\ \A l \in Levels : l \in Nat
    BY PolicyAssumption DEF Levels
  <1>3. task_queues[0] \in Seq(Tasks) /\ task_queues[1] \in Seq(Tasks)
    BY <1>2 DEF PolicyInv, TypeOK
  <1>4. ToSet(task_queues[0]) \cap ToSet(task_queues[1]) = {}
    <2>1. \A t \in Tasks : ~ (t \in QueueSet(0) /\ t \in QueueSet(1))
      BY <1>2 DEF PolicyInv, Homes, Placed
    <2>2. QueueSet(0) \subseteq Tasks
      BY <1>2, QueueTypes DEF PolicyInv
    <2> QED BY <2>1, <2>2 DEF QueueSet
  <1>5. PICK q \in Seq(Tasks) : q = task_queues[0] \o task_queues[1] /\ NoRepeat(q)
                                /\ ToSet(q) = ToSet(task_queues[0]) \cup ToSet(task_queues[1])
    <2>1. NoRepeat(task_queues[0]) /\ NoRepeat(task_queues[1])
      BY <1>2 DEF PolicyInv, Homes
    <2>2. /\ task_queues[0] \o task_queues[1] \in Seq(Tasks) /\ NoRepeat(task_queues[0] \o task_queues[1])
          /\ ToSet(task_queues[0] \o task_queues[1]) = ToSet(task_queues[0]) \cup ToSet(task_queues[1])
      BY <1>3, <1>4, <2>1, Joined
    <2> QED BY <2>2, Zenon
  <1>6. \A l \in Levels : task_queues'[l] = IF l = 0 THEN q ELSE IF l + 1 \in Levels THEN task_queues[l + 1] ELSE <<>>
    BY <1>1, <1>5
  <1>7. task_queues' \in [Levels -> Seq(Tasks)] /\ \A l \in Levels : NoRepeat(task_queues'[l])
    <2>1. ASSUME NEW l \in Levels PROVE task_queues'[l] \in Seq(Tasks) /\ NoRepeat(task_queues'[l])
      <3>1. <<>> \in Seq(Tasks) /\ NoRepeat(<<>>)
        BY DEF NoRepeat
      <3>2. \A m \in Levels : task_queues[m] \in Seq(Tasks) /\ NoRepeat(task_queues[m])
        BY DEF PolicyInv, Homes, TypeOK
      <3> QED BY <1>5, <1>6, <3>1, <3>2
    <2>2. DOMAIN task_queues' = Levels /\ task_queues' = [l \in Levels |-> task_queues'[l]]
      BY <1>1
    <2> QED BY <2>1, <2>2
  <1>8. /\ QueueSet(0)' = QueueSet(0) \cup QueueSet(1)
        /\ \A l \in Levels : l # 0 => QueueSet(l)' = IF l + 1 \in Levels THEN QueueSet(l + 1) ELSE {}
    <2>1. ToSet(<<>>) = {}
      BY DEF ToSet
    <2> QED BY <1>2, <1>5, <1>6, <2>1 DEF QueueSet
  <1>9. ASSUME NEW t \in Tasks PROVE Placed(t)'
    <2>1. Placed(t)
      BY DEF PolicyInv, Homes
    <2>2. \A l \in Levels : t \in QueueSet(l)' <=>
            (l + 1 \in Levels /\ t \in QueueSet(l + 1)) \/ (l = 0 /\ t \in QueueSet(0))
      BY <1>2, <1>8
    <2>3. \A l \in Levels : l # 0 => l - 1 \in Levels /\ (l - 1) + 1 = l
      BY PolicyAssumption DEF Levels
    <2>4. (\E l \in Levels : t \in QueueSet(l)') <=> \E l \in Levels : t \in QueueSet(l)
      <3>1. ASSUME NEW l \in Levels, t \in QueueSet(l) PROVE \E m \in Levels : t \in QueueSet(m)'
        <4>1. CASE l = 0
          BY <1>2, <2>2, <3>1, <4>1
        <4>2. CASE l # 0
          BY <2>2, <2>3, <3>1, <4>2
        <4> QED BY <4>1, <4>2
      <3> QED BY <2>2, <3>1
    <2>5. ASSUME NEW l \in Levels, NEW m \in Levels, t \in QueueSet(l)', t \in QueueSet(m)' PROVE l = m
      <3>1. l \in Nat /\ m \in Nat /\ 0 \in Levels
        BY <1>2
      <3>2. \A n, o \in Levels : t \in QueueSet(n) /\ t \in QueueSet(o) => n = o
        BY <2>1 DEF Placed
      <3>3. CASE l + 1 \in Levels /\ t \in QueueSet(l + 1)
        BY <2>2, <2>5, <3>1, <3>2, <3>3
      <3>4. CASE l = 0 /\ t \in QueueSet(0)
        BY <2>2, <2>5, <3>1, <3>2, <3>4
      <3> QED BY <2>2, <2>5, <3>3, <3>4
    <2> QED BY <1>1, <2>1, <2>4, <2>5 DEF Placed
  <1>10. TypeOK'
    <2>1. 0 \in 0 .. CpuCount + TASK_QUEUE_COUNT
      BY PolicyAssumption
    <2> QED BY <1>1, <1>7, <2>1 DEF PolicyInv, TypeOK
  <1>11. Homes'
    BY <1>7, <1>9 DEF Homes
  <1>12. Idles'
    BY <1>1, PolicyAssumption DEF Idles, Assigning
  <1> QED BY <1>1, <1>10, <1>11, <1>12 DEF PolicyInv, UrgentFirst, Conserving, Rounds

\* The slots are emptied one after the other.
LEMMA Requeue == ASSUME PolicyInv, update_runned_task PROVE PolicyInv'
  <1>1. /\ phase = "requeue" /\ i < CpuCount /\ i' = i + 1
        /\ UNCHANGED <<launched, affinity, phase, choosen, retried, to_fix, attempt>>
        /\ \/ slot[i] = NoTask /\ UNCHANGED <<task_queues, blocked, old_affinity, slot>>
           \/ slot[i] # NoTask /\ PutBack(i)
    BY DEF update_runned_task, queues, passes, fixing
  <1>2. i \in Nat /\ i \in Cpus /\ \A c \in 0 .. i - 1 : slot[c] = NoTask
    BY <1>1, PolicyAssumption DEF PolicyInv, Idles, Cpus
  <1>3. /\ Homes' /\ task_queues' \in [Levels -> Seq(Tasks)] /\ blocked' \subseteq Tasks
        /\ slot' \in [Cpus -> Tasks \cup {NoTask}]
        /\ old_affinity' \in [Tasks -> Cpus \cup {CpuCoreNone}]
        /\ \A c \in Cpus : slot'[c] = IF c = i THEN NoTask ELSE slot[c]
    <2>1. CASE slot[i] = NoTask /\ UNCHANGED <<task_queues, blocked, old_affinity, slot>>
      BY <1>1, <2>1, SamePlaces DEF PolicyInv, TypeOK
    <2>2. CASE slot[i] # NoTask /\ PutBack(i)
      BY <1>1, <1>2, <2>2, Returned DEF PolicyInv, TypeOK
    <2> QED BY <1>1, <2>1, <2>2
  <1>4. i + 1 \in 0 .. CpuCount /\ i + 1 \in 0 .. CpuCount + TASK_QUEUE_COUNT
    BY <1>1, <1>2, PolicyAssumption
  <1>5. TypeOK'
    BY <1>1, <1>3, <1>4 DEF PolicyInv, TypeOK
  <1>6. \A c \in 0 .. i' - 1 : slot'[c] = NoTask
    BY <1>1, <1>2, <1>3, PolicyAssumption DEF Cpus
  <1> QED BY <1>1, <1>3, <1>4, <1>5, <1>6 DEF PolicyInv, Idles, Assigning, UrgentFirst, Conserving, Rounds

\* The worklist at the beginning of fix_sched_affinity
LEMMA FixBegins == ASSUME StartFix PROVE Rounds' /\ to_fix' \in Seq(Cpus) /\ attempt' \in 0 .. MaxAttempt
  <1>1. to_fix' = AllCpus /\ attempt' = 0 /\ phase' = "fix"
    BY DEF StartFix
  <1>2. Len(to_fix') = CpuCount /\ CpuCount \in Nat
    BY <1>1, EveryCpu, PolicyAssumption
  <1>3. 0 + 2 * CpuCount <= 2 * CpuCount + 0 /\ 0 + 2 * CpuCount <= 2 * CpuCount + 1
    BY <1>2
  <1>4. Rounds'
    BY <1>1, <1>2, <1>3 DEF Rounds
  <1> QED BY <1>1, <1>2, <1>4, EveryCpu DEF MaxAttempt

LEMMA Nothing == ASSUME PolicyInv, schedule_nothing PROVE PolicyInv'
  <1>1. /\ phase' = "fix" /\ choosen' = <<>> /\ retried' = <<>> /\ StartFix /\ awaiting_task_count = 0
        /\ UNCHANGED <<launched, task_queues, blocked, slot, affinity, old_affinity, i>>
    BY DEF schedule_nothing, StartFix, queues, homes
  <1>2. Homes'
    BY <1>1, SamePlaces DEF PolicyInv
  <1>3. TypeOK'
    <2>1. <<>> \in Seq(Cpus)
      OBVIOUS
    <2> QED BY <1>1, <2>1, FixBegins DEF PolicyInv, TypeOK
  <1>4. \A t \in Tasks : ~ Queued(t)
    <2>1. {t \in Tasks : t \in blocked \/ Queued(t)} \subseteq Tasks /\ IsFiniteSet(Tasks)
      BY PolicyAssumption
    <2>2. IsFiniteSet({t \in Tasks : t \in blocked \/ Queued(t)})
      BY <2>1, FS_Subset
    <2>3. {t \in Tasks : t \in blocked \/ Queued(t)} = {}
      BY <1>1, <2>2, FS_EmptySet DEF awaiting_task_count
    <2> QED BY <2>3
  <1>5. \A t \in Tasks : ~ Queued(t)'
    BY <1>1, <1>4 DEF Queued
  <1> QED BY <1>1, <1>2, <1>3, <1>5, FixBegins DEF PolicyInv, Idles, Assigning, UrgentFirst, Conserving

LEMMA All == ASSUME PolicyInv, schedule_all PROVE PolicyInv'
  <1>1. /\ phase = "requeue" /\ i = CpuCount /\ phase' = "level" /\ i' = 0
        /\ choosen' = AllCpus /\ retried' = <<>>
        /\ UNCHANGED <<launched, task_queues, blocked, slot, affinity, old_affinity, to_fix, attempt>>
    BY DEF schedule_all, queues, homes, fixing
  <1>2. Homes'
    BY <1>1, SamePlaces DEF PolicyInv
  <1>3. TypeOK'
    <2>1. <<>> \in Seq(Cpus) /\ 0 \in 0 .. CpuCount + TASK_QUEUE_COUNT
      BY PolicyAssumption
    <2> QED BY <1>1, <2>1, EveryCpu DEF PolicyInv, TypeOK
  <1>4. \A c \in Cpus : slot'[c] = NoTask
    BY <1>1 DEF PolicyInv, Idles, Cpus
  <1>5. NoRepeat(retried') /\ ToSet(retried') = {} /\ OnList' = Cpus
    BY <1>1, EveryCpu DEF NoRepeat, ToSet, OnList
  <1>6. Idles'
    BY <1>1, <1>4, <1>5, EveryCpu, PolicyAssumption DEF Idles, Assigning
  <1>7. UrgentFirst'
    BY <1>1 DEF UrgentFirst
  <1> QED BY <1>1, <1>2, <1>3, <1>6, <1>7 DEF PolicyInv, Conserving, Rounds

-----------------------------------------------------------------------------
(* schedule_all: the queues, and for each of them two passes over the CPUs *)

LEMMA Skip == ASSUME PolicyInv, skip_queue PROVE PolicyInv'
  <1>1. /\ phase = "level" /\ i < TASK_QUEUE_COUNT /\ task_queues[i] = <<>> /\ i' = i + 1 /\ retried' = <<>>
        /\ UNCHANGED <<launched, task_queues, blocked, slot, affinity, old_affinity, phase, choosen, to_fix, attempt>>
    BY DEF skip_queue, queues, homes, fixing
  <1>2. i \in 0 .. TASK_QUEUE_COUNT /\ TASK_QUEUE_COUNT \in Nat /\ CpuCount \in Nat /\ retried = <<>>
    BY <1>1, PolicyAssumption DEF PolicyInv, Idles
  <1>3. Homes'
    BY <1>1, SamePlaces DEF PolicyInv
  <1>4. i + 1 \in 0 .. CpuCount + TASK_QUEUE_COUNT /\ i + 1 \in 0 .. TASK_QUEUE_COUNT
    BY <1>1, <1>2
  <1>5. TypeOK'
    BY <1>1, <1>2, <1>4 DEF PolicyInv, TypeOK
  <1>6. UrgentFirst'
    <2>1. \A l \in 0 .. (i + 1) - 1 : l = i \/ l \in 0 .. i - 1
      BY <1>2
    <2> QED BY <1>1, <2>1 DEF PolicyInv, UrgentFirst
  <1>7. Idles'
    BY <1>1, <1>2, <1>4 DEF PolicyInv, Idles, Assigning, OnList
  <1> QED BY <1>1, <1>3, <1>5, <1>6, <1>7 DEF PolicyInv, Conserving, Rounds

LEMMA Enter == ASSUME PolicyInv, enter_queue PROVE PolicyInv'
  <1>1. /\ phase = "level" /\ i < TASK_QUEUE_COUNT /\ phase' = "match" /\ retried' = <<>>
        /\ UNCHANGED <<launched, task_queues, blocked, slot, affinity, old_affinity, i, choosen, to_fix, attempt>>
    BY DEF enter_queue, queues, homes, fixing
  <1>2. i \in Levels /\ retried = <<>>
    BY <1>1, PolicyAssumption DEF PolicyInv, Idles, Levels
  <1>3. Homes'
    BY <1>1, SamePlaces DEF PolicyInv
  <1>4. TypeOK'
    BY <1>1, <1>2 DEF PolicyInv, TypeOK
  <1>5. UrgentFirst'
    BY <1>1, <1>2 DEF PolicyInv, UrgentFirst
  <1>6. Idles'
    BY <1>1, <1>2 DEF PolicyInv, Idles, Assigning, OnList
  <1> QED BY <1>1, <1>3, <1>4, <1>5, <1>6 DEF PolicyInv, Conserving, Rounds

\* The CPU c, the top of one of the lists, takes task k of queue i.
LEMMA Takes ==
    ASSUME PolicyInv, phase \in {"match", "any"}, NEW c \in Cpus, c \in OnList,
           NEW k \in DOMAIN task_queues[i], run_task_queued(c, i, k),
           choosen' \in Seq(Cpus), NoRepeat(choosen'), retried' \in Seq(Cpus), NoRepeat(retried'),
           ToSet(choosen') \cap ToSet(retried') = {}, OnList' = OnList \ {c},
           phase = "any" => choosen' = <<>>,
           UNCHANGED <<launched, blocked, old_affinity, phase, i, to_fix, attempt>>
    PROVE  PolicyInv'
  <1>1. i \in Levels /\ slot[c] = NoTask
    BY DEF PolicyInv, Idles, Assigning
  <1>2. /\ Homes' /\ task_queues' \in [Levels -> Seq(Tasks)]
        /\ slot' \in [Cpus -> Tasks \cup {NoTask}] /\ affinity' \in [Tasks -> Cpus \cup {CpuCoreNone}]
        /\ \A d \in Cpus : slot'[d] = NoTask <=> slot[d] = NoTask /\ d # c
        /\ \A m \in Levels : m # i => task_queues'[m] = task_queues[m]
    BY <1>1, Given DEF PolicyInv
  <1>3. TypeOK'
    BY <1>2 DEF PolicyInv, TypeOK
  <1>4. Idles'
    BY <1>2 DEF PolicyInv, Idles, Assigning
  <1>5. choosen # <<>> \/ retried # <<>>
    BY SetOf DEF PolicyInv, TypeOK, OnList
  <1>6. UrgentFirst'
    <2>1. \A l \in 0 .. i - 1 : l \in Levels /\ l # i
      BY <1>1, PolicyAssumption DEF Levels
    <2>2. \A l \in 0 .. i - 1 : task_queues[l] = <<>>
      BY <1>5 DEF PolicyInv, UrgentFirst
    <2> QED BY <1>2, <2>1, <2>2 DEF UrgentFirst
  <1> QED BY <1>2, <1>3, <1>4, <1>6 DEF PolicyInv, Conserving, Rounds

LEMMA Match == ASSUME PolicyInv, match_cpu PROVE PolicyInv'
  <1>1. PICK c \in Cpus : c = Last(choosen)
    BY Popped DEF PolicyInv, TypeOK, match_cpu
  <1>2. /\ phase = "match" /\ choosen # <<>> /\ choosen' = Front(choosen)
        /\ UNCHANGED <<launched, blocked, old_affinity, phase, i, to_fix, attempt>>
        /\ \/ UNCHANGED retried /\ \E k \in query_nearest_task(i, c) : run_task_queued(c, i, k)
           \/ retried' = Append(retried, c) /\ UNCHANGED <<task_queues, slot, affinity>>
    BY <1>1 DEF match_cpu, fixing
  <1>3. /\ choosen \in Seq(Cpus) /\ retried \in Seq(Cpus) /\ i \in Levels
        /\ NoRepeat(choosen) /\ NoRepeat(retried) /\ ToSet(choosen) \cap ToSet(retried) = {}
    BY <1>2 DEF PolicyInv, TypeOK, Idles, Assigning
  <1>4. /\ choosen' \in Seq(Cpus) /\ NoRepeat(choosen') /\ ToSet(choosen') = ToSet(choosen) \ {c}
        /\ c \in ToSet(choosen)
    BY <1>1, <1>2, <1>3, Popped
  <1>5. CASE UNCHANGED retried /\ \E k \in query_nearest_task(i, c) : run_task_queued(c, i, k)
    <2>1. PICK k \in DOMAIN task_queues[i] : run_task_queued(c, i, k)
      BY <1>3, <1>5, Nearest
    <2>2. OnList' = OnList \ {c} /\ c \in OnList /\ ToSet(choosen') \cap ToSet(retried') = {}
      BY <1>3, <1>4, <1>5 DEF OnList
    <2> QED BY <1>2, <1>3, <1>4, <1>5, <2>1, <2>2, Takes
  <1>6. CASE retried' = Append(retried, c) /\ UNCHANGED <<task_queues, slot, affinity>>
    <2>1. c \notin ToSet(retried)
      BY <1>3, <1>4
    <2>2. retried' \in Seq(Cpus) /\ NoRepeat(retried') /\ ToSet(retried') = ToSet(retried) \cup {c}
      BY <1>3, <1>6, <2>1, Pushed
    <2>3. OnList' = OnList /\ ToSet(choosen') \cap ToSet(retried') = {}
      BY <1>3, <1>4, <2>2 DEF OnList
    <2>4. Homes'
      BY <1>2, <1>6, SamePlaces DEF PolicyInv
    <2>5. TypeOK'
      BY <1>2, <1>4, <1>6, <2>2 DEF PolicyInv, TypeOK
    <2>6. Idles'
      BY <1>2, <1>4, <1>6, <2>2, <2>3 DEF PolicyInv, Idles, Assigning
    <2>7. UrgentFirst'
      BY <1>2, <1>6 DEF PolicyInv, UrgentFirst
    <2> QED BY <1>2, <2>4, <2>5, <2>6, <2>7 DEF PolicyInv, Conserving, Rounds
  <1> QED BY <1>2, <1>5, <1>6

LEMMA MatchDone == ASSUME PolicyInv, match_done PROVE PolicyInv'
  <1>1. /\ phase = "match" /\ choosen = <<>> /\ phase' = "any"
        /\ UNCHANGED <<launched, task_queues, blocked, slot, affinity, old_affinity, i, choosen, retried, to_fix, attempt>>
    BY DEF match_done, queues, homes, passes, fixing
  <1>2. Homes'
    BY <1>1, SamePlaces DEF PolicyInv
  <1>3. TypeOK'
    BY <1>1 DEF PolicyInv, TypeOK
  <1>4. UrgentFirst'
    BY <1>1 DEF PolicyInv, UrgentFirst
  <1>5. Idles'
    BY <1>1 DEF PolicyInv, Idles, Assigning, OnList
  <1> QED BY <1>1, <1>2, <1>3, <1>4, <1>5 DEF PolicyInv, Conserving, Rounds

LEMMA TakeAny == ASSUME PolicyInv, take_any PROVE PolicyInv'
  <1>1. PICK c \in Cpus : c = Last(retried)
    BY Popped DEF PolicyInv, TypeOK, take_any
  <1>2. /\ phase = "any" /\ retried # <<>> /\ retried' = Front(retried) /\ task_queues[i] # <<>>
        /\ UNCHANGED <<launched, blocked, old_affinity, phase, i, choosen, to_fix, attempt>>
        /\ run_task_queued(c, i, 1)
    BY <1>1 DEF take_any, fixing
  <1>3. /\ choosen \in Seq(Cpus) /\ retried \in Seq(Cpus) /\ i \in Levels /\ choosen = <<>>
        /\ NoRepeat(choosen) /\ NoRepeat(retried) /\ ToSet(choosen) \cap ToSet(retried) = {}
    BY <1>2 DEF PolicyInv, TypeOK, Idles, Assigning
  <1>4. /\ retried' \in Seq(Cpus) /\ NoRepeat(retried') /\ ToSet(retried') = ToSet(retried) \ {c}
        /\ c \in ToSet(retried)
    BY <1>1, <1>2, <1>3, Popped
  <1>5. 1 \in DOMAIN task_queues[i]
    <2>1. task_queues[i] \in Seq(Tasks)
      BY <1>3, QueueTypes DEF PolicyInv
    <2> QED BY <1>2, <2>1
  <1>6. OnList' = OnList \ {c} /\ c \in OnList /\ ToSet(choosen') \cap ToSet(retried') = {}
    BY <1>2, <1>3, <1>4 DEF OnList
  <1> QED BY <1>2, <1>3, <1>4, <1>5, <1>6, Takes

LEMMA NextQueue == ASSUME PolicyInv, next_queue PROVE PolicyInv'
  <1>1. /\ phase = "any" /\ (retried = <<>> \/ task_queues[i] = <<>>)
        /\ phase' = "level" /\ i' = i + 1 /\ choosen' = retried /\ retried' = <<>>
        /\ UNCHANGED <<launched, task_queues, blocked, slot, affinity, old_affinity, to_fix, attempt>>
    BY DEF next_queue, queues, homes, fixing
  <1>2. i \in Levels /\ choosen = <<>>
    BY <1>1 DEF PolicyInv, Idles
  <1>3. i + 1 \in 0 .. CpuCount + TASK_QUEUE_COUNT /\ i + 1 \in 0 .. TASK_QUEUE_COUNT
    BY <1>2, PolicyAssumption DEF Levels
  <1>4. Homes'
    BY <1>1, SamePlaces DEF PolicyInv
  <1>5. TypeOK'
    <2>1. <<>> \in Seq(Cpus)
      OBVIOUS
    <2> QED BY <1>1, <1>3, <2>1 DEF PolicyInv, TypeOK
  <1>6. UrgentFirst'
    <2>1. \A l \in 0 .. (i + 1) - 1 : l = i \/ l \in 0 .. i - 1
      BY <1>2, PolicyAssumption DEF Levels
    <2> QED BY <1>1, <2>1 DEF PolicyInv, UrgentFirst
  <1>7. ToSet(<<>>) = {} /\ NoRepeat(<<>>)
    BY DEF ToSet, NoRepeat
  <1>8. OnList' = OnList
    BY <1>1, <1>2, <1>7 DEF OnList
  <1>9. Idles'
    BY <1>1, <1>3, <1>7, <1>8 DEF PolicyInv, Idles, Assigning
  <1> QED BY <1>1, <1>4, <1>5, <1>6, <1>9 DEF PolicyInv, Conserving, Rounds

\* A CPU that is left has seen all queues empty.
LEMMA Rest == ASSUME PolicyInv, schedule_rest PROVE PolicyInv'
  <1>1. /\ phase = "level" /\ i = TASK_QUEUE_COUNT /\ phase' = "fix" /\ StartFix
        /\ slot' = [c \in Cpus |-> IF c \in ToSet(choosen) THEN NoTask ELSE slot[c]]
        /\ UNCHANGED <<launched, task_queues, blocked, affinity, old_affinity, i, choosen, retried>>
    BY DEF schedule_rest, StartFix, queues, homes, passes
  <1>2. \A c \in Cpus : slot[c] = NoTask <=> c \in OnList
    BY <1>1 DEF PolicyInv, Idles, Assigning
  <1>3. slot' = slot
    <2>1. slot \in [Cpus -> Tasks \cup {NoTask}]
      BY DEF PolicyInv, TypeOK
    <2>2. \A c \in Cpus : slot'[c] = slot[c]
      BY <1>1, <1>2 DEF OnList
    <2> QED BY <1>1, <2>1, <2>2
  <1>4. Homes'
    BY <1>1, <1>3, SamePlaces DEF PolicyInv
  <1>5. TypeOK'
    BY <1>1, <1>3, FixBegins DEF PolicyInv, TypeOK
  <1>6. Conserving'
    <2> SUFFICES ASSUME NEW c \in Cpus, slot'[c] = NoTask, NEW t \in Tasks
                 PROVE  ~ Queued(t)'
      BY DEF Conserving
    <2>1. choosen # <<>> \/ retried # <<>>
      BY <1>2, <1>3, SetOf DEF PolicyInv, TypeOK, OnList
    <2>2. \A l \in Levels : task_queues[l] = <<>>
      BY <1>1, <2>1 DEF PolicyInv, UrgentFirst, Levels
    <2>3. ToSet(<<>>) = {}
      BY DEF ToSet
    <2> QED BY <1>1, <2>2, <2>3 DEF Queued
  <1> QED BY <1>1, <1>4, <1>5, <1>6, FixBegins DEF PolicyInv, Idles, Assigning, UrgentFirst

-----------------------------------------------------------------------------
(* fix_sched_affinity *)

\* Another round is possible as long as the worklist is not empty.
LEMMA RoundsLeft ==
    ASSUME PolicyInv, phase = "fix"
    PROVE  /\ attempt \in Nat /\ CpuCount \in Nat \ {0} /\ attempt <= 2 * CpuCount
           /\ attempt + 1 \in 0 .. MaxAttempt /\ attempt # MaxAttempt /\ ~ (attempt >= MaxAttempt)
  <1>1. attempt \in 0 .. MaxAttempt /\ CpuCount \in Nat \ {0} /\ to_fix \in Seq(Cpus)
    BY PolicyAssumption DEF PolicyInv, TypeOK
  <1>2. PICK n \in Nat : n = Len(to_fix) /\ (to_fix # <<>> => n > 0)
    BY <1>1
  <1>3. attempt + 2 * n <= 2 * CpuCount + (IF to_fix # <<>> /\ Settled THEN 1 ELSE 0)
    BY <1>2 DEF PolicyInv, Rounds
  <1>4. attempt \in Nat /\ attempt <= 2 * CpuCount
    <2>1. CASE to_fix = <<>>
      BY <1>1, <1>2, <1>3, <2>1
    <2>2. CASE to_fix # <<>>
      BY <1>1, <1>2, <1>3, <2>2
    <2> QED BY <2>1, <2>2
  <1> QED BY <1>1, <1>4 DEF MaxAttempt

LEMMA FixSettled == ASSUME PolicyInv, fix_settled PROVE PolicyInv'
  <1>1. /\ phase = "fix" /\ to_fix # <<>> /\ attempt' = attempt + 1 /\ Settled /\ to_fix' = Front(to_fix)
        /\ UNCHANGED <<launched, task_queues, blocked, slot, affinity, old_affinity, phase, i, choosen, retried>>
    BY DEF fix_settled, FixRound, queues, homes, passes
  <1> HIDE DEF fix_settled
  <1>2. attempt \in Nat /\ CpuCount \in Nat \ {0} /\ attempt + 1 \in 0 .. MaxAttempt
    BY <1>1, RoundsLeft
  <1>3. to_fix \in Seq(Cpus)
    BY DEF PolicyInv, TypeOK
  <1>4. to_fix' \in Seq(Cpus) /\ Len(to_fix') = Len(to_fix) - 1 /\ Len(to_fix) \in Nat /\ Len(to_fix) > 0
    BY <1>1, <1>3, Popped
  <1>5. attempt + 2 * Len(to_fix) <= 2 * CpuCount + 1
    BY <1>1 DEF PolicyInv, Rounds
  <1>6. attempt' + 2 * Len(to_fix') <= 2 * CpuCount
    BY <1>1, <1>2, <1>4, <1>5
  <1>7. Rounds'
    BY <1>1, <1>2, <1>4, <1>6 DEF Rounds
  <1>8. Homes'
    BY <1>1, SamePlaces DEF PolicyInv
  <1>9. TypeOK'
    BY <1>1, <1>2, <1>4 DEF PolicyInv, TypeOK
  <1>10. Conserving'
    BY <1>1 DEF PolicyInv, Conserving, Queued
  <1> QED BY <1>1, <1>7, <1>8, <1>9, <1>10 DEF PolicyInv, Idles, Assigning, UrgentFirst

\* After an exchange the CPU on top of the worklist is settled.
LEMMA FixSwap == ASSUME PolicyInv, fix_swap PROVE PolicyInv'
  <1>1. /\ phase = "fix" /\ to_fix # <<>> /\ attempt' = attempt + 1 /\ ~ Settled
        /\ slot' = [slot EXCEPT ![old_cpu] = slot[current], ![current] = slot[old_cpu]]
        /\ affinity' = [t \in Tasks |-> IF t = slot[current] THEN old_cpu
                                        ELSE IF t = slot[old_cpu] THEN current ELSE affinity[t]]
        /\ to_fix' = Append(Front(to_fix), old_cpu)
        /\ UNCHANGED <<launched, task_queues, blocked, old_affinity, phase, i, choosen, retried>>
    BY DEF fix_swap, FixRound, queues, passes
  <1> HIDE DEF fix_swap
  <1>2. attempt \in Nat /\ CpuCount \in Nat \ {0} /\ attempt + 1 \in 0 .. MaxAttempt
    BY <1>1, RoundsLeft
  <1>3. to_fix \in Seq(Cpus) /\ slot \in [Cpus -> Tasks \cup {NoTask}] /\ Front(to_fix) \in Seq(Cpus)
        /\ Len(Front(to_fix)) = Len(to_fix) - 1 /\ Len(to_fix) \in Nat /\ Len(to_fix) > 0
    <2>1. to_fix \in Seq(Cpus) /\ slot \in [Cpus -> Tasks \cup {NoTask}]
      BY DEF PolicyInv, TypeOK
    <2> QED BY <1>1, <2>1, Popped
  <1>4. PICK c \in Cpus : c = current
    BY <1>1, <1>3, Popped DEF current
  <1>5. PICK t \in Tasks : t = slot[c] /\ old_cpu = old_affinity[t]
    BY <1>1, <1>3, <1>4, PolicyAssumption DEF Settled, old_cpu, Ran
  <1>6. PICK o \in Cpus : o = old_cpu /\ o # c /\ o = old_affinity[t]
    BY <1>1, <1>4, <1>5 DEF PolicyInv, TypeOK, Settled
  <1>7. /\ slot' = [slot EXCEPT ![o] = slot[c], ![c] = slot[o]]
        /\ to_fix' = Append(Front(to_fix), o)
        /\ affinity' = [v \in Tasks |-> IF v = slot[c] THEN o ELSE IF v = slot[o] THEN c ELSE affinity[v]]
    BY <1>1, <1>4, <1>6
  <1>8. /\ slot' \in [Cpus -> Tasks \cup {NoTask}] /\ affinity' \in [Tasks -> Cpus \cup {CpuCoreNone}]
        /\ \A d \in Cpus : slot'[d] = IF d = c THEN slot[o] ELSE IF d = o THEN slot[c] ELSE slot[d]
    BY <1>3, <1>7 DEF PolicyInv, TypeOK
  <1>9. to_fix' \in Seq(Cpus) /\ to_fix' # <<>> /\ Last(to_fix') = o /\ Len(to_fix') = Len(to_fix)
    BY <1>3, <1>7, Pushed
  <1>10. Settled'
    <2>1. slot'[o] = t /\ t # NoTask
      BY <1>5, <1>6, <1>8, PolicyAssumption
    <2>2. current' = o
      BY <1>9 DEF current
    <2>3. old_affinity'[t] = o
      BY <1>1, <1>6
    <2> QED BY <2>1, <2>2, <2>3 DEF Settled, old_cpu, Ran
  <1>11. Rounds'
    <2>1. attempt + 2 * Len(to_fix) <= 2 * CpuCount
      BY <1>1, <1>2 DEF PolicyInv, Rounds
    <2>2. attempt' + 2 * Len(to_fix') <= 2 * CpuCount + 1
      BY <1>1, <1>2, <1>3, <1>9, <2>1
    <2> QED BY <1>1, <1>9, <1>10, <2>2 DEF Rounds
  <1>12. ASSUME NEW v \in Tasks PROVE Placed(v)'
    <2>1. Placed(v) /\ \A l \in Levels : QueueSet(l)' = QueueSet(l)
      BY <1>1 DEF PolicyInv, Homes, QueueSet
    <2>2. /\ (\E d \in Cpus : slot'[d] = v) <=> \E d \in Cpus : slot[d] = v
          /\ \A d, e \in Cpus : slot'[d] = v /\ slot'[e] = v => d = e
      BY <1>6, <1>8, <2>1 DEF Placed
    <2> QED BY <1>1, <2>1, <2>2 DEF Placed
  <1>13. Homes'
    BY <1>1, <1>12 DEF PolicyInv, Homes
  <1>14. TypeOK'
    BY <1>1, <1>2, <1>8, <1>9 DEF PolicyInv, TypeOK
  <1>15. Conserving'
    <2>1. (\E d \in Cpus : slot'[d] = NoTask) => \E d \in Cpus : slot[d] = NoTask
      BY <1>8
    <2> QED BY <1>1, <2>1 DEF PolicyInv, Conserving, Queued
  <1> QED BY <1>1, <1>11, <1>13, <1>14, <1>15 DEF PolicyInv, Idles, Assigning, UrgentFirst

LEMMA FixDone == ASSUME PolicyInv, fix_done PROVE PolicyInv'
  <1>1. /\ phase = "fix" /\ to_fix' = <<>> /\ phase' = "rest" /\ i' = 0 /\ choosen' = <<>> /\ retried' = <<>>
        /\ attempt' = 0
        /\ UNCHANGED <<launched, task_queues, blocked, slot, affinity, old_affinity>>
    BY RoundsLeft DEF fix_done, queues, homes
  <1>2. Homes'
    BY <1>1, SamePlaces DEF PolicyInv
  <1>3. TypeOK'
    <2>1. <<>> \in Seq(Cpus) /\ 0 \in 0 .. CpuCount + TASK_QUEUE_COUNT /\ 0 \in 0 .. MaxAttempt
      BY PolicyAssumption DEF MaxAttempt
    <2> QED BY <1>1, <2>1 DEF PolicyInv, TypeOK
  <1> QED BY <1>1, <1>2, <1>3 DEF PolicyInv, Idles, Assigning, UrgentFirst, Conserving, Rounds

-----------------------------------------------------------------------------
LEMMA PolicyInvNext == PolicyInv /\ [Next]_vars => PolicyInv'
  <1> SUFFICES ASSUME PolicyInv, [Next]_vars PROVE PolicyInv'
    OBVIOUS
  <1>1. ASSUME NEW t \in Tasks, task_run(t) \/ resolve_blocked_task(t) PROVE PolicyInv'
    BY <1>1, TaskRun, Resolve
  <1>2. CASE Tick
    BY <1>2, Shift, Requeue, Nothing, All, Skip, Enter, Match, MatchDone, TakeAny, NextQueue, Rest,
       FixSettled, FixSwap, FixDone DEF Tick
  <1>3. CASE reschedule_all \/ schedule_one
    BY <1>3, Begin, One
  <1>4. ASSUME NEW c \in Cpus, update_runned_task_for_cpu(c) PROVE PolicyInv'
    BY <1>4, Block
  <1>5. CASE UNCHANGED vars
    <2>1. UNCHANGED <<launched, task_queues, blocked, slot, affinity, old_affinity, phase, i, choosen,
                      retried, to_fix, attempt>>
      BY <1>5 DEF vars, queues, homes, passes, fixing
    <2>2. Homes'
      BY <2>1, SamePlaces DEF PolicyInv
    <2>3. TypeOK' /\ UrgentFirst' /\ Conserving'
      BY <2>1 DEF PolicyInv, TypeOK, UrgentFirst, Conserving, Queued
    <2>4. Idles'
      BY <2>1 DEF PolicyInv, Idles, Assigning, OnList
    <2>5. Settled' = Settled
      BY <2>1 DEF Settled, old_cpu, current, Ran
    <2>6. Rounds'
      BY <2>1, <2>5 DEF PolicyInv, Rounds
    <2> QED BY <2>2, <2>3, <2>4, <2>6 DEF PolicyInv
  <1> QED BY <1>1, <1>2, <1>3, <1>4, <1>5 DEF Next

\* In how many places a task is, when it is placed.
LEMMA CountPlaces ==
    ASSUME TypeOK, Homes, NEW t \in Tasks
    PROVE  Places(t) = IF t \in launched THEN 1 ELSE 0
  <1> DEFINE S == {c \in Cpus : slot[c] = t}
             Q == UNION {{l} \X {k \in DOMAIN task_queues[l] : task_queues[l][k] = t} : l \in Levels}
             b == IF t \in blocked THEN 1 ELSE 0
  <1>1. Placed(t)
    BY DEF Homes
  <1>2. Cardinality(S) = IF \E c \in Cpus : slot[c] = t THEN 1 ELSE 0
    <2>1. CASE \E c \in Cpus : slot[c] = t
      <3>1. PICK c \in Cpus : slot[c] = t
        BY <2>1
      <3>2. S = {c}
        BY <1>1, <3>1 DEF Placed
      <3> QED BY <2>1, <3>2, FS_Singleton
    <2>2. CASE ~ \E c \in Cpus : slot[c] = t
      <3>1. S = {}
        BY <2>2
      <3> QED BY <2>2, <3>1, FS_EmptySet
    <2> QED BY <2>1, <2>2
  <1>3. Cardinality(Q) = IF \E l \in Levels : t \in QueueSet(l) THEN 1 ELSE 0
    <2>1. \A l \in Levels : \A k \in DOMAIN task_queues[l] : task_queues[l][k] = t => t \in QueueSet(l)
      BY QueueTypes
    <2>2. CASE \E l \in Levels : t \in QueueSet(l)
      <3>1. PICK l \in Levels : t \in QueueSet(l)
        BY <2>2
      <3>2. PICK k \in DOMAIN task_queues[l] : task_queues[l][k] = t
        BY <3>1 DEF QueueSet, ToSet
      <3>3. \A m \in Levels : t \in QueueSet(m) => m = l
        BY <1>1, <3>1 DEF Placed
      <3>4. \A n \in DOMAIN task_queues[l] : task_queues[l][n] = t => n = k
        BY <3>2 DEF Homes, NoRepeat
      <3>5. Q = {<<l, k>>}
        BY <2>1, <3>2, <3>3, <3>4
      <3> QED BY <2>2, <3>5, FS_Singleton
    <2>3. CASE ~ \E l \in Levels : t \in QueueSet(l)
      <3>1. Q = {}
        BY <2>1, <2>3
      <3> QED BY <2>3, <3>1, FS_EmptySet
    <2> QED BY <2>2, <2>3
  <1>4. Places(t) = Cardinality(S) + b + Cardinality(Q)
    BY DEF Places
  <1> HIDE DEF S, Q
  <1> QED BY <1>1, <1>2, <1>3, <1>4 DEF Placed

-----------------------------------------------------------------------------
(* Theorems *)

\* The invariant holds for any number of CPUs and queues and any tasks, whatever
\* their weights and whoever blocks.
THEOREM PolicyInvariant == Spec => []PolicyInv
  BY PolicyInvInit, PolicyInvNext, PTL DEF Spec

\* For all values of the constants, variables keep their types: loops stay inside
\* the CPUs and queues and lists hold CPUs.
THEOREM TypeCorrect == Spec => []TypeOK
  BY PolicyInvariant, PTL DEF PolicyInv

\* For any CPUs, tasks and queues: shifting, matching, exchanging and putting back
\* neither lose a task nor give it to two CPUs.
THEOREM TasksHaveOneHome == Spec => []OneHome
  <1>1. PolicyInv => OneHome
    BY CountPlaces DEF PolicyInv, OneHome
  <1> QED BY <1>1, PolicyInvariant, PTL

\* For any CPUs, tasks and queues: no CPU idles after schedule_all while a task is
\* queued.
THEOREM NoCpuWasted == Spec => []Conserving
  BY PolicyInvariant, PTL DEF PolicyInv

\* For any CPUs, tasks and queues: no CPU goes to a later queue while an earlier
\* one has tasks.
THEOREM QueuesServedInOrder == Spec => []UrgentFirst
  BY PolicyInvariant, PTL DEF PolicyInv

\* For any CPUs and tasks: fix_sched_affinity needs two rounds for each CPU at
\* most, half of its limit.
THEOREM FixAlwaysEnds == Spec => []FixEnds
  <1>1. PolicyInv => FixEnds
    <2> SUFFICES ASSUME PolicyInv PROVE FixEnds
      OBVIOUS
    <2>1. attempt <= 2 * CpuCount
      <3>1. CASE phase = "fix"
        BY <3>1, RoundsLeft
      <3>2. CASE phase # "fix"
        BY <3>2, PolicyAssumption DEF PolicyInv, Rounds
      <3> QED BY <3>1, <3>2
    <2> QED BY <2>1 DEF PolicyInv, Rounds, FixEnds
  <1> QED BY <1>1, PolicyInvariant, PTL
=============================================================================
