--------------------------- MODULE SchedulerProofs ---------------------------
(***************************************************************************)
(* Proofs about module Scheduler, for any number of CPUs and any tasks.    *)
(*                                                                         *)
(* No property is inductive alone.  That a context is loaded after it was  *)
(* saved rests on await_save being set wherever a CPU still has to switch  *)
(* away from the task it is running (Saves), on each task being in one     *)
(* slot (OnePlace, IdleHome), and on schedule_self, which does not look at *)
(* await_save, finding all switches of the last round done, since it has   *)
(* scheduler_lock for writing and the readers are exactly the CPUs that    *)
(* have still to switch (Writers, ReadersExact).  Resolving says what is   *)
(* left to visit in resolve_blocked_tasks_scheduler.                       *)
(***************************************************************************)
EXTENDS Scheduler, FiniteSetTheorems, FunctionTheorems, TLAPS

\* Where a CPU has a read lock, and where it has saved its task and loaded no other
ReadPoints == {"kick", "save", "select", "spin", "unlock"}
SavedPoints == SoftPoints \cup {"select", "spin", "soft"}

\* The CPUs and the tasks that have scheduler_lock for writing
CpuWrites(c) == pc[c] \in TickPoints \cup SoftPoints \cup {"soft", "soft_rel"}
TaskWrites(t) == tpc[t] \in {"int101", "crit", "add", "wrel"}

\* There is one writer at a time and no reader with it.
Writers ==
    /\ writers \in {0, 1} /\ (writers = 1 => readers = 0)
    /\ \A c \in Cpus : CpuWrites(c) => writers = 1
    /\ \A t \in Tasks : TaskWrites(t) => writers = 1
    /\ \A c, d \in Cpus : CpuWrites(c) /\ CpuWrites(d) => c = d
    /\ \A t, u \in Tasks : TaskWrites(t) /\ TaskWrites(u) => t = u
    /\ \A c \in Cpus, t \in Tasks : ~ (CpuWrites(c) /\ TaskWrites(t))

\* Core 0 runs the tick and takes the device interrupts; it sends the interrupts
\* 100 of a round in order, none to itself.
Core0 ==
    /\ \A c \in Cpus \ {0} :
          pc[c] \in SoftPoints \cup {"run", "save", "select", "spin", "unlock", "soft", "soft_rel"}
    /\ ipi \subseteq Cpus \ {0}
    /\ pc[0] = "kick" => kick <= CpuCount /\ \A c \in ipi : c < kick

\* The task that is inside _access_lock
AccessOwner == \A t \in Tasks : access = t <=> tpc[t] \in {"try_in", "spin_in"}

\* A task inside try_write_acquire, or with the lock for itself, runs with
\* interrupts masked.
MaskedPoints == {"try", "try_in", "failed", "int101", "crit"}
KeepsCpu == \A t \in Tasks : tpc[t] \in MaskedPoints =>
    \E c \in Cpus : pc[c] = "run" /\ live[c] = t /\ masked[c]

\* CPU c has still to switch to the task in its slot.
ToSwitch(c) ==
    \/ c \in ipi \/ pc[c] \in {"save", "select", "spin"} \cup SoftPoints \/ pc[0] = "downgrade"
    \/ pc[0] = "kick" /\ (c = 0 \/ kick <= c)

\* The registers on CPU c are its current task's until they are saved; a CPU
\* whose slot changed has still to switch to it.
Registers == \A c \in Cpus :
    /\ running[c] = current[c]
    /\ live[c] = IF pc[c] \in SavedPoints THEN NoTask ELSE current[c]
    /\ pc[c] = "spin" => sel[c] = next[c]
    /\ next[c] # current[c] => ToSwitch(c)

\* await_save is set for the tasks that have to be saved before another CPU loads
\* them, and only for tasks whose registers are on a CPU.
Saves ==
    /\ \A t \in AllTasks : awaitSave[t] => \E c \in Cpus : live[c] = t
    /\ \A c \in Cpus : next[c] # current[c] /\ live[c] # NoTask /\ pc[0] # "downgrade"
                         => awaitSave[current[c]]

\* An idle task is in no other CPU's slot.
IdleHome == \A c \in Cpus : next[c] \in IdleTasks => next[c] = idle[c]

\* task_run of a task is under way at most once.
Launching(t, u) == op[t] = u /\ tpc[t] \in {"spin", "spin_in", "add"}
Launches ==
    /\ \A t \in Tasks : tpc[t] \in {"spin", "spin_in", "add"} => op[t] \in launched
    /\ \A t, u \in Tasks : Launching(t, op[t]) /\ Launching(u, op[t]) => t = u

\* The tasks that were launched and queued, and the count of those not in a slot
Managed == {t \in launched : ~ BeingLaunched(t)}
Awaiting == awaiting + Cardinality({c \in Cpus : next[c] \in Tasks}) = Cardinality(Managed)

\* The type invariant, in two parts: flags are apart.
PlainTypes ==
    /\ queued \in [Tasks -> Nat] /\ blocked \in [Tasks -> Nat] /\ awaiting \in Int
    /\ next \in [Cpus -> AllTasks] /\ running \in [Cpus -> AllTasks]
    /\ current \in [Cpus -> AllTasks]
    /\ readers \in Nat /\ access \in Tasks \cup {NoTask}
    /\ launched \subseteq Tasks /\ todo \subseteq Tasks
    /\ tpc \in [Tasks -> TaskPoints]
    /\ op \in [Tasks -> {"none", "block", "disable"} \cup Tasks]
    /\ pc \in [Cpus -> CpuPoints]
    /\ live \in [Cpus -> AllTasks \cup {NoTask}] /\ sel \in [Cpus -> AllTasks \cup {NoTask}]
    /\ kick \in 1 .. CpuCount + 1 /\ ipi \subseteq Cpus
FlagTypes ==
    /\ mutex \in [Tasks -> BOOLEAN] /\ dirty \in BOOLEAN
    /\ awaitSave \in [AllTasks -> BOOLEAN] /\ savedMask \in [AllTasks -> BOOLEAN]
    /\ masked \in [Cpus -> BOOLEAN]

\* While a CPU is in resolve_blocked_tasks_scheduler the tasks that are left to
\* visit are blocked, the one it has looked at included, and the CPU of an int 101
\* has nothing in its slot until schedule_one.
ResolvePoints == {"resolve", "reset", "readd", "soft_resolve", "soft_reset", "soft_readd"}
Resolving == \A c \in Cpus :
    /\ pc[c] \in ResolvePoints => \A t \in todo : blocked[t] > 0
    /\ pc[c] \in ResolvePoints \ {"resolve", "soft_resolve"} => sel[c] \in todo
    /\ pc[c] \in SoftPoints \ {"soft_load"} => next[c] = idle[c]

SchedInv ==
    /\ PlainTypes /\ FlagTypes /\ Writers /\ Core0 /\ AccessOwner /\ KeepsCpu /\ ReadersExact
    /\ Registers /\ Saves /\ IdleHome /\ NoDoubleRun /\ Launches /\ OnePlace /\ Awaiting

-----------------------------------------------------------------------------
(* Numbers *)

LEMMA CoreZero == 0 \in Cpus /\ Cpus \subseteq Int /\ \A c \in Cpus : 0 <= c /\ c < CpuCount
  BY CpuAssumption DEF Cpus

One(b) == IF b THEN 1 ELSE 0

\* Sets that differ at most in x have sizes that differ at most by one.
LEMMA CardUpdate ==
    ASSUME NEW F, NEW G, NEW x, IsFiniteSet(F), G \ {x} = F \ {x}
    PROVE  /\ Cardinality(F) \in Nat /\ Cardinality(G) \in Nat
           /\ Cardinality(G) = Cardinality(F) + One(x \in G) - One(x \in F)
  <1>0. G \subseteq F \cup {x}
    OBVIOUS
  <1>1. IsFiniteSet(F \cup {x}) /\ IsFiniteSet(G) /\ IsFiniteSet(F \ {x})
    BY <1>0, FS_AddElement, FS_Subset, FS_RemoveElement
  <1>2. Cardinality(F) \in Nat /\ Cardinality(G) \in Nat /\ Cardinality(F \ {x}) \in Nat
    BY <1>1, FS_CardinalityType
  <1>3. Cardinality(F \ {x}) = IF x \in F THEN Cardinality(F) - 1 ELSE Cardinality(F)
    BY FS_RemoveElement
  <1>4. Cardinality(G \ {x}) = IF x \in G THEN Cardinality(G) - 1 ELSE Cardinality(G)
    BY <1>1, FS_RemoveElement
  <1> QED
    BY <1>2, <1>3, <1>4 DEF One

LEMMA CpusFinite == IsFiniteSet(Cpus)
  BY CpuAssumption, FS_Interval DEF Cpus

\* The CPUs whose handler has a read lock
Reading == {c \in Cpus : pc[c] \in ReadPoints}

LEMMA ReadingMoves ==
    ASSUME NEW c \in Cpus, \A d \in Cpus \ {c} : pc'[d] = pc[d]
    PROVE  /\ Cardinality(Reading) \in Nat /\ Cardinality(Reading') \in Nat
           /\ Cardinality(Reading') = Cardinality(Reading) + One(pc'[c] \in ReadPoints)
                                        - One(pc[c] \in ReadPoints)
  <1>1. IsFiniteSet(Reading)
    BY CpusFinite, FS_Subset DEF Reading
  <1>2. Reading' \ {c} = Reading \ {c}
    BY DEF Reading
  <1>3. (c \in Reading <=> pc[c] \in ReadPoints) /\ (c \in Reading' <=> pc'[c] \in ReadPoints)
    BY DEF Reading
  <1> HIDE DEF Reading
  <1> QED
    BY <1>1, <1>2, <1>3, CardUpdate DEF One

LEMMA ReadersSplit ==
    /\ ReadersExact <=> readers = Cardinality(ipi) + Cardinality(Reading)
    /\ ReadersExact' <=> readers' = Cardinality(ipi') + Cardinality(Reading')
  BY DEF ReadersExact, Reading, ReadPoints

\* Each read lock stays with its CPU.
LEMMA ReadersKept ==
    ASSUME ReadersExact, UNCHANGED <<readers, ipi>>, NEW c \in Cpus,
           \A d \in Cpus \ {c} : pc'[d] = pc[d], pc[c] \in ReadPoints <=> pc'[c] \in ReadPoints
    PROVE  ReadersExact'
  <1>1. Reading' = Reading
    BY DEF Reading
  <1> QED
    BY <1>1, ReadersSplit

\* Without a reader no reschedule is under way; with one CPU's switch under way
\* there is a reader.
LEMMA NoReaders ==
    ASSUME SchedInv
    PROVE  /\ readers = 0 => ipi = {} /\ \A c \in Cpus : pc[c] \notin ReadPoints
           /\ readers \in Nat
  <1>1. IsFiniteSet(Reading) /\ IsFiniteSet(ipi)
    BY CpusFinite, FS_Subset DEF Reading, SchedInv, PlainTypes
  <1>2. /\ Cardinality(Reading) \in Nat /\ Cardinality(ipi) \in Nat
        /\ Cardinality(Reading) = 0 => Reading = {}
        /\ Cardinality(ipi) = 0 => ipi = {}
    BY <1>1, FS_CardinalityType, FS_EmptySet
  <1>3. readers = Cardinality(ipi) + Cardinality(Reading)
    BY ReadersSplit DEF SchedInv
  <1>4. readers = 0 => ipi = {} /\ Reading = {}
    BY <1>2, <1>3
  <1> QED
    BY <1>4 DEF Reading, SchedInv, PlainTypes

-----------------------------------------------------------------------------
(* Places *)

LaunchPoints == {"spin", "spin_in", "add"}

\* Task t goes on, inside or outside a launch.
Passes(t) ==
    /\ \A v \in Tasks \ {t} : tpc'[v] = tpc[v] /\ op'[v] = op[v]
    /\ \/ tpc[t] \in LaunchPoints /\ tpc'[t] \in LaunchPoints /\ op'[t] = op[t]
       \/ tpc[t] \notin LaunchPoints /\ tpc'[t] \notin LaunchPoints

SameLaunches == \A u \in Tasks : BeingLaunched(u)' = BeingLaunched(u)

LEMMA PassesSame ==
    ASSUME NEW t \in Tasks, Passes(t)
    PROVE  SameLaunches
  <1> SUFFICES ASSUME NEW u \in Tasks PROVE BeingLaunched(u)' = BeingLaunched(u)
    BY DEF SameLaunches
  <1> QED
    BY DEF Passes, LaunchPoints, BeingLaunched

LEMMA IdleSame == ASSUME UNCHANGED task PROVE SameLaunches
  BY DEF SameLaunches, BeingLaunched, task

LEMMA PlacesKept ==
    ASSUME launched \subseteq Tasks, OnePlace, Awaiting, SameLaunches,
           UNCHANGED <<queued, blocked, awaiting, next, launched>>
    PROVE  OnePlace' /\ Awaiting'
  <1>1. ASSUME NEW t \in Tasks PROVE Occurs(next, t)' = Occurs(next, t)
    BY DEF Occurs
  <1>2. Managed' = Managed
    BY DEF Managed, SameLaunches
  <1>3. OnePlace'
    BY <1>1 DEF OnePlace, SameLaunches
  <1> QED
    BY <1>2, <1>3 DEF Awaiting

\* Adding the number above a set of numbers
LEMMA AddNext ==
    ASSUME NEW n \in Int, NEW S, S \subseteq Int, IsFiniteSet(S), \A d \in S : d < n
    PROVE  /\ Cardinality(S) \in Nat /\ Cardinality(S \cup {n}) = Cardinality(S) + 1
           /\ \A d \in S \cup {n} : d < n + 1
  <1>1. n \notin S
    OBVIOUS
  <1>2. Cardinality(S) \in Nat /\ Cardinality(S \cup {n}) = Cardinality(S) + 1
    BY <1>1, FS_CardinalityType, FS_AddElement
  <1> QED BY <1>2

\* A round of schedule_other_cpus
LEMMA NextKick ==
    ASSUME SchedInv, schedule_other_cpu
    PROVE  /\ kick \in Cpus \ {0} /\ kick' = kick + 1 /\ kick' \in 1 .. CpuCount + 1
           /\ Cardinality(ipi) \in Nat
           /\ \/ readers' = readers + 1 /\ ipi' = ipi \cup {kick}
                 /\ Cardinality(ipi') = Cardinality(ipi) + 1
              \/ readers' = readers /\ ipi' = ipi
           /\ kick' <= CpuCount /\ \A d \in ipi' : d < kick'
  <1>1. /\ kick \in Int /\ 1 <= kick /\ kick < CpuCount /\ CpuCount \in Int /\ kick' = kick + 1
        /\ ipi \subseteq Cpus
    BY CpuAssumption DEF schedule_other_cpu, SchedInv, PlainTypes
  <1>2. \A d \in ipi : d < kick
    BY DEF schedule_other_cpu, SchedInv, Core0
  <1>3. \/ readers' = readers + 1 /\ ipi' = ipi \cup {kick}
        \/ readers' = readers /\ ipi' = ipi
    BY DEF schedule_other_cpu
  <1>4. ipi \subseteq Int /\ IsFiniteSet(ipi)
    BY <1>1, CoreZero, CpusFinite, FS_Subset
  <1>5. /\ Cardinality(ipi) \in Nat /\ Cardinality(ipi \cup {kick}) = Cardinality(ipi) + 1
        /\ \A d \in ipi \cup {kick} : d < kick + 1
    BY <1>1, <1>2, <1>4, AddNext
  <1>6. kick \in Cpus \ {0} /\ kick' \in 1 .. CpuCount + 1 /\ kick' <= CpuCount
    BY <1>1 DEF Cpus
  <1>7. \A d \in ipi' : d < kick'
    BY <1>1, <1>3, <1>5
  <1> QED BY <1>1, <1>3, <1>5, <1>6, <1>7

\* Setting a flag
LEMMA BooleanFunctions ==
    ASSUME NEW S, NEW f \in [S -> BOOLEAN], NEW x, NEW b \in BOOLEAN
    PROVE  [f EXCEPT ![x] = b] \in [S -> BOOLEAN]
  OBVIOUS

\* The registers on a CPU are its current task's, which has them nowhere else.
LEMMA Loaded ==
    ASSUME SchedInv, NEW c \in Cpus
    PROVE  /\ live[c] # NoTask <=> pc[c] \notin SavedPoints
           /\ live[c] # NoTask => live[c] = current[c]
           /\ live[c] = NoTask \/ live[c] \in AllTasks
           /\ \A d \in Cpus : d # c /\ live[c] # NoTask => live[c] # live[d]
  BY TaskAssumption DEF SchedInv, PlainTypes, Registers, NoDoubleRun

\* CPU c saves the registers of its task.
LEMMA SaveKeeps ==
    ASSUME SchedInv, NEW c \in Cpus, live[c] # NoTask, live' = [live EXCEPT ![c] = NoTask],
           awaitSave' = [awaitSave EXCEPT ![live[c]] = FALSE], UNCHANGED <<next, current>>,
           pc'[0] # "downgrade" => pc[0] # "downgrade"
    PROVE  Saves'
  <1> USE DEF SchedInv
  <1>1. live \in [Cpus -> AllTasks \cup {NoTask}] /\ awaitSave \in [AllTasks -> BOOLEAN]
    BY DEF PlainTypes, FlagTypes
  <1>2. ASSUME NEW t \in AllTasks, awaitSave'[t] PROVE \E d \in Cpus : live'[d] = t
    <2>1. t # live[c] /\ awaitSave[t]
      BY <1>1, <1>2
    <2>2. PICK d \in Cpus : live[d] = t
      BY <2>1 DEF Saves
    <2> QED BY <1>1, <2>1, <2>2
  <1>3. ASSUME NEW d \in Cpus, next'[d] # current'[d], live'[d] # NoTask, pc'[0] # "downgrade"
        PROVE  awaitSave'[current'[d]]
    <2>1. d # c /\ live[d] = live'[d]
      BY <1>1, <1>3
    <2>2. awaitSave[current[d]]
      BY <1>3, <2>1 DEF Saves
    <2>3. current[d] # live[c] /\ current[d] \in AllTasks
      BY <1>3, <2>1, Loaded
    <2> QED BY <1>1, <2>2, <2>3
  <1> QED BY <1>2, <1>3 DEF Saves

\* While the tick has the lock no other handler is at work.
LEMMA TickAlone ==
    ASSUME SchedInv, NEW c \in Cpus, CpuWrites(c)
    PROVE  /\ readers = 0 /\ ipi = {}
           /\ \A d \in Cpus \ {c} : ~ CpuWrites(d) /\ pc[d] \notin ReadPoints
           /\ \A t \in Tasks : ~ TaskWrites(t)
  <1>1. /\ readers = 0 /\ \A d \in Cpus \ {c} : ~ CpuWrites(d)
        /\ \A t \in Tasks : ~ TaskWrites(t)
    BY DEF SchedInv, Writers, CpuWrites
  <1> QED BY <1>1, NoReaders

\* The numbers in OnePlace are natural.
LEMMA OccursNat ==
    ASSUME NEW f, NEW t
    PROVE  Occurs(f, t) \in Nat
  BY CpusFinite, FS_Subset, FS_CardinalityType DEF Occurs

\* CPU c's slot is given to task i.
LEMMA OccursNext ==
    ASSUME NEW c \in Cpus, NEW i, next \in [Cpus -> AllTasks], next' = [next EXCEPT ![c] = i], NEW v
    PROVE  /\ Occurs(next', v) = Occurs(next, v) + One(i = v) - One(next[c] = v)
           /\ Occurs(next, v) \in Nat
  <1>1. next'[c] = i /\ \A d \in Cpus \ {c} : next'[d] = next[d]
    OBVIOUS
  <1> DEFINE F == {d \in Cpus : next[d] = v}  G == {d \in Cpus : next'[d] = v}
  <1>2. IsFiniteSet(F) /\ G \ {c} = F \ {c}
    BY <1>1, CpusFinite, FS_Subset
  <1>3. (c \in F <=> next[c] = v) /\ (c \in G <=> i = v)
    BY <1>1
  <1>4. Occurs(next, v) = Cardinality(F) /\ Occurs(next', v) = Cardinality(G)
    BY DEF Occurs
  <1> HIDE DEF F, G
  <1> QED BY <1>2, <1>3, <1>4, CardUpdate DEF One

\* A task is in as many slots.
LEMMA OccursTwice ==
    ASSUME NEW f, NEW c \in Cpus, NEW d \in Cpus, c # d, NEW t, f[d] = t
    PROVE  Occurs(f, t) >= 1 + One(f[c] = t)
  <1> DEFINE F == {e \in Cpus : f[e] = t}
  <1>1. IsFiniteSet(F) /\ IsFiniteSet(F \ {d}) /\ IsFiniteSet((F \ {d}) \ {c})
    BY CpusFinite, FS_Subset
  <1>2. Cardinality(F \ {d}) = Cardinality(F) - 1
    BY <1>1, FS_RemoveElement
  <1>3. c \in F => Cardinality((F \ {d}) \ {c}) = Cardinality(F \ {d}) - 1
    BY <1>1, FS_RemoveElement
  <1>4. /\ Cardinality(F) \in Nat /\ Cardinality(F \ {d}) \in Nat
        /\ Cardinality((F \ {d}) \ {c}) \in Nat
    BY <1>1, FS_CardinalityType
  <1>5. Occurs(f, t) = Cardinality(F) /\ (c \in F <=> f[c] = t)
    BY DEF Occurs
  <1> HIDE DEF F
  <1> QED
    BY <1>2, <1>3, <1>4, <1>5 DEF One

\* A task is in one slot at most, and then in no list.
LEMMA InOneSlot ==
    ASSUME SchedInv, NEW c \in Cpus, NEW d \in Cpus, c # d
    PROVE  next[c] # next[d]
  <1> SUFFICES ASSUME next[c] = next[d] PROVE FALSE
    OBVIOUS
  <1>1. CASE next[c] \in Tasks
    <2>1. Occurs(next, next[c]) >= 2
      BY OccursTwice DEF One
    <2>2. /\ queued[next[c]] \in Nat /\ blocked[next[c]] \in Nat /\ Occurs(next, next[c]) \in Nat
          /\ queued[next[c]] + blocked[next[c]] + Occurs(next, next[c]) \in {0, 1}
      BY <1>1, OccursNat DEF SchedInv, PlainTypes, OnePlace
    <2> QED BY <2>1, <2>2
  <1>2. CASE next[c] \notin Tasks
    BY <1>2, TaskAssumption DEF SchedInv, PlainTypes, IdleHome, AllTasks
  <1> QED BY <1>1, <1>2

\* With the write lock taken by int 101, no switch is under way on another CPU.
LEMMA Settled ==
    ASSUME SchedInv, NEW c \in Cpus, pc[c] \in SoftPoints \cup {"soft"}
    PROVE  /\ \A d \in Cpus \ {c} : next[d] = current[d] /\ live[d] = next[d]
           /\ \A d \in Cpus : running[d] = current[d]
           /\ pc[c] = "soft" => next[c] = current[c]
           /\ live[c] = NoTask /\ pc[0] # "downgrade"
           /\ \A d \in Cpus \ {c} : pc[d] \notin SavedPoints
  <1>1. CpuWrites(c)
    BY DEF CpuWrites
  <1>2. /\ ipi = {} /\ pc[0] \notin {"downgrade", "kick"}
        /\ \A d \in Cpus : pc[d] \notin {"save", "select", "spin"}
        /\ \A d \in Cpus \ {c} : pc[d] \notin SavedPoints \cup {"save"}
    <2>1. /\ ipi = {} /\ \A d \in Cpus \ {c} : ~ CpuWrites(d) /\ pc[d] \notin ReadPoints
      BY <1>1, TickAlone
    <2>2. pc[c] \notin {"downgrade", "kick", "save", "select", "spin"}
      BY DEF SoftPoints
    <2> QED BY <2>1, <2>2, CoreZero DEF CpuWrites, ReadPoints, TickPoints, SavedPoints
  <1>3. \A d \in Cpus : d # c \/ pc[c] = "soft" => ~ ToSwitch(d)
    BY <1>2 DEF ToSwitch, SavedPoints, SoftPoints
  <1>4. pc[c] \in SavedPoints
    BY DEF SavedPoints
  <1> QED
    BY <1>2, <1>3, <1>4 DEF SchedInv, Registers

\* The number of tasks in slots
InSlots(f) == Cardinality({c \in Cpus : f[c] \in Tasks})

LEMMA InSlotsNat == ASSUME NEW f PROVE InSlots(f) \in Nat
  BY CpusFinite, FS_Subset, FS_CardinalityType DEF InSlots

LEMMA InSlotsUpdate ==
    ASSUME NEW f, NEW g, NEW c \in Cpus, \A d \in Cpus \ {c} : g[d] = f[d]
    PROVE  InSlots(g) = InSlots(f) + One(g[c] \in Tasks) - One(f[c] \in Tasks)
  <1> DEFINE F == {d \in Cpus : f[d] \in Tasks}  G == {d \in Cpus : g[d] \in Tasks}
  <1>1. IsFiniteSet(F) /\ G \ {c} = F \ {c}
    BY CpusFinite, FS_Subset
  <1>2. (c \in F <=> f[c] \in Tasks) /\ (c \in G <=> g[c] \in Tasks)
    OBVIOUS
  <1>3. InSlots(f) = Cardinality(F) /\ InSlots(g) = Cardinality(G)
    BY DEF InSlots
  <1> HIDE DEF F, G
  <1> QED
    BY <1>1, <1>2, <1>3, CardUpdate DEF One

\* The places of the tasks, in numbers
Placed(t, n) == queued[t] + blocked[t] + Occurs(next, t) = n

LEMMA OnePlaceDef ==
    /\ OnePlace <=> \A t \in Tasks : Placed(t, One(t \in Managed))
    /\ OnePlace' <=> \A t \in Tasks : Placed(t, One(t \in Managed))'
    /\ Awaiting <=> awaiting + InSlots(next) = Cardinality(Managed)
    /\ Awaiting' <=> awaiting' + InSlots(next') = Cardinality(Managed')
  BY DEF OnePlace, Placed, One, Managed, Awaiting, InSlots

\* The places and the tasks outside slots change together.
LEMMA PlacesMoved ==
    ASSUME OnePlace, Awaiting, Managed' = Managed,
           \A t \in Tasks : queued'[t] + blocked'[t] + Occurs(next', t)
                              = queued[t] + blocked[t] + Occurs(next, t),
           awaiting' + InSlots(next') = awaiting + InSlots(next)
    PROVE  OnePlace' /\ Awaiting'
  <1>1. \A t \in Tasks : Placed(t, One(t \in Managed))
    BY OnePlaceDef
  <1>2. ASSUME NEW t \in Tasks PROVE Placed(t, One(t \in Managed))'
    BY <1>1 DEF Placed
  <1> QED BY <1>2, OnePlaceDef

LEMMA ManagedSame ==
    ASSUME launched \subseteq Tasks, UNCHANGED <<launched, task>>
    PROVE  Managed' = Managed
  BY DEF Managed, BeingLaunched, task

LEMMA ManagedFinite == ASSUME launched \subseteq Tasks PROVE IsFiniteSet(Managed)
  BY TaskAssumption, FS_Subset DEF Managed

\* How many of the CPUs S have t in their slot
Among(S, t) == Cardinality({c \in S : next[c] = t})

\* add_entity_to_queue loses nothing.
LEMMA RequeueSum ==
    ASSUME NEW q \in [Tasks -> Nat], NEW b \in [Tasks -> Nat], NEW S, S \subseteq Cpus
    PROVE  /\ Requeue(q, b, S)[1] \in [Tasks -> Nat] /\ Requeue(q, b, S)[2] \in [Tasks -> Nat]
           /\ \A t \in Tasks : Requeue(q, b, S)[1][t] + Requeue(q, b, S)[2][t]
                                 = q[t] + b[t] + Among(S, t)
  <1> DEFINE n(t) == Cardinality({c \in S : next[c] = t})
  <1>1. ASSUME NEW t \in Tasks PROVE n(t) \in Nat
    BY CpusFinite, FS_Subset, FS_CardinalityType
  <1>2. /\ Requeue(q, b, S)[1] = [t \in Tasks |-> IF mutex[t] THEN q[t] ELSE q[t] + n(t)]
        /\ Requeue(q, b, S)[2] = [t \in Tasks |-> IF mutex[t] THEN b[t] + n(t) ELSE b[t]]
    BY DEF Requeue
  <1>3. \A t \in Tasks : n(t) = Among(S, t)
    BY DEF Among
  <1> HIDE DEF n
  <1>4. /\ Requeue(q, b, S)[1] \in [Tasks -> Nat] /\ Requeue(q, b, S)[2] \in [Tasks -> Nat]
        /\ \A t \in Tasks : Requeue(q, b, S)[1][t] + Requeue(q, b, S)[2][t] = q[t] + b[t] + n(t)
    BY <1>1, <1>2
  <1> QED BY <1>3, <1>4

\* A slot of schedule_all that stays empty goes to the CPU's idle task.
LEMMA SlotsOf ==
    ASSUME NEW a \in [Cpus -> Tasks \cup {NoTask}]
    PROVE  /\ Slots(a) \in [Cpus -> AllTasks]
           /\ \A c \in Cpus : Slots(a)[c] \in IdleTasks => Slots(a)[c] = idle[c]
           /\ \A t \in Tasks : Occurs(Slots(a), t) = Occurs(a, t)
           /\ InSlots(Slots(a)) = Cardinality({c \in Cpus : a[c] # NoTask})
  <1>1. ASSUME NEW c \in Cpus
        PROVE  /\ a[c] = NoTask => Slots(a)[c] = idle[c] /\ Slots(a)[c] \in IdleTasks
               /\ a[c] # NoTask => Slots(a)[c] = a[c] /\ a[c] \in Tasks
    BY TaskAssumption DEF Slots
  <1>2. NoTask \notin Tasks /\ IdleTasks \cap Tasks = {}
    BY TaskAssumption DEF AllTasks
  <1>3. Slots(a) \in [Cpus -> AllTasks]
    BY <1>1 DEF Slots, AllTasks
  <1>4. \A c \in Cpus : Slots(a)[c] \in Tasks <=> a[c] # NoTask
    BY <1>1, <1>2
  <1>5. ASSUME NEW t \in Tasks PROVE \A c \in Cpus : Slots(a)[c] = t <=> a[c] = t
    BY <1>1, <1>2
  <1>6. \A t \in Tasks : Occurs(Slots(a), t) = Occurs(a, t)
    BY <1>5 DEF Occurs
  <1>7. InSlots(Slots(a)) = Cardinality({c \in Cpus : a[c] # NoTask})
    BY <1>4 DEF InSlots
  <1> QED BY <1>1, <1>2, <1>3, <1>6, <1>7

\* The idle tasks in all slots
LEMMA IdleSlots ==
    /\ idle \in [Cpus -> AllTasks] /\ \A t \in Tasks : Occurs(idle, t) = 0
    /\ InSlots(idle) = 0
  <1>1. \A c \in Cpus : idle[c] \in IdleTasks /\ idle[c] \notin Tasks
    BY TaskAssumption
  <1>2. \A t \in Tasks : {c \in Cpus : idle[c] = t} = {}
    BY <1>1
  <1>3. {c \in Cpus : idle[c] \in Tasks} = {}
    BY <1>1
  <1> QED BY <1>1, <1>2, <1>3, FS_EmptySet, TaskAssumption DEF Occurs, InSlots, AllTasks

\* Who is not idle is a task.
LEMMA NotIdle == SchedInv => InSlots(next) = Cardinality({c \in Cpus : ~ Is_idle(next[c])})
  <1>1. SchedInv => \A c \in Cpus : next[c] \in Tasks <=> ~ Is_idle(next[c])
    BY TaskAssumption DEF SchedInv, PlainTypes, AllTasks, Is_idle
  <1> QED BY <1>1 DEF InSlots

\* What the tick's assignment does to the queues and the slots
Reassigned ==
    /\ queued' \in [Tasks -> Nat] /\ blocked' \in [Tasks -> Nat] /\ awaiting' \in Int
    /\ next' \in [Cpus -> AllTasks] /\ IdleHome'
    /\ \A t \in Tasks : queued'[t] + blocked'[t] + Occurs(next', t)
                          = queued[t] + blocked[t] + Occurs(next, t)
    /\ awaiting' + InSlots(next') = awaiting + InSlots(next)

LEMMA AssignEffect == ASSUME SchedInv, tick_assign PROVE Reassigned
  <1> DEFINE r == Requeue(queued, blocked, Cpus)
             w == awaiting + Cardinality({c \in Cpus : ~ Is_idle(next[c])})
  <1>1. queued \in [Tasks -> Nat] /\ blocked \in [Tasks -> Nat] /\ awaiting \in Int
    BY DEF SchedInv, PlainTypes
  <1>2. /\ r[1] \in [Tasks -> Nat] /\ r[2] \in [Tasks -> Nat]
        /\ \A t \in Tasks : r[1][t] + r[2][t] = queued[t] + blocked[t] + Occurs(next, t)
    BY <1>1, RequeueSum DEF Occurs, Among
  <1>3. w = awaiting + InSlots(next) /\ w \in Int
    BY <1>1, NotIdle, InSlotsNat
  <1>4. /\ blocked' = r[2]
        /\ \/ next' = idle /\ queued' = r[1] /\ awaiting' = w
           \/ \E a \in Assignments(r[1]) :
                 /\ next' = Slots(a)
                 /\ queued' = [t \in Tasks |-> r[1][t] - Occurs(a, t)]
                 /\ awaiting' = w - Cardinality({c \in Cpus : a[c] # NoTask})
    BY DEF tick_assign
  <1> HIDE DEF r, w
  <1>5. CASE next' = idle /\ queued' = r[1] /\ awaiting' = w
    <2>1. IdleHome' /\ next' \in [Cpus -> AllTasks]
      BY <1>5, IdleSlots DEF IdleHome
    <2>2. \A t \in Tasks : Occurs(next', t) = 0
      BY <1>5, IdleSlots
    <2>3. InSlots(next') = 0
      BY <1>5, IdleSlots
    <2>4. \A t \in Tasks : queued'[t] + blocked'[t] + Occurs(next', t)
                             = queued[t] + blocked[t] + Occurs(next, t)
      BY <1>2, <1>4, <1>5, <2>2
    <2> QED BY <1>2, <1>3, <1>4, <1>5, <2>1, <2>3, <2>4 DEF Reassigned
  <1>6. ASSUME NEW a \in Assignments(r[1]), next' = Slots(a),
               queued' = [t \in Tasks |-> r[1][t] - Occurs(a, t)],
               awaiting' = w - Cardinality({c \in Cpus : a[c] # NoTask})
        PROVE  Reassigned
    <2>1. a \in [Cpus -> Tasks \cup {NoTask}] /\ \A t \in Tasks : Occurs(a, t) <= r[1][t]
      BY DEF Assignments
    <2>2. IdleHome' /\ next' \in [Cpus -> AllTasks]
      BY <1>6, <2>1, SlotsOf DEF IdleHome
    <2>3. \A t \in Tasks : Occurs(next', t) = Occurs(a, t)
      BY <1>6, <2>1, SlotsOf
    <2>4. /\ awaiting' = w - InSlots(next') /\ InSlots(next') \in Nat
      BY <1>6, <2>1, SlotsOf, InSlotsNat
    <2>5. ASSUME NEW t \in Tasks
          PROVE  /\ queued'[t] \in Nat
                 /\ queued'[t] + blocked'[t] + Occurs(next', t)
                      = queued[t] + blocked[t] + Occurs(next, t)
      <3>1. /\ Occurs(a, t) \in Nat /\ Occurs(a, t) <= r[1][t] /\ r[1][t] \in Nat /\ r[2][t] \in Nat
            /\ queued'[t] = r[1][t] - Occurs(a, t) /\ blocked'[t] = r[2][t]
            /\ Occurs(next', t) = Occurs(a, t)
        BY <1>2, <1>4, <1>6, <2>1, <2>3, OccursNat
      <3>2. r[1][t] + r[2][t] = queued[t] + blocked[t] + Occurs(next, t)
        BY <1>2
      <3>3. queued'[t] + blocked'[t] + Occurs(next', t) = r[1][t] + r[2][t]
        BY <3>1
      <3> QED BY <3>1, <3>2, <3>3
    <2>6. queued' \in [Tasks -> Nat]
      BY <1>6, <2>5
    <2>7. awaiting' \in Int /\ awaiting' + InSlots(next') = awaiting + InSlots(next)
      BY <1>3, <2>4
    <2> QED BY <1>2, <1>4, <2>2, <2>5, <2>6, <2>7 DEF Reassigned
  <1> QED BY <1>4, <1>5, <1>6

\* What update_runned_task_for_cpu does for an int 101
LEMMA PutBackEffect ==
    ASSUME SchedInv, NEW c \in Cpus, schedule_self(c)
    PROVE  /\ Reassigned /\ next' = [next EXCEPT ![c] = idle[c]]
           /\ Goto(c, "soft", "soft_resolve") /\ todo' = Listed(blocked')
  <1> DEFINE r == Requeue(queued, blocked, {c})
             w == awaiting + (IF Is_idle(next[c]) THEN 0 ELSE 1)
  <1>1. pc[c] = "soft"
    BY DEF schedule_self, Goto
  <1>2. next[c] = running[c]
    BY <1>1, Settled
  <1>3. /\ queued \in [Tasks -> Nat] /\ blocked \in [Tasks -> Nat] /\ awaiting \in Int
        /\ next \in [Cpus -> AllTasks] /\ IdleHome
    BY DEF SchedInv, PlainTypes
  <1>4. /\ queued' = r[1] /\ blocked' = r[2] /\ awaiting' = w
        /\ next' = [next EXCEPT ![c] = idle[c]]
        /\ Goto(c, "soft", "soft_resolve") /\ todo' = Listed(blocked')
    BY <1>2 DEF schedule_self
  <1>6. ASSUME NEW v \in Tasks PROVE Among({c}, v) = One(next[c] = v)
    <2>1. CASE next[c] = v
      <3>1. {d \in {c} : next[d] = v} = {c}
        BY <2>1
      <3> QED BY <2>1, <3>1, FS_Singleton DEF One, Among
    <2>2. CASE next[c] # v
      <3>1. {d \in {c} : next[d] = v} = {}
        BY <2>2
      <3> QED BY <2>2, <3>1, FS_EmptySet DEF One, Among
    <2> QED BY <2>1, <2>2
  <1>7. /\ r[1] \in [Tasks -> Nat] /\ r[2] \in [Tasks -> Nat]
        /\ \A v \in Tasks : r[1][v] + r[2][v] = queued[v] + blocked[v] + One(next[c] = v)
    <2>1. {c} \subseteq Cpus
      OBVIOUS
    <2>2. /\ r[1] \in [Tasks -> Nat] /\ r[2] \in [Tasks -> Nat]
          /\ \A v \in Tasks : r[1][v] + r[2][v] = queued[v] + blocked[v] + Among({c}, v)
      BY <1>3, <2>1, RequeueSum, ZenonT(40)
    <2> HIDE DEF r
    <2> QED BY <1>6, <2>2
  <1>8. w = awaiting + One(next[c] \in Tasks) /\ w \in Int
    BY <1>3, TaskAssumption DEF Is_idle, One, AllTasks
  <1> HIDE DEF r, w
  <1>9. idle[c] \in IdleTasks /\ idle[c] \notin Tasks /\ idle[c] \in AllTasks
    BY TaskAssumption DEF AllTasks
  <1>10. /\ next' \in [Cpus -> AllTasks] /\ IdleHome'
         /\ next'[c] = idle[c] /\ \A d \in Cpus \ {c} : next'[d] = next[d]
    BY <1>3, <1>4, <1>9 DEF IdleHome
  <1>11. /\ \A v \in Tasks : Occurs(next', v) = Occurs(next, v) - One(next[c] = v)
         /\ InSlots(next') = InSlots(next) - One(next[c] \in Tasks)
    <2>1. ASSUME NEW v \in Tasks
          PROVE  /\ Occurs(next', v) = Occurs(next, v) + One(idle[c] = v) - One(next[c] = v)
                 /\ Occurs(next, v) \in Nat
      BY <1>3, <1>4, OccursNext
    <2>2. /\ InSlots(next') = InSlots(next) + One(next'[c] \in Tasks) - One(next[c] \in Tasks)
          /\ InSlots(next) \in Nat
      BY <1>10, InSlotsUpdate, InSlotsNat
    <2> QED BY <1>9, <1>10, <2>1, <2>2 DEF One
  <1>12. awaiting' \in Int /\ awaiting' + InSlots(next') = awaiting + InSlots(next)
    BY <1>3, <1>4, <1>8, <1>11, InSlotsNat DEF One
  <1>13. ASSUME NEW v \in Tasks
         PROVE  queued'[v] + blocked'[v] + Occurs(next', v) = queued[v] + blocked[v] + Occurs(next, v)
    <2>1. /\ r[1][v] \in Nat /\ r[2][v] \in Nat /\ Occurs(next, v) \in Nat
          /\ queued[v] \in Nat /\ blocked[v] \in Nat
          /\ r[1][v] + r[2][v] = queued[v] + blocked[v] + One(next[c] = v)
      BY <1>3, <1>7, OccursNat
    <2>2. /\ queued'[v] = r[1][v] /\ blocked'[v] = r[2][v]
          /\ Occurs(next', v) = Occurs(next, v) - One(next[c] = v) /\ One(next[c] = v) \in {0, 1}
      BY <1>4, <1>11 DEF One
    <2> QED BY <2>1, <2>2
  <1> QED BY <1>4, <1>7, <1>10, <1>12, <1>13 DEF Reassigned

\* What schedule_one does
LEMMA PickEffect ==
    ASSUME SchedInv, Resolving, NEW c \in Cpus, schedule_one(c)
    PROVE  /\ Reassigned /\ \E t \in AllTasks : next' = [next EXCEPT ![c] = t]
  <1>1. /\ queued \in [Tasks -> Nat] /\ blocked \in [Tasks -> Nat] /\ awaiting \in Int
        /\ next \in [Cpus -> AllTasks] /\ IdleHome
    BY DEF SchedInv, PlainTypes
  <1>2. next[c] = idle[c] /\ idle[c] \in AllTasks /\ idle[c] \notin Tasks
    BY TaskAssumption DEF schedule_one, Goto, Resolving, SoftPoints, AllTasks
  <1>3. CASE UNCHANGED <<queued, awaiting, next>>
    <2>1. blocked' = blocked /\ next' = [next EXCEPT ![c] = idle[c]]
      BY <1>1, <1>2, <1>3 DEF schedule_one
    <2>2. IdleHome' /\ \A t \in Tasks : Occurs(next', t) = Occurs(next, t)
      BY <1>1, <1>3 DEF IdleHome
    <2>3. InSlots(next') = InSlots(next)
      BY <1>3
    <2> QED BY <1>1, <1>2, <1>3, <2>1, <2>2, <2>3 DEF Reassigned
  <1>4. ASSUME NEW t \in Tasks, queued[t] > 0, queued' = [queued EXCEPT ![t] = @ - 1],
               awaiting' = awaiting - 1, next' = [next EXCEPT ![c] = t]
        PROVE  Reassigned /\ \E u \in AllTasks : next' = [next EXCEPT ![c] = u]
    <2>1. t \in AllTasks /\ t \notin IdleTasks /\ blocked' = blocked
      BY TaskAssumption DEF AllTasks, schedule_one
    <2>2. /\ next' \in [Cpus -> AllTasks] /\ IdleHome'
          /\ next'[c] = t /\ \A d \in Cpus \ {c} : next'[d] = next[d]
      BY <1>1, <1>4, <2>1 DEF IdleHome
    <2>3. ASSUME NEW v \in Tasks
          PROVE  /\ Occurs(next', v) = Occurs(next, v) + One(t = v) - One(next[c] = v)
                 /\ Occurs(next, v) \in Nat
      BY <1>1, <1>4, OccursNext
    <2>4. /\ InSlots(next') = InSlots(next) + One(next'[c] \in Tasks) - One(next[c] \in Tasks)
          /\ InSlots(next) \in Nat
      BY <2>2, InSlotsUpdate, InSlotsNat
    <2>5. awaiting' \in Int /\ awaiting' + InSlots(next') = awaiting + InSlots(next)
      BY <1>1, <1>2, <1>4, <2>2, <2>4 DEF One
    <2>6. ASSUME NEW v \in Tasks
          PROVE  /\ queued'[v] \in Nat
                 /\ queued'[v] + blocked'[v] + Occurs(next', v)
                      = queued[v] + blocked[v] + Occurs(next, v)
      <3>1. queued'[v] = queued[v] - One(v = t) /\ queued[v] \in Nat /\ blocked'[v] \in Nat
            /\ blocked'[v] = blocked[v] /\ queued'[v] \in Nat
        BY <1>1, <1>4, <2>1 DEF One
      <3> QED BY <1>2, <2>2, <2>3, <3>1 DEF One
    <2>7. queued' \in [Tasks -> Nat]
      BY <1>1, <1>4, <2>6
    <2> QED BY <1>1, <1>4, <2>1, <2>2, <2>5, <2>6, <2>7 DEF Reassigned
  <1> QED BY <1>3, <1>4 DEF schedule_one

-----------------------------------------------------------------------------
(* Steps of tasks, one lemma for each action *)

LEMMA BlockMutexKeeps ==
    ASSUME SchedInv, NEW c \in Cpus, NEW t \in Tasks, block_mutex(c, t)
    PROVE  SchedInv'
  <1> USE CpuAssumption, TaskAssumption, CoreZero DEF SchedInv, PlainTypes, block_mutex, queues,
      slots, lockvars, context, handler, Runs, At
  <1>1. /\ PlainTypes' /\ FlagTypes' /\ Writers' /\ Core0' /\ AccessOwner' /\ KeepsCpu'
        /\ ReadersExact' /\ Registers' /\ Saves' /\ IdleHome' /\ NoDoubleRun' /\ Launches'
    BY DEF FlagTypes, Writers, Core0, AccessOwner, KeepsCpu, ReadersExact, Registers, Saves,
           IdleHome, NoDoubleRun, Launches, TaskPoints, CpuPoints, CpuWrites, TaskWrites,
           TickPoints, SoftPoints, SavedPoints, MaskedPoints, ReadPoints, ToSwitch, Launching
  <1>2. OnePlace' /\ Awaiting'
    <2>1. Passes(t)
      BY DEF Passes, LaunchPoints
    <2>2. UNCHANGED <<queued, blocked, awaiting, next, launched>> /\ launched \subseteq Tasks
      OBVIOUS
    <2> HIDE DEF block_mutex, PlainTypes
    <2> QED BY <2>1, <2>2, PassesSame, PlacesKept
  <1> HIDE DEF block_mutex, PlainTypes
  <1> QED BY <1>1, <1>2 DEF SchedInv

LEMMA BlockDirtyKeeps ==
    ASSUME SchedInv, NEW c \in Cpus, NEW t \in Tasks, block_dirty(c, t)
    PROVE  SchedInv'
  <1> USE CpuAssumption, TaskAssumption, CoreZero DEF SchedInv, PlainTypes, block_dirty, queues,
      slots, lockvars, context, handler, Runs, At
  <1>1. /\ PlainTypes' /\ FlagTypes' /\ Writers' /\ Core0' /\ AccessOwner' /\ KeepsCpu'
        /\ ReadersExact' /\ Registers' /\ Saves' /\ IdleHome' /\ NoDoubleRun' /\ Launches'
    BY DEF FlagTypes, Writers, Core0, AccessOwner, KeepsCpu, ReadersExact, Registers, Saves,
           IdleHome, NoDoubleRun, Launches, TaskPoints, CpuPoints, CpuWrites, TaskWrites,
           TickPoints, SoftPoints, SavedPoints, MaskedPoints, ReadPoints, ToSwitch, Launching
  <1>2. OnePlace' /\ Awaiting'
    <2>1. Passes(t)
      BY DEF Passes, LaunchPoints
    <2>2. UNCHANGED <<queued, blocked, awaiting, next, launched>> /\ launched \subseteq Tasks
      OBVIOUS
    <2> HIDE DEF block_dirty, PlainTypes
    <2> QED BY <2>1, <2>2, PassesSame, PlacesKept
  <1> HIDE DEF block_dirty, PlainTypes
  <1> QED BY <1>1, <1>2 DEF SchedInv

LEMMA TryDisableSchedulerKeeps ==
    ASSUME SchedInv, NEW c \in Cpus, NEW t \in Tasks, try_disable_scheduler(c, t)
    PROVE  SchedInv'
  <1> USE CpuAssumption, TaskAssumption, CoreZero DEF SchedInv, PlainTypes, try_disable_scheduler,
      queues, slots, lockvars, context, handler, wake, Runs, At
  <1>1. /\ PlainTypes' /\ FlagTypes' /\ Writers' /\ Core0' /\ AccessOwner' /\ KeepsCpu'
        /\ ReadersExact' /\ Registers' /\ Saves' /\ IdleHome' /\ NoDoubleRun' /\ Launches'
    BY DEF FlagTypes, Writers, Core0, AccessOwner, KeepsCpu, ReadersExact, Registers, Saves,
           IdleHome, NoDoubleRun, Launches, TaskPoints, CpuPoints, CpuWrites, TaskWrites,
           TickPoints, SoftPoints, SavedPoints, MaskedPoints, ReadPoints, ToSwitch, Launching
  <1>2. OnePlace' /\ Awaiting'
    <2>1. Passes(t)
      BY DEF Passes, LaunchPoints
    <2>2. UNCHANGED <<queued, blocked, awaiting, next, launched>> /\ launched \subseteq Tasks
      OBVIOUS
    <2> HIDE DEF try_disable_scheduler, PlainTypes
    <2> QED BY <2>1, <2>2, PassesSame, PlacesKept
  <1> HIDE DEF try_disable_scheduler, PlainTypes
  <1> QED BY <1>1, <1>2 DEF SchedInv

LEMMA HoldKeeps ==
    ASSUME SchedInv, NEW c \in Cpus, NEW t \in Tasks, hold(c, t)
    PROVE  SchedInv'
  <1> USE CpuAssumption, TaskAssumption, CoreZero DEF SchedInv, PlainTypes, hold, queues, slots,
      lockvars, context, handler, wake, Hold, Runs, At
  <1>1. PlainTypes' /\ FlagTypes' /\ Writers' /\ Core0' /\ AccessOwner' /\ ReadersExact'
    BY DEF FlagTypes, Writers, Core0, AccessOwner, ReadersExact, TaskPoints, CpuPoints, CpuWrites,
           TaskWrites, TickPoints, SoftPoints, SavedPoints, ReadPoints
  <1>2. Registers' /\ Saves' /\ IdleHome' /\ NoDoubleRun' /\ Launches'
    BY DEF Registers, Saves, IdleHome, NoDoubleRun, Launches, ToSwitch, Launching, SoftPoints, SavedPoints
  <1>3. KeepsCpu'
    <2>1. KeepsCpu /\ masked \in [Cpus -> BOOLEAN]
      BY DEF FlagTypes
    <2>2. SUFFICES ASSUME NEW v \in Tasks, tpc'[v] \in MaskedPoints
                   PROVE  \E d \in Cpus : pc'[d] = "run" /\ live'[d] = v /\ masked'[d]
      BY DEF KeepsCpu
    <2>3. CASE v = t
      BY <2>1, <2>3
    <2>4. CASE v # t
      <3>1. PICK d \in Cpus : pc[d] = "run" /\ live[d] = v /\ masked[d]
        BY <2>1, <2>2, <2>4 DEF KeepsCpu
      <3> QED BY <2>1, <2>4, <3>1
    <2> QED BY <2>3, <2>4
  <1>4. OnePlace' /\ Awaiting'
    <2>1. Passes(t)
      BY DEF Passes, LaunchPoints
    <2>2. UNCHANGED <<queued, blocked, awaiting, next, launched>> /\ launched \subseteq Tasks
      OBVIOUS
    <2> HIDE DEF hold, PlainTypes
    <2> QED BY <2>1, <2>2, PassesSame, PlacesKept
  <1> HIDE DEF hold, PlainTypes
  <1> QED BY <1>1, <1>2, <1>3, <1>4 DEF SchedInv

LEMMA TryBusyKeeps ==
    ASSUME SchedInv, NEW c \in Cpus, NEW t \in Tasks, try_busy(c, t)
    PROVE  SchedInv'
  <1> USE CpuAssumption, TaskAssumption, CoreZero DEF SchedInv, PlainTypes, try_busy, queues,
      slots, lockvars, context, handler, wake, Runs, At
  <1>1. /\ PlainTypes' /\ FlagTypes' /\ Writers' /\ Core0' /\ AccessOwner' /\ KeepsCpu'
        /\ ReadersExact' /\ Registers' /\ Saves' /\ IdleHome' /\ NoDoubleRun' /\ Launches'
    BY DEF FlagTypes, Writers, Core0, AccessOwner, KeepsCpu, ReadersExact, Registers, Saves,
           IdleHome, NoDoubleRun, Launches, TaskPoints, CpuPoints, CpuWrites, TaskWrites,
           TickPoints, SoftPoints, SavedPoints, MaskedPoints, ReadPoints, ToSwitch, Launching
  <1>2. OnePlace' /\ Awaiting'
    <2>1. Passes(t)
      BY DEF Passes, LaunchPoints
    <2>2. UNCHANGED <<queued, blocked, awaiting, next, launched>> /\ launched \subseteq Tasks
      OBVIOUS
    <2> HIDE DEF try_busy, PlainTypes
    <2> QED BY <2>1, <2>2, PassesSame, PlacesKept
  <1> HIDE DEF try_busy, PlainTypes
  <1> QED BY <1>1, <1>2 DEF SchedInv

LEMMA TryEnterKeeps ==
    ASSUME SchedInv, NEW c \in Cpus, NEW t \in Tasks, try_enter(c, t)
    PROVE  SchedInv'
  <1> USE CpuAssumption, TaskAssumption, CoreZero DEF SchedInv, PlainTypes, try_enter, queues,
      slots, context, handler, wake, Runs, At
  <1>1. /\ PlainTypes' /\ FlagTypes' /\ Writers' /\ Core0' /\ KeepsCpu' /\ ReadersExact'
        /\ Registers' /\ Saves' /\ IdleHome' /\ NoDoubleRun' /\ Launches'
    BY DEF FlagTypes, Writers, Core0, KeepsCpu, ReadersExact, Registers, Saves, IdleHome,
           NoDoubleRun, Launches, TaskPoints, CpuPoints, CpuWrites, TaskWrites, TickPoints, SoftPoints, SavedPoints,
           MaskedPoints, ReadPoints, ToSwitch, Launching
  <1>2. AccessOwner'
    <2>1. \A v \in Tasks : access = v <=> tpc[v] \in {"try_in", "spin_in"}
      BY DEF AccessOwner
    <2>2. ASSUME NEW v \in Tasks PROVE access' = v <=> tpc'[v] \in {"try_in", "spin_in"}
      <3>1. CASE v = t
        BY <3>1
      <3>2. CASE v # t
        BY <2>1, <3>2 DEF AllTasks
      <3> QED BY <3>1, <3>2
    <2> QED BY <2>2 DEF AccessOwner
  <1>3. OnePlace' /\ Awaiting'
    <2>1. Passes(t)
      BY DEF Passes, LaunchPoints
    <2>2. UNCHANGED <<queued, blocked, awaiting, next, launched>> /\ launched \subseteq Tasks
      OBVIOUS
    <2> HIDE DEF try_enter, PlainTypes
    <2> QED BY <2>1, <2>2, PassesSame, PlacesKept
  <1> HIDE DEF try_enter, PlainTypes
  <1> QED BY <1>1, <1>2, <1>3 DEF SchedInv

LEMMA TryCheckKeeps ==
    ASSUME SchedInv, NEW c \in Cpus, NEW t \in Tasks, try_check(c, t)
    PROVE  SchedInv'
  <1> USE CpuAssumption, TaskAssumption, CoreZero DEF SchedInv, PlainTypes, try_check, queues,
      slots, context, handler, wake, Runs, At, Free
  <1>1. PlainTypes' /\ FlagTypes' /\ Writers' /\ Core0' /\ KeepsCpu' /\ ReadersExact'
    BY DEF FlagTypes, Writers, Core0, KeepsCpu, ReadersExact, TaskPoints, CpuPoints, CpuWrites,
           TaskWrites, TickPoints, SoftPoints, SavedPoints, MaskedPoints, ReadPoints
  <1>2. Registers' /\ Saves' /\ IdleHome' /\ NoDoubleRun' /\ Launches'
    BY DEF Registers, Saves, IdleHome, NoDoubleRun, Launches, ToSwitch, Launching
  <1>3. AccessOwner'
    <2>1. \A v \in Tasks : access = v <=> tpc[v] \in {"try_in", "spin_in"}
      BY DEF AccessOwner
    <2>2. access' = NoTask /\ tpc[t] \in {"try_in", "spin_in"} /\ tpc'[t] \notin {"try_in", "spin_in"}
          /\ \A v \in Tasks \ {t} : tpc'[v] = tpc[v]
      OBVIOUS
    <2>3. NoTask \notin Tasks
      BY DEF AllTasks
    <2> HIDE DEF try_check, task_run_check
    <2> QED BY <2>1, <2>2, <2>3 DEF AccessOwner
  <1>4. OnePlace' /\ Awaiting'
    <2>1. Passes(t)
      BY DEF Passes, LaunchPoints
    <2>2. UNCHANGED <<queued, blocked, awaiting, next, launched>> /\ launched \subseteq Tasks
      OBVIOUS
    <2> HIDE DEF try_check, PlainTypes
    <2> QED BY <2>1, <2>2, PassesSame, PlacesKept
  <1> HIDE DEF try_check, PlainTypes
  <1> QED BY <1>1, <1>2, <1>3, <1>4 DEF SchedInv

LEMMA TryFailedKeeps ==
    ASSUME SchedInv, NEW c \in Cpus, NEW t \in Tasks, try_failed(c, t)
    PROVE  SchedInv'
  <1> USE CpuAssumption, TaskAssumption, CoreZero DEF SchedInv, PlainTypes, try_failed, queues,
      slots, lockvars, context, handler, wake, Release, Runs, At
  <1>1. /\ PlainTypes' /\ FlagTypes' /\ Writers' /\ Core0' /\ AccessOwner' /\ KeepsCpu'
        /\ ReadersExact' /\ Registers' /\ Saves' /\ IdleHome' /\ NoDoubleRun' /\ Launches'
    BY DEF FlagTypes, Writers, Core0, AccessOwner, KeepsCpu, ReadersExact, Registers, Saves,
           IdleHome, NoDoubleRun, Launches, TaskPoints, CpuPoints, CpuWrites, TaskWrites,
           TickPoints, SoftPoints, SavedPoints, MaskedPoints, ReadPoints, ToSwitch, Launching
  <1>2. OnePlace' /\ Awaiting'
    <2>1. Passes(t)
      BY DEF Passes, LaunchPoints
    <2>2. UNCHANGED <<queued, blocked, awaiting, next, launched>> /\ launched \subseteq Tasks
      OBVIOUS
    <2> HIDE DEF try_failed, PlainTypes
    <2> QED BY <2>1, <2>2, PassesSame, PlacesKept
  <1> HIDE DEF try_failed, PlainTypes
  <1> QED BY <1>1, <1>2 DEF SchedInv

LEMMA BlockInSendKeeps ==
    ASSUME SchedInv, NEW c \in Cpus, NEW t \in Tasks, block_in_send(c, t)
    PROVE  SchedInv'
  <1> USE CpuAssumption, TaskAssumption, CoreZero DEF SchedInv, PlainTypes, block_in_send, queues,
      slots, lockvars, context, handler, Runs
  <1>1. PlainTypes' /\ FlagTypes' /\ Writers' /\ Core0' /\ AccessOwner' /\ KeepsCpu'
    BY DEF FlagTypes, Writers, Core0, AccessOwner, KeepsCpu, TaskPoints, CpuPoints, CpuWrites,
           TaskWrites, TickPoints, SoftPoints, SavedPoints, MaskedPoints
  <1>2. ReadersExact' /\ Registers' /\ Saves' /\ IdleHome' /\ NoDoubleRun' /\ Launches'
    BY DEF ReadersExact, Registers, Saves, IdleHome, NoDoubleRun, Launches, ReadPoints, ToSwitch,
           Launching
  <1>3. OnePlace' /\ Awaiting'
    <2>1. Passes(t)
      BY DEF Passes, LaunchPoints
    <2>2. UNCHANGED <<queued, blocked, awaiting, next, launched>> /\ launched \subseteq Tasks
      OBVIOUS
    <2> HIDE DEF block_in_send, PlainTypes
    <2> QED BY <2>1, <2>2, PassesSame, PlacesKept
  <1> HIDE DEF block_in_send, PlainTypes
  <1> QED BY <1>1, <1>2, <1>3 DEF SchedInv

LEMMA ReenableSchedulerKeeps ==
    ASSUME SchedInv, NEW c \in Cpus, NEW t \in Tasks, reenable_scheduler(c, t)
    PROVE  SchedInv'
  <1> USE CpuAssumption, TaskAssumption, CoreZero DEF SchedInv, PlainTypes, reenable_scheduler,
      queues, slots, lockvars, context, handler, wake, Release, Runs, At
  <1>1. PlainTypes' /\ FlagTypes' /\ Writers' /\ Core0' /\ AccessOwner' /\ KeepsCpu'
    BY DEF FlagTypes, Writers, Core0, AccessOwner, KeepsCpu, TaskPoints, CpuPoints, CpuWrites,
           TaskWrites, TickPoints, SoftPoints, SavedPoints, MaskedPoints
  <1>2. ReadersExact' /\ Registers' /\ Saves' /\ IdleHome' /\ NoDoubleRun' /\ Launches'
    BY DEF ReadersExact, Registers, Saves, IdleHome, NoDoubleRun, Launches, ReadPoints, ToSwitch,
           Launching
  <1>3. OnePlace' /\ Awaiting'
    <2>1. Passes(t)
      BY DEF Passes, LaunchPoints
    <2>2. UNCHANGED <<queued, blocked, awaiting, next, launched>> /\ launched \subseteq Tasks
      OBVIOUS
    <2> HIDE DEF reenable_scheduler, PlainTypes
    <2> QED BY <2>1, <2>2, PassesSame, PlacesKept
  <1> HIDE DEF reenable_scheduler, PlainTypes
  <1> QED BY <1>1, <1>2, <1>3 DEF SchedInv

LEMMA Int101Keeps ==
    ASSUME SchedInv, NEW c \in Cpus, NEW t \in Tasks, int101(c, t)
    PROVE  SchedInv'
  <1> USE CpuAssumption, TaskAssumption, CoreZero DEF SchedInv, PlainTypes, int101, queues, slots,
      lockvars, wake, Runs, At
  <1>1. PlainTypes' /\ Writers' /\ Core0' /\ AccessOwner' /\ KeepsCpu'
    BY DEF Writers, Core0, AccessOwner, KeepsCpu, TaskPoints, CpuPoints, CpuWrites, TaskWrites,
           TickPoints, SoftPoints, SavedPoints, MaskedPoints
  <1>2. Registers' /\ IdleHome' /\ NoDoubleRun' /\ Launches'
    BY DEF Registers, IdleHome, NoDoubleRun, Launches, ToSwitch, Launching, SoftPoints, SavedPoints
  <1>3. FlagTypes'
    <2>1. /\ FlagTypes /\ UNCHANGED <<mutex, dirty, masked>>
          /\ awaitSave' = [awaitSave EXCEPT ![t] = FALSE]
          /\ savedMask' = [savedMask EXCEPT ![t] = masked[c]]
      OBVIOUS
    <2> HIDE DEF int101, SchedInv, PlainTypes
    <2>2. awaitSave' \in [AllTasks -> BOOLEAN] /\ masked[c] \in BOOLEAN
      BY <2>1, BooleanFunctions DEF FlagTypes
    <2>3. savedMask' \in [AllTasks -> BOOLEAN]
      BY <2>1, <2>2, BooleanFunctions DEF FlagTypes
    <2> QED BY <2>1, <2>2, <2>3 DEF FlagTypes
  <1>4. ReadersExact'
    <2>1. /\ UNCHANGED <<readers, ipi>> /\ \A d \in Cpus \ {c} : pc'[d] = pc[d]
          /\ pc[c] \in ReadPoints <=> pc'[c] \in ReadPoints
      BY DEF ReadPoints
    <2> QED BY <2>1, ReadersKept
  <1>5. Saves'
    <2>1. live[c] = t /\ t # NoTask
      BY DEF AllTasks
    <2>2. /\ live' = [live EXCEPT ![c] = NoTask] /\ awaitSave' = [awaitSave EXCEPT ![live[c]] = FALSE]
          /\ UNCHANGED <<next, current>>
          /\ pc'[0] # "downgrade" => pc[0] # "downgrade"
      BY <2>1
    <2> HIDE DEF int101, SchedInv, PlainTypes
    <2> QED BY <2>1, <2>2, SaveKeeps
  <1>6. OnePlace' /\ Awaiting'
    <2>1. Passes(t)
      BY DEF Passes, LaunchPoints
    <2>2. UNCHANGED <<queued, blocked, awaiting, next, launched>> /\ launched \subseteq Tasks
      OBVIOUS
    <2> HIDE DEF int101, PlainTypes
    <2> QED BY <2>1, <2>2, PassesSame, PlacesKept
  <1> HIDE DEF int101, PlainTypes
  <1> QED BY <1>1, <1>2, <1>3, <1>4, <1>5, <1>6 DEF SchedInv

LEMMA ResumedKeeps ==
    ASSUME SchedInv, NEW c \in Cpus, NEW t \in Tasks, resumed(c, t)
    PROVE  SchedInv'
  <1> USE CpuAssumption, TaskAssumption, CoreZero DEF SchedInv, PlainTypes, resumed, queues,
      slots, lockvars, context, handler, wake, Release, Runs, At
  <1>1. PlainTypes' /\ FlagTypes' /\ Writers' /\ Core0' /\ AccessOwner' /\ KeepsCpu'
    BY DEF FlagTypes, Writers, Core0, AccessOwner, KeepsCpu, TaskPoints, CpuPoints, CpuWrites,
           TaskWrites, TickPoints, SoftPoints, SavedPoints, MaskedPoints
  <1>3. ReadersExact' /\ Registers' /\ Saves' /\ IdleHome' /\ NoDoubleRun' /\ Launches'
    BY DEF ReadersExact, ReadPoints, Registers, Saves, IdleHome, NoDoubleRun, Launches, ToSwitch,
           Launching, SoftPoints, SavedPoints
  <1>2. OnePlace' /\ Awaiting'
    <2>1. Passes(t)
      BY DEF Passes, LaunchPoints
    <2>2. UNCHANGED <<queued, blocked, awaiting, next, launched>> /\ launched \subseteq Tasks
      OBVIOUS
    <2> HIDE DEF resumed, PlainTypes
    <2> QED BY <2>1, <2>2, PassesSame, PlacesKept
  <1> HIDE DEF resumed, PlainTypes
  <1> QED BY <1>1, <1>2, <1>3 DEF SchedInv

LEMMA SyscallReturnKeeps ==
    ASSUME SchedInv, NEW c \in Cpus, NEW t \in Tasks, syscall_return(c, t)
    PROVE  SchedInv'
  <1> USE CpuAssumption, TaskAssumption, CoreZero DEF SchedInv, PlainTypes, syscall_return,
      queues, slots, lockvars, context, handler, wake, Runs, At
  <1>1. PlainTypes' /\ FlagTypes' /\ Writers' /\ Core0' /\ AccessOwner' /\ KeepsCpu'
    BY DEF FlagTypes, Writers, Core0, AccessOwner, KeepsCpu, TaskPoints, CpuPoints, CpuWrites,
           TaskWrites, TickPoints, SoftPoints, SavedPoints, MaskedPoints
  <1>2. ReadersExact'
    BY DEF ReadersExact, ReadPoints
  <1>3. Registers' /\ Saves' /\ IdleHome' /\ NoDoubleRun' /\ Launches'
    BY DEF Registers, Saves, IdleHome, NoDoubleRun, Launches, ToSwitch, Launching, SoftPoints, SavedPoints
  <1>4. OnePlace' /\ Awaiting'
    <2>1. Passes(t)
      BY DEF Passes, LaunchPoints
    <2>2. UNCHANGED <<queued, blocked, awaiting, next, launched>> /\ launched \subseteq Tasks
      OBVIOUS
    <2> HIDE DEF syscall_return, PlainTypes
    <2> QED BY <2>1, <2>2, PassesSame, PlacesKept
  <1> HIDE DEF syscall_return, PlainTypes
  <1> QED BY <1>1, <1>2, <1>3, <1>4 DEF SchedInv

LEMMA TaskRunLockKeeps ==
    ASSUME SchedInv, NEW c \in Cpus, NEW t \in Tasks, task_run_lock(c, t)
    PROVE  SchedInv'
  <1> USE CpuAssumption, TaskAssumption, CoreZero DEF SchedInv, PlainTypes, task_run_lock, queues,
      slots, context, handler, wake, Runs, At
  <1>1. /\ PlainTypes' /\ FlagTypes' /\ Writers' /\ Core0' /\ KeepsCpu' /\ ReadersExact'
        /\ Registers' /\ Saves' /\ IdleHome' /\ NoDoubleRun' /\ Launches'
    BY DEF FlagTypes, Writers, Core0, KeepsCpu, ReadersExact, Registers, Saves, IdleHome,
           NoDoubleRun, Launches, TaskPoints, CpuPoints, CpuWrites, TaskWrites, TickPoints, SoftPoints, SavedPoints,
           MaskedPoints, ReadPoints, ToSwitch, Launching
  <1>2. AccessOwner'
    <2>1. \A v \in Tasks : access = v <=> tpc[v] \in {"try_in", "spin_in"}
      BY DEF AccessOwner
    <2>2. ASSUME NEW v \in Tasks PROVE access' = v <=> tpc'[v] \in {"try_in", "spin_in"}
      <3>1. CASE v = t
        BY <3>1
      <3>2. CASE v # t
        BY <2>1, <3>2 DEF AllTasks
      <3> QED BY <3>1, <3>2
    <2> QED BY <2>2 DEF AccessOwner
  <1>3. OnePlace' /\ Awaiting'
    <2>1. Passes(t)
      BY DEF Passes, LaunchPoints
    <2>2. UNCHANGED <<queued, blocked, awaiting, next, launched>> /\ launched \subseteq Tasks
      OBVIOUS
    <2> HIDE DEF task_run_lock, PlainTypes
    <2> QED BY <2>1, <2>2, PassesSame, PlacesKept
  <1> HIDE DEF task_run_lock, PlainTypes
  <1> QED BY <1>1, <1>2, <1>3 DEF SchedInv

LEMMA TaskRunCheckKeeps ==
    ASSUME SchedInv, NEW c \in Cpus, NEW t \in Tasks, task_run_check(c, t)
    PROVE  SchedInv'
  <1> USE CpuAssumption, TaskAssumption, CoreZero DEF SchedInv, PlainTypes, task_run_check,
      queues, slots, context, handler, wake, Runs, At, Free
  <1>1. PlainTypes' /\ FlagTypes' /\ Writers' /\ Core0' /\ KeepsCpu' /\ ReadersExact'
    BY DEF FlagTypes, Writers, Core0, KeepsCpu, ReadersExact, TaskPoints, CpuPoints, CpuWrites,
           TaskWrites, TickPoints, SoftPoints, SavedPoints, MaskedPoints, ReadPoints
  <1>2. Registers' /\ Saves' /\ IdleHome'
    BY DEF Registers, Saves, IdleHome, ToSwitch
  <1>3. NoDoubleRun' /\ Launches'
    BY DEF NoDoubleRun, Launches, Launching
  <1>4. AccessOwner'
    <2>1. \A v \in Tasks : access = v <=> tpc[v] \in {"try_in", "spin_in"}
      BY DEF AccessOwner
    <2>2. access' = NoTask /\ tpc[t] \in {"try_in", "spin_in"} /\ tpc'[t] \notin {"try_in", "spin_in"}
          /\ \A v \in Tasks \ {t} : tpc'[v] = tpc[v]
      OBVIOUS
    <2>3. NoTask \notin Tasks
      BY DEF AllTasks
    <2> HIDE DEF try_check, task_run_check
    <2> QED BY <2>1, <2>2, <2>3 DEF AccessOwner
  <1>5. OnePlace' /\ Awaiting'
    <2>1. Passes(t)
      BY DEF Passes, LaunchPoints
    <2>2. UNCHANGED <<queued, blocked, awaiting, next, launched>> /\ launched \subseteq Tasks
      OBVIOUS
    <2> HIDE DEF task_run_check, PlainTypes
    <2> QED BY <2>1, <2>2, PassesSame, PlacesKept
  <1> HIDE DEF task_run_check, PlainTypes
  <1> QED BY <1>1, <1>2, <1>3, <1>4, <1>5 DEF SchedInv

LEMMA TaskRunAddKeeps ==
    ASSUME SchedInv, NEW c \in Cpus, NEW t \in Tasks, task_run_add(c, t)
    PROVE  SchedInv'
  <1> USE CpuAssumption, TaskAssumption, CoreZero DEF SchedInv, PlainTypes, task_run_add, slots,
      lockvars, context, handler, wake, Runs, At
  <1>1. FlagTypes' /\ Writers' /\ Core0' /\ AccessOwner' /\ KeepsCpu'
    BY DEF FlagTypes, Writers, Core0, AccessOwner, KeepsCpu, CpuWrites, TaskWrites, TickPoints,
           SoftPoints, SavedPoints, MaskedPoints
  <1>0. ReadersExact' /\ Registers' /\ Saves' /\ IdleHome' /\ NoDoubleRun' /\ Launches'
    BY DEF ReadersExact, Registers, Saves, IdleHome, NoDoubleRun, Launches, ReadPoints, ToSwitch,
           Launching, SoftPoints, SavedPoints
  <1>2. PlainTypes'
    <2>1. op[t] \in Tasks
      BY DEF Launches
    <2>2. queued' \in [Tasks -> Nat] /\ blocked' \in [Tasks -> Nat]
      BY <2>1
    <2>3. awaiting' \in Int /\ tpc' \in [Tasks -> TaskPoints]
      BY DEF TaskPoints
    <2>4. UNCHANGED <<launched, todo, slots, readers, access, live, sel, pc, kick, ipi, op>>
      OBVIOUS
    <2> HIDE DEF task_run_add
    <2> QED BY <2>2, <2>3, <2>4
  <1>3. OnePlace' /\ Awaiting'
    <2>0. PICK v \in launched : v = op[t]
      BY DEF Launches
    <2>1. launched \subseteq Tasks /\ launched' = launched
      OBVIOUS
    <2>2. BeingLaunched(v)
      BY <2>0 DEF BeingLaunched
    <2>3. ~ BeingLaunched(v)'
      BY <2>0 DEF BeingLaunched, Launches, Launching
    <2>4. ASSUME NEW x \in Tasks, x # v PROVE BeingLaunched(x)' = BeingLaunched(x)
      BY <2>0, <2>4 DEF BeingLaunched
    <2>5. v \notin Managed /\ Managed' = Managed \cup {v}
      <3> HIDE DEF task_run_add, SchedInv, PlainTypes
      <3> QED BY <2>1, <2>2, <2>3, <2>4 DEF Managed
    <2>6. awaiting' = awaiting + 1 /\ awaiting \in Int /\ next' = next /\ OnePlace /\ Awaiting
      OBVIOUS
    <2>7. ASSUME NEW x \in Tasks
          PROVE  /\ queued[x] \in Nat /\ blocked[x] \in Nat
                 /\ queued'[x] + blocked'[x] = queued[x] + blocked[x] + One(x = v)
      <3>1. v \in Tasks
        BY <2>0
      <3> QED BY <2>0, <3>1 DEF One
    <2> HIDE DEF task_run_add, SchedInv, PlainTypes
    <2>8. Cardinality(Managed') = Cardinality(Managed) + 1 /\ Cardinality(Managed) \in Nat
      BY <2>1, <2>5, ManagedFinite, FS_AddElement, FS_CardinalityType
    <2>9. Awaiting'
      BY <2>6, <2>8, InSlotsNat, OnePlaceDef
    <2>10. ASSUME NEW x \in Tasks PROVE Placed(x, One(x \in Managed))'
      <3>1. Placed(x, One(x \in Managed)) /\ Occurs(next, x) \in Nat
        BY <2>6, OnePlaceDef, OccursNat
      <3>2. One(x \in Managed') = One(x \in Managed) + One(x = v)
        BY <2>5 DEF One
      <3> QED BY <2>6, <2>7, <3>1, <3>2 DEF Placed, One
    <2> QED BY <2>9, <2>10, OnePlaceDef
  <1> HIDE DEF task_run_add, PlainTypes
  <1> QED BY <1>0, <1>1, <1>2, <1>3 DEF SchedInv

LEMMA WriteReleaseKeeps ==
    ASSUME SchedInv, NEW c \in Cpus, NEW t \in Tasks, write_release(c, t)
    PROVE  SchedInv'
  <1> USE CpuAssumption, TaskAssumption, CoreZero DEF SchedInv, PlainTypes, write_release, queues,
      slots, context, handler, wake, Runs, At
  <1>1. /\ PlainTypes' /\ FlagTypes' /\ Writers' /\ Core0' /\ AccessOwner' /\ KeepsCpu'
        /\ ReadersExact' /\ Registers' /\ Saves' /\ IdleHome' /\ NoDoubleRun' /\ Launches'
    BY DEF FlagTypes, Writers, Core0, AccessOwner, KeepsCpu, ReadersExact, Registers, Saves,
           IdleHome, NoDoubleRun, Launches, TaskPoints, CpuPoints, CpuWrites, TaskWrites,
           TickPoints, SoftPoints, SavedPoints, MaskedPoints, ReadPoints, ToSwitch, Launching
  <1>2. OnePlace' /\ Awaiting'
    <2>1. Passes(t)
      BY DEF Passes, LaunchPoints
    <2>2. UNCHANGED <<queued, blocked, awaiting, next, launched>> /\ launched \subseteq Tasks
      OBVIOUS
    <2> HIDE DEF write_release, PlainTypes
    <2> QED BY <2>1, <2>2, PassesSame, PlacesKept
  <1> HIDE DEF write_release, PlainTypes
  <1> QED BY <1>1, <1>2 DEF SchedInv

LEMMA UnblockReleaseKeeps ==
    ASSUME SchedInv, NEW c \in Cpus, NEW t \in Tasks, unblock_release(c, t)
    PROVE  SchedInv'
  <1> USE CpuAssumption, TaskAssumption, CoreZero DEF SchedInv, PlainTypes, unblock_release,
      queues, slots, lockvars, context, handler, Runs, At
  <1>1. PlainTypes' /\ Writers' /\ Core0'
    BY DEF Writers, Core0, TaskPoints, CpuPoints, CpuWrites, TaskWrites, TickPoints, SoftPoints, SavedPoints
  <1>2. AccessOwner' /\ KeepsCpu' /\ ReadersExact'
    <2>1. UNCHANGED <<access, readers, ipi, pc, live, masked>> /\ AccessOwner /\ KeepsCpu /\ ReadersExact
      OBVIOUS
    <2>2. \A v \in Tasks : tpc'[v] = tpc[v] \/ {tpc[v], tpc'[v]} = {"unb_rel", "unb_dirty"}
      OBVIOUS
    <2> HIDE DEF unblock_release, SchedInv, PlainTypes
    <2> QED BY <2>1, <2>2 DEF AccessOwner, KeepsCpu, ReadersExact, MaskedPoints, ReadPoints
  <1>3. Registers' /\ Saves' /\ IdleHome' /\ NoDoubleRun' /\ Launches'
    BY DEF Registers, Saves, IdleHome, NoDoubleRun, Launches, ToSwitch, Launching
  <1>4. FlagTypes'
    <2>1. FlagTypes /\ mutex' = [mutex EXCEPT ![op[t]] = FALSE]
      OBVIOUS
    <2>2. UNCHANGED <<dirty, awaitSave, savedMask, masked>>
      OBVIOUS
    <2> HIDE DEF unblock_release, SchedInv, PlainTypes
    <2>3. mutex' \in [Tasks -> BOOLEAN]
      BY <2>1, BooleanFunctions DEF FlagTypes
    <2> QED BY <2>1, <2>2, <2>3 DEF FlagTypes
  <1>5. OnePlace' /\ Awaiting'
    <2>1. Passes(t)
      BY DEF Passes, LaunchPoints
    <2>2. UNCHANGED <<queued, blocked, awaiting, next, launched>> /\ launched \subseteq Tasks
      OBVIOUS
    <2> HIDE DEF unblock_release, PlainTypes
    <2> QED BY <2>1, <2>2, PassesSame, PlacesKept
  <1> HIDE DEF unblock_release, PlainTypes
  <1> QED BY <1>1, <1>2, <1>3, <1>4, <1>5 DEF SchedInv

LEMMA UnblockDirtyKeeps ==
    ASSUME SchedInv, NEW c \in Cpus, NEW t \in Tasks, unblock_dirty(c, t)
    PROVE  SchedInv'
  <1> USE CpuAssumption, TaskAssumption, CoreZero DEF SchedInv, PlainTypes, unblock_dirty, queues,
      slots, lockvars, context, handler, Runs, At
  <1>1. PlainTypes' /\ FlagTypes' /\ Writers' /\ Core0' /\ AccessOwner' /\ KeepsCpu'
    BY DEF FlagTypes, Writers, Core0, AccessOwner, KeepsCpu, TaskPoints, CpuPoints, CpuWrites,
           TaskWrites, TickPoints, SoftPoints, SavedPoints, MaskedPoints
  <1>2. ReadersExact' /\ Registers' /\ Saves'
    BY DEF ReadersExact, Registers, Saves, ReadPoints, ToSwitch
  <1>3. IdleHome' /\ NoDoubleRun' /\ Launches'
    BY DEF IdleHome, NoDoubleRun, Launches, Launching
  <1>4. OnePlace' /\ Awaiting'
    <2>1. Passes(t)
      BY DEF Passes, LaunchPoints
    <2>2. UNCHANGED <<queued, blocked, awaiting, next, launched>> /\ launched \subseteq Tasks
      OBVIOUS
    <2> HIDE DEF unblock_dirty, PlainTypes
    <2> QED BY <2>1, <2>2, PassesSame, PlacesKept
  <1> HIDE DEF unblock_dirty, PlainTypes
  <1> QED BY <1>1, <1>2, <1>3, <1>4 DEF SchedInv

LEMMA TaskRunKeeps ==
    ASSUME SchedInv, NEW c \in Cpus, NEW t \in Tasks, NEW u \in Tasks, task_run(c, t, u)
    PROVE  SchedInv'
  <1> USE CpuAssumption, TaskAssumption, CoreZero DEF SchedInv, PlainTypes, task_run, slots,
      lockvars, context, handler, Runs, At
  <1>1. /\ PlainTypes' /\ FlagTypes' /\ Writers' /\ Core0' /\ AccessOwner' /\ KeepsCpu'
        /\ ReadersExact' /\ Registers' /\ Saves' /\ IdleHome' /\ NoDoubleRun' /\ Launches'
    BY DEF FlagTypes, Writers, Core0, AccessOwner, KeepsCpu, ReadersExact, Registers, Saves,
           IdleHome, NoDoubleRun, Launches, TaskPoints, CpuPoints, CpuWrites, TaskWrites,
           TickPoints, SoftPoints, SavedPoints, MaskedPoints, ReadPoints, ToSwitch, Launching
  <1>2. OnePlace' /\ Awaiting'
    <2>1. /\ BeingLaunched(u)' /\ u \notin launched /\ launched' = launched \cup {u}
          /\ launched \subseteq Tasks
      BY DEF BeingLaunched
    <2>2. ASSUME NEW v \in Tasks, v # u PROVE BeingLaunched(v)' = BeingLaunched(v)
      BY <2>2 DEF BeingLaunched
    <2>3. UNCHANGED <<queued, blocked, awaiting, next>>
      OBVIOUS
    <2> HIDE DEF task_run, PlainTypes
    <2>4. Managed' = Managed
      BY <2>1, <2>2 DEF Managed
    <2> QED BY <2>3, <2>4, PlacesMoved
  <1> HIDE DEF task_run, PlainTypes
  <1> QED BY <1>1, <1>2 DEF SchedInv

LEMMA UnblockTryKeeps ==
    ASSUME SchedInv, NEW c \in Cpus, NEW t \in Tasks, NEW u \in Tasks, unblock_try(c, t, u)
    PROVE  SchedInv'
  <1> USE CpuAssumption, TaskAssumption, CoreZero DEF SchedInv, PlainTypes, unblock_try, queues,
      slots, lockvars, context, handler, Runs, At
  <1>1. PlainTypes' /\ FlagTypes' /\ Writers' /\ Core0' /\ AccessOwner' /\ KeepsCpu'
    BY DEF FlagTypes, Writers, Core0, AccessOwner, KeepsCpu, TaskPoints, CpuPoints, CpuWrites,
           TaskWrites, TickPoints, SoftPoints, SavedPoints, MaskedPoints
  <1>2. ReadersExact'
    BY DEF ReadersExact, ReadPoints
  <1>3. Registers' /\ Saves' /\ IdleHome' /\ NoDoubleRun'
    BY DEF Registers, Saves, IdleHome, NoDoubleRun, ToSwitch
  <1>4. Launches'
    BY DEF Launches, Launching
  <1>5. OnePlace' /\ Awaiting'
    <2>1. Passes(t)
      BY DEF Passes, LaunchPoints
    <2>2. UNCHANGED <<queued, blocked, awaiting, next, launched>> /\ launched \subseteq Tasks
      OBVIOUS
    <2> HIDE DEF unblock_try, PlainTypes
    <2> QED BY <2>1, <2>2, PassesSame, PlacesKept
  <1> HIDE DEF unblock_try, PlainTypes
  <1> QED BY <1>1, <1>2, <1>3, <1>4, <1>5 DEF SchedInv

-----------------------------------------------------------------------------
(* Steps of handlers, one lemma for each action *)

LEMMA TimerTickKeeps ==
    ASSUME SchedInv, timer_tick
    PROVE  SchedInv'
  <1> USE CpuAssumption, TaskAssumption, CoreZero DEF SchedInv, PlainTypes, timer_tick, queues,
      slots, context, task, wake, Goto, Free
  <1>1. /\ PlainTypes' /\ FlagTypes' /\ Writers' /\ Core0' /\ AccessOwner' /\ KeepsCpu'
        /\ Registers' /\ Saves' /\ IdleHome' /\ NoDoubleRun' /\ Launches'
    BY DEF FlagTypes, Writers, Core0, AccessOwner, KeepsCpu, Registers, Saves, IdleHome,
           NoDoubleRun, Launches, TaskPoints, CpuPoints, CpuWrites, TaskWrites, TickPoints, SoftPoints, SavedPoints,
           MaskedPoints, ToSwitch, Launching
  <1>2. ReadersExact'
    <2>1. /\ UNCHANGED <<readers, ipi>> /\ \A d \in Cpus \ {0} : pc'[d] = pc[d]
          /\ pc[0] \in ReadPoints <=> pc'[0] \in ReadPoints
      BY DEF ReadPoints
    <2> QED BY <2>1, ReadersKept
  <1>3. OnePlace' /\ Awaiting'
    <2>1. UNCHANGED <<queued, blocked, awaiting, next, launched, task>> /\ launched \subseteq Tasks
      OBVIOUS
    <2> HIDE DEF timer_tick, PlainTypes, task
    <2> QED BY <2>1, IdleSame, PlacesKept
  <1> HIDE DEF timer_tick, PlainTypes
  <1> QED BY <1>1, <1>2, <1>3 DEF SchedInv

LEMMA TickDirtyKeeps ==
    ASSUME SchedInv, tick_dirty
    PROVE  SchedInv'
  <1> USE CpuAssumption, TaskAssumption, CoreZero DEF SchedInv, PlainTypes, tick_dirty, queues,
      slots, lockvars, context, task, Goto
  <1>1. PlainTypes' /\ Writers' /\ Core0'
    BY DEF Writers, Core0, Listed, TaskPoints, CpuPoints, CpuWrites, TaskWrites, TickPoints, SoftPoints, SavedPoints
  <1>2. AccessOwner' /\ KeepsCpu'
    BY DEF AccessOwner, KeepsCpu, MaskedPoints
  <1>3. Registers' /\ IdleHome' /\ NoDoubleRun' /\ Launches'
    BY DEF Registers, IdleHome, NoDoubleRun, Launches, ToSwitch, Launching, SoftPoints, SavedPoints
  <1>4. Saves'
    BY DEF Writers, Core0, Saves, CpuWrites, TaskWrites, TickPoints, SoftPoints, SavedPoints
  <1>5. FlagTypes'
    <2>1. FlagTypes /\ dirty' = FALSE /\ UNCHANGED <<mutex, awaitSave, savedMask, masked>>
      OBVIOUS
    <2> HIDE DEF tick_dirty, SchedInv, PlainTypes
    <2> QED BY <2>1 DEF FlagTypes
  <1>6. ReadersExact'
    <2>1. /\ UNCHANGED <<readers, ipi>> /\ \A d \in Cpus \ {0} : pc'[d] = pc[d]
          /\ pc[0] \in ReadPoints <=> pc'[0] \in ReadPoints
      BY DEF ReadPoints
    <2> QED BY <2>1, ReadersKept
  <1>7. OnePlace' /\ Awaiting'
    <2>1. UNCHANGED <<queued, blocked, awaiting, next, launched, task>> /\ launched \subseteq Tasks
      OBVIOUS
    <2> HIDE DEF tick_dirty, PlainTypes, task
    <2> QED BY <2>1, IdleSame, PlacesKept
  <1> HIDE DEF tick_dirty, PlainTypes
  <1> QED BY <1>1, <1>2, <1>3, <1>4, <1>5, <1>6, <1>7 DEF SchedInv

\* The steps of resolve_blocked_tasks_scheduler: what they leave alone
ResolveFrame(c) ==
    /\ \/ Goto(c, "resolve", "reset") \/ Goto(c, "soft_resolve", "soft_reset")
       \/ Goto(c, "reset", "readd") \/ Goto(c, "soft_reset", "soft_readd")
       \/ Goto(c, "readd", "resolve") \/ Goto(c, "soft_readd", "soft_resolve")
       \/ Goto(c, "resolve", "requeue") \/ Goto(c, "soft_resolve", "soft_pick")
       \/ pc[c] \in {"resolve", "soft_resolve"} /\ UNCHANGED pc
    /\ queued' \in [Tasks -> Nat] /\ blocked' \in [Tasks -> Nat] /\ todo' \subseteq todo
    /\ \A t \in Tasks : queued'[t] + blocked'[t] = queued[t] + blocked[t]
    /\ mutex' \in [Tasks -> BOOLEAN] /\ sel' \in [Cpus -> AllTasks \cup {NoTask}]
    /\ \A d \in Cpus \ {c} : sel'[d] = sel[d]
    /\ UNCHANGED <<awaiting, launched, slots, lockvars, awaitSave, savedMask, live, kick, ipi,
                   masked, task, dirty>>

LEMMA ResolveStepFrame ==
    ASSUME SchedInv, Resolving, NEW c \in Cpus,
           \/ \E t \in Tasks : resolve_test(c, t)
           \/ resolve_reset(c) \/ resolve_add(c) \/ resolve_done(c)
    PROVE  ResolveFrame(c)
  <1> USE DEF queues, context, wake
  <1>1. /\ queued \in [Tasks -> Nat] /\ blocked \in [Tasks -> Nat] /\ todo \subseteq Tasks
        /\ sel \in [Cpus -> AllTasks \cup {NoTask}] /\ mutex \in [Tasks -> BOOLEAN]
    BY DEF SchedInv, PlainTypes, FlagTypes
  <1>2. ASSUME NEW t \in Tasks, resolve_test(c, t) PROVE ResolveFrame(c)
    <2>1. t \in AllTasks
      BY DEF AllTasks
    <2> QED BY <1>1, <1>2, <2>1 DEF resolve_test, ResolveFrame
  <1>3. CASE resolve_reset(c)
    <2>1. mutex' \in [Tasks -> BOOLEAN]
      BY <1>1, <1>3, BooleanFunctions DEF resolve_reset
    <2> QED BY <1>1, <1>3, <2>1 DEF resolve_reset, ResolveFrame
  <1>4. CASE resolve_add(c)
    <2>1. sel[c] \in Tasks /\ blocked[sel[c]] > 0
      BY <1>1, <1>4 DEF resolve_add, Goto, Resolving, ResolvePoints
    <2>2. /\ queued' \in [Tasks -> Nat] /\ blocked' \in [Tasks -> Nat] /\ todo' \subseteq todo
          /\ \A t \in Tasks : queued'[t] + blocked'[t] = queued[t] + blocked[t]
      <3>1. CASE mutex[sel[c]]
        BY <1>1, <1>4, <3>1 DEF resolve_add
      <3>2. CASE ~ mutex[sel[c]]
        <4>1. /\ queued' = [queued EXCEPT ![sel[c]] = @ + 1]
              /\ blocked' = [blocked EXCEPT ![sel[c]] = @ - 1] /\ todo' = todo \ {sel[c]}
          BY <1>4, <3>2 DEF resolve_add
        <4> QED BY <1>1, <2>1, <4>1
      <3> QED BY <3>1, <3>2
    <2> QED BY <1>1, <1>4, <2>2 DEF resolve_add, ResolveFrame
  <1>5. CASE resolve_done(c)
    BY <1>1, <1>5 DEF resolve_done, ResolveFrame
  <1> QED BY <1>2, <1>3, <1>4, <1>5

LEMMA ResolveKeeps ==
    ASSUME SchedInv, NEW c \in Cpus, ResolveFrame(c)
    PROVE  SchedInv'
  <1> USE CpuAssumption, TaskAssumption, CoreZero DEF SchedInv, PlainTypes, ResolveFrame, slots,
      lockvars, task, Goto
  <1>0. /\ pc' \in [Cpus -> CpuPoints] /\ \A d \in Cpus \ {c} : pc'[d] = pc[d]
        /\ pc[c] \in TickPoints \/ pc[c] \in SoftPoints
        /\ pc[c] \in TickPoints => pc'[c] \in TickPoints \ {"downgrade"}
        /\ pc[c] \in SoftPoints => pc'[c] \in SoftPoints
        /\ pc[c] \notin {"downgrade", "run", "kick", "save", "select", "spin", "soft"}
    BY DEF CpuPoints, TickPoints, SoftPoints
  <1>1. AccessOwner' /\ IdleHome' /\ NoDoubleRun' /\ Launches'
    BY DEF AccessOwner, IdleHome, NoDoubleRun, Launches, Launching
  <1>2. FlagTypes'
    <2>1. FlagTypes /\ mutex' \in [Tasks -> BOOLEAN] /\ UNCHANGED <<dirty, awaitSave, savedMask, masked>>
      OBVIOUS
    <2> HIDE DEF SchedInv, PlainTypes, ResolveFrame
    <2> QED BY <2>1 DEF FlagTypes
  <1>3. PlainTypes'
    <2>1. UNCHANGED <<awaiting, launched, slots, readers, access, live, kick, ipi, task>>
          /\ queued' \in [Tasks -> Nat] /\ blocked' \in [Tasks -> Nat] /\ todo' \subseteq todo
          /\ sel' \in [Cpus -> AllTasks \cup {NoTask}]
      OBVIOUS
    <2> HIDE DEF ResolveFrame
    <2> QED BY <1>0, <2>1
  <1>4. Writers' /\ Core0' /\ KeepsCpu' /\ Registers' /\ Saves'
    <2>1. /\ Writers /\ Core0 /\ KeepsCpu /\ Registers /\ Saves
          /\ UNCHANGED <<slots, lockvars, awaitSave, live, kick, ipi, masked, task>>
          /\ \A d \in Cpus \ {c} : sel'[d] = sel[d]
      OBVIOUS
    <2> HIDE DEF SchedInv, PlainTypes, ResolveFrame, Goto
    <2>2. \A d \in Cpus : CpuWrites(d)' <=> CpuWrites(d)
      BY <1>0 DEF CpuWrites
    <2>3. \A t \in Tasks : TaskWrites(t)' <=> TaskWrites(t)
      BY <2>1 DEF TaskWrites
    <2>4. Writers'
      BY <2>1, <2>2, <2>3 DEF Writers
    <2>5. Core0'
      BY <1>0, <2>1 DEF Core0, TickPoints, SoftPoints
    <2>6. KeepsCpu'
      BY <1>0, <2>1 DEF KeepsCpu, TickPoints, SoftPoints
    <2>7. /\ pc[c] \in SavedPoints <=> pc'[c] \in SavedPoints
          /\ pc'[c] \notin {"spin", "kick", "downgrade", "save", "select"}
      BY <1>0 DEF TickPoints, SoftPoints, SavedPoints
    <2>8. ASSUME NEW d \in Cpus PROVE ToSwitch(d)' <=> ToSwitch(d)
      BY <1>0, <2>1, <2>7 DEF ToSwitch, TickPoints, SoftPoints
    <2>9. Registers'
      BY <1>0, <2>1, <2>7, <2>8 DEF Registers
    <2>10. pc'[0] # "downgrade" => pc[0] # "downgrade"
      BY <1>0
    <2>11. Saves'
      BY <2>1, <2>10 DEF Saves
    <2> QED BY <2>4, <2>5, <2>6, <2>9, <2>11
  <1>5. ReadersExact'
    <2>1. /\ UNCHANGED <<readers, ipi>> /\ \A d \in Cpus \ {c} : pc'[d] = pc[d]
          /\ pc[c] \in ReadPoints <=> pc'[c] \in ReadPoints
      BY DEF ReadPoints
    <2> QED BY <2>1, ReadersKept
  <1>6. OnePlace' /\ Awaiting'
    <2>1. \A x \in Tasks : /\ queued'[x] + blocked'[x] = queued[x] + blocked[x]
                           /\ Occurs(next', x) = Occurs(next, x)
      OBVIOUS
    <2>2. next' = next /\ awaiting' = awaiting /\ UNCHANGED <<launched, task>>
          /\ launched \subseteq Tasks /\ OnePlace /\ Awaiting
      OBVIOUS
    <2> HIDE DEF SchedInv, ResolveFrame, PlainTypes, task
    <2> QED BY <2>1, <2>2, ManagedSame, PlacesMoved
  <1> HIDE DEF ResolveFrame, PlainTypes
  <1> QED BY <1>1, <1>2, <1>3, <1>4, <1>5, <1>6 DEF SchedInv

LEMMA TickAssignKeeps ==
    ASSUME SchedInv, tick_assign
    PROVE  SchedInv'
  <1> USE CpuAssumption, TaskAssumption, CoreZero DEF SchedInv, PlainTypes, tick_assign, lockvars,
      context, task, wake, Goto, Is_idle
  <1>1. /\ FlagTypes' /\ Writers' /\ Core0' /\ AccessOwner' /\ KeepsCpu' /\ Saves'
        /\ NoDoubleRun' /\ Launches'
    BY DEF FlagTypes, Writers, Core0, AccessOwner, KeepsCpu, Saves, NoDoubleRun, Launches,
           CpuWrites, TaskWrites, TickPoints, SoftPoints, SavedPoints, MaskedPoints, Launching
  <1>2. PlainTypes'
    <2>1. pc' \in [Cpus -> CpuPoints]
      BY DEF CpuPoints, TickPoints
    <2>2. UNCHANGED <<launched, todo, running, current, readers, access, live, sel, kick, ipi, task>>
      OBVIOUS
    <2>3. Reassigned
      BY AssignEffect
    <2> HIDE DEF tick_assign
    <2> QED BY <2>1, <2>2, <2>3 DEF Reassigned
  <1>3. ReadersExact'
    <2>1. /\ UNCHANGED <<readers, ipi>> /\ \A d \in Cpus \ {0} : pc'[d] = pc[d]
          /\ pc[0] \in ReadPoints <=> pc'[0] \in ReadPoints
      BY DEF ReadPoints
    <2> QED BY <2>1, ReadersKept
  <1>4. Registers'
    <2>1. CpuWrites(0)
      BY DEF CpuWrites, TickPoints, SoftPoints, SavedPoints
    <2>2. /\ \A d \in Cpus : pc'[d] # "spin" /\ (pc'[d] \in SavedPoints
                                                  <=> pc[d] \in SavedPoints)
          /\ pc'[0] = "downgrade" /\ UNCHANGED <<running, current, live>>
      BY <2>1, TickAlone DEF ReadPoints, CpuWrites, SavedPoints, TickPoints, SoftPoints
    <2>3. Registers
      OBVIOUS
    <2> HIDE DEF tick_assign, SchedInv, PlainTypes
    <2> QED BY <2>2, <2>3 DEF Registers, ToSwitch
  <1>5. IdleHome'
    <2> HIDE DEF tick_assign, SchedInv, PlainTypes
    <2> QED BY AssignEffect DEF Reassigned
  <1>6. OnePlace' /\ Awaiting'
    <2>1. UNCHANGED <<launched, task>> /\ launched \subseteq Tasks
      OBVIOUS
    <2>2. Reassigned /\ OnePlace /\ Awaiting
      BY AssignEffect
    <2> HIDE DEF tick_assign, SchedInv, PlainTypes, task
    <2> QED BY <2>1, <2>2, ManagedSame, PlacesMoved DEF Reassigned
  <1> HIDE DEF tick_assign, PlainTypes
  <1> QED BY <1>1, <1>2, <1>3, <1>4, <1>5, <1>6 DEF SchedInv

LEMMA TickDowngradeKeeps ==
    ASSUME SchedInv, tick_downgrade
    PROVE  SchedInv'
  <1> USE CpuAssumption, TaskAssumption, CoreZero DEF SchedInv, PlainTypes, tick_downgrade,
      queues, slots, task, wake, Goto
  <1>1. /\ PlainTypes' /\ FlagTypes' /\ Writers' /\ AccessOwner' /\ KeepsCpu' /\ Registers'
        /\ IdleHome' /\ NoDoubleRun' /\ Launches'
    BY DEF FlagTypes, Writers, AccessOwner, KeepsCpu, Registers, IdleHome, NoDoubleRun, Launches,
           TaskPoints, CpuPoints, CpuWrites, TaskWrites, TickPoints, SoftPoints, SavedPoints, MaskedPoints, ToSwitch,
           Launching
  <1>2. Core0'
    <2>1. ipi = {} /\ kick' = 1 /\ 1 <= CpuCount
      BY TickAlone DEF CpuWrites, TickPoints, SoftPoints, SavedPoints
    <2> QED BY <2>1 DEF Core0
  <1>3. ReadersExact'
    <2>1. \A d \in Cpus \ {0} : pc'[d] = pc[d]
      OBVIOUS
    <2>2. pc[0] \notin ReadPoints /\ pc'[0] \in ReadPoints /\ readers' = readers + 1 /\ ipi' = ipi
      BY DEF ReadPoints
    <2>3. Cardinality(ipi) \in Nat
      BY CpusFinite, FS_Subset, FS_CardinalityType
    <2>4. ReadersExact
      OBVIOUS
    <2> HIDE DEF tick_downgrade, SchedInv, PlainTypes
    <2>5. Cardinality(Reading) \in Nat /\ Cardinality(Reading') = Cardinality(Reading) + 1
      BY <2>1, <2>2, ReadingMoves DEF One
    <2> QED BY <2>2, <2>3, <2>4, <2>5, ReadersSplit
  <1>4. Saves'
    <2>1. CpuWrites(0)
      BY DEF CpuWrites, TickPoints, SoftPoints, SavedPoints
    <2>2. ASSUME NEW d \in Cpus PROVE live[d] = current[d]
      <3>1. pc[d] \notin SavedPoints
        BY <2>1, TickAlone DEF ReadPoints, CpuWrites, SavedPoints, TickPoints, SoftPoints
      <3> QED BY <3>1, Loaded
    <2>3. ASSUME NEW v \in AllTasks, awaitSave'[v] PROVE \E d \in Cpus : live'[d] = v
      BY <2>2, <2>3 DEF Saves
    <2>4. ASSUME NEW d \in Cpus PROVE awaitSave'[current'[d]]
      BY <2>2
    <2> QED BY <2>3, <2>4 DEF Saves
  <1>5. OnePlace' /\ Awaiting'
    <2>1. UNCHANGED <<queued, blocked, awaiting, next, launched, task>> /\ launched \subseteq Tasks
      OBVIOUS
    <2> HIDE DEF tick_downgrade, PlainTypes, task
    <2> QED BY <2>1, IdleSame, PlacesKept
  <1> HIDE DEF tick_downgrade, PlainTypes
  <1> QED BY <1>1, <1>2, <1>3, <1>4, <1>5 DEF SchedInv

LEMMA ScheduleOtherCpuKeeps ==
    ASSUME SchedInv, schedule_other_cpu
    PROVE  SchedInv'
  <1> USE CpuAssumption, TaskAssumption, CoreZero DEF SchedInv, PlainTypes, schedule_other_cpu,
      queues, slots, context, task, wake
  <1>1. /\ FlagTypes' /\ AccessOwner' /\ KeepsCpu' /\ Registers' /\ Saves' /\ IdleHome'
        /\ NoDoubleRun' /\ Launches'
    BY DEF FlagTypes, AccessOwner, KeepsCpu, Registers, Saves, IdleHome, NoDoubleRun, Launches,
           MaskedPoints, ToSwitch, Launching
  <1>2. PlainTypes'
    <2>1. readers \in Nat /\ ipi \subseteq Cpus
      OBVIOUS
    <2>2. UNCHANGED <<queues, slots, access, pc, live, sel, task>>
      OBVIOUS
    <2>3. readers' = readers \/ readers' = readers + 1
      OBVIOUS
    <2>4. readers' \in Nat
      <3> HIDE DEF schedule_other_cpu, PlainTypes, SchedInv
      <3> QED BY <2>1, <2>3
    <2>5. kick' \in 1 .. CpuCount + 1 /\ ipi' \subseteq Cpus
      <3> HIDE DEF schedule_other_cpu, PlainTypes, SchedInv
      <3> QED BY <2>1, NextKick
    <2> HIDE DEF schedule_other_cpu
    <2> QED BY <2>2, <2>4, <2>5
  <1>3. Writers'
    <2>1. readers > 0
      BY NoReaders DEF ReadPoints
    <2>2. writers = 0
      BY <2>1 DEF Writers
    <2> QED BY <2>2 DEF Writers, CpuWrites, TaskWrites
  <1>4. Core0'
    <2>1. pc[0] = "kick" /\ Core0 /\ pc' = pc
      OBVIOUS
    <2> HIDE DEF schedule_other_cpu, SchedInv, PlainTypes
    <2> QED BY <2>1, NextKick DEF Core0
  <1>5. ReadersExact'
    <2>1. Reading' = Reading /\ ReadersExact
      BY DEF Reading
    <2>2. Cardinality(Reading) \in Nat
      BY CpusFinite, FS_Subset, FS_CardinalityType DEF Reading
    <2>3. readers = Cardinality(ipi) + Cardinality(Reading)
      BY <2>1, ReadersSplit
    <2>4. readers' = Cardinality(ipi') + Cardinality(Reading')
      <3> HIDE DEF schedule_other_cpu, SchedInv, PlainTypes
      <3> QED BY <2>1, <2>2, <2>3, NextKick
    <2> QED BY <2>4, ReadersSplit
  <1>6. OnePlace' /\ Awaiting'
    <2>1. UNCHANGED <<queued, blocked, awaiting, next, launched, task>> /\ launched \subseteq Tasks
      OBVIOUS
    <2> HIDE DEF schedule_other_cpu, PlainTypes, task
    <2> QED BY <2>1, IdleSame, PlacesKept
  <1> HIDE DEF schedule_other_cpu, PlainTypes
  <1> QED BY <1>1, <1>2, <1>3, <1>4, <1>5, <1>6 DEF SchedInv

LEMMA ScheduleOtherCpusDoneKeeps ==
    ASSUME SchedInv, schedule_other_cpus_done
    PROVE  SchedInv'
  <1> USE CpuAssumption, TaskAssumption, CoreZero DEF SchedInv, PlainTypes,
      schedule_other_cpus_done, queues, slots, lockvars, context, task, wake, Goto
  <1>1. /\ PlainTypes' /\ FlagTypes' /\ Writers' /\ Core0' /\ AccessOwner' /\ KeepsCpu'
        /\ Registers' /\ IdleHome' /\ NoDoubleRun' /\ Launches'
    BY DEF FlagTypes, Writers, Core0, AccessOwner, KeepsCpu, Registers, IdleHome, NoDoubleRun,
           Launches, TaskPoints, CpuPoints, CpuWrites, TaskWrites, TickPoints, SoftPoints, SavedPoints, MaskedPoints,
           ToSwitch, Launching
  <1>2. Saves'
    BY DEF Writers, Core0, Saves, CpuWrites, TaskWrites, TickPoints, SoftPoints, SavedPoints
  <1>3. ReadersExact'
    <2>1. /\ UNCHANGED <<readers, ipi>> /\ \A d \in Cpus \ {0} : pc'[d] = pc[d]
          /\ pc[0] \in ReadPoints <=> pc'[0] \in ReadPoints
      BY DEF ReadPoints
    <2> QED BY <2>1, ReadersKept
  <1>4. OnePlace' /\ Awaiting'
    <2>1. UNCHANGED <<queued, blocked, awaiting, next, launched, task>> /\ launched \subseteq Tasks
      OBVIOUS
    <2> HIDE DEF schedule_other_cpus_done, PlainTypes, task
    <2> QED BY <2>1, IdleSame, PlacesKept
  <1> HIDE DEF schedule_other_cpus_done, PlainTypes
  <1> QED BY <1>1, <1>2, <1>3, <1>4 DEF SchedInv

LEMMA SignalReleaseKeeps ==
    ASSUME SchedInv, signal_release
    PROVE  SchedInv'
  <1> USE CpuAssumption, TaskAssumption, CoreZero DEF SchedInv, PlainTypes, signal_release,
      queues, slots, lockvars, context, task, Goto
  <1>1. /\ PlainTypes' /\ Writers' /\ Core0' /\ AccessOwner' /\ KeepsCpu' /\ Registers'
        /\ IdleHome' /\ NoDoubleRun' /\ Launches'
    BY DEF Writers, Core0, AccessOwner, KeepsCpu, Registers, IdleHome, NoDoubleRun, Launches,
           TaskPoints, CpuPoints, CpuWrites, TaskWrites, TickPoints, SoftPoints, SavedPoints, MaskedPoints, ToSwitch,
           Launching
  <1>2. Saves'
    BY DEF Writers, Core0, Saves, CpuWrites, TaskWrites, TickPoints, SoftPoints, SavedPoints
  <1>3. FlagTypes'
    <2>1. FlagTypes /\ mutex' = [mutex EXCEPT ![sel[0]] = FALSE]
      OBVIOUS
    <2>2. UNCHANGED <<dirty, awaitSave, savedMask, masked>>
      OBVIOUS
    <2> HIDE DEF signal_release, SchedInv, PlainTypes
    <2>3. mutex' \in [Tasks -> BOOLEAN]
      BY <2>1, BooleanFunctions DEF FlagTypes
    <2> QED BY <2>1, <2>2, <2>3 DEF FlagTypes
  <1>4. ReadersExact'
    <2>1. /\ UNCHANGED <<readers, ipi>> /\ \A d \in Cpus \ {0} : pc'[d] = pc[d]
          /\ pc[0] \in ReadPoints <=> pc'[0] \in ReadPoints
      BY DEF ReadPoints
    <2> QED BY <2>1, ReadersKept
  <1>5. OnePlace' /\ Awaiting'
    <2>1. UNCHANGED <<queued, blocked, awaiting, next, launched, task>> /\ launched \subseteq Tasks
      OBVIOUS
    <2> HIDE DEF signal_release, PlainTypes, task
    <2> QED BY <2>1, IdleSame, PlacesKept
  <1> HIDE DEF signal_release, PlainTypes
  <1> QED BY <1>1, <1>2, <1>3, <1>4, <1>5 DEF SchedInv

LEMMA SignalDirtyKeeps ==
    ASSUME SchedInv, signal_dirty
    PROVE  SchedInv'
  <1> USE CpuAssumption, TaskAssumption, CoreZero DEF SchedInv, PlainTypes, signal_dirty, queues,
      slots, lockvars, task, Goto
  <1>1. /\ PlainTypes' /\ FlagTypes' /\ Writers' /\ Core0' /\ AccessOwner' /\ KeepsCpu'
        /\ Registers' /\ IdleHome' /\ NoDoubleRun' /\ Launches'
    BY DEF FlagTypes, Writers, Core0, AccessOwner, KeepsCpu, Registers, IdleHome, NoDoubleRun,
           Launches, TaskPoints, CpuPoints, CpuWrites, TaskWrites, TickPoints, SoftPoints, SavedPoints, MaskedPoints,
           ToSwitch, Launching
  <1>2. Saves'
    BY DEF Writers, Core0, Saves, CpuWrites, TaskWrites, TickPoints, SoftPoints, SavedPoints
  <1>3. ReadersExact'
    <2>1. /\ UNCHANGED <<readers, ipi>> /\ \A d \in Cpus \ {0} : pc'[d] = pc[d]
          /\ pc[0] \in ReadPoints <=> pc'[0] \in ReadPoints
      BY DEF ReadPoints
    <2> QED BY <2>1, ReadersKept
  <1>4. OnePlace' /\ Awaiting'
    <2>1. UNCHANGED <<queued, blocked, awaiting, next, launched, task>> /\ launched \subseteq Tasks
      OBVIOUS
    <2> HIDE DEF signal_dirty, PlainTypes, task
    <2> QED BY <2>1, IdleSame, PlacesKept
  <1> HIDE DEF signal_dirty, PlainTypes
  <1> QED BY <1>1, <1>2, <1>3, <1>4 DEF SchedInv

LEMMA Interrupt100Keeps ==
    ASSUME SchedInv, NEW c \in Cpus, interrupt100(c)
    PROVE  SchedInv'
  <1> USE CpuAssumption, TaskAssumption, CoreZero DEF SchedInv, PlainTypes, interrupt100, queues,
      slots, lockvars, context, task, wake, Goto
  <1>1. /\ PlainTypes' /\ FlagTypes' /\ Writers' /\ Core0' /\ AccessOwner' /\ KeepsCpu'
        /\ Registers' /\ IdleHome' /\ NoDoubleRun' /\ Launches'
    BY DEF FlagTypes, Writers, Core0, AccessOwner, KeepsCpu, Registers, IdleHome, NoDoubleRun,
           Launches, TaskPoints, CpuPoints, CpuWrites, TaskWrites, TickPoints, SoftPoints, SavedPoints, MaskedPoints,
           ToSwitch, Launching
  <1>2. Saves'
    BY DEF Writers, Core0, Saves, CpuWrites, TaskWrites, TickPoints, SoftPoints, SavedPoints
  <1>3. ReadersExact'
    <2>1. /\ \A d \in Cpus \ {c} : pc'[d] = pc[d]
          /\ pc[c] \notin ReadPoints /\ pc'[c] \in ReadPoints /\ readers' = readers
      BY DEF ReadPoints
    <2>2. Cardinality(ipi) \in Nat /\ Cardinality(ipi') = Cardinality(ipi) - 1
      BY CpusFinite, FS_Subset, FS_CardinalityType, FS_RemoveElement
    <2>3. ReadersExact
      OBVIOUS
    <2> HIDE DEF interrupt100, SchedInv, PlainTypes
    <2>4. Cardinality(Reading) \in Nat /\ Cardinality(Reading') = Cardinality(Reading) + 1
      BY <2>1, ReadingMoves DEF One
    <2> QED BY <2>1, <2>2, <2>3, <2>4, ReadersSplit
  <1>4. OnePlace' /\ Awaiting'
    <2>1. UNCHANGED <<queued, blocked, awaiting, next, launched, task>> /\ launched \subseteq Tasks
      OBVIOUS
    <2> HIDE DEF interrupt100, PlainTypes, task
    <2> QED BY <2>1, IdleSame, PlacesKept
  <1> HIDE DEF interrupt100, PlainTypes
  <1> QED BY <1>1, <1>2, <1>3, <1>4 DEF SchedInv

LEMMA SaveInKeeps ==
    ASSUME SchedInv, NEW c \in Cpus, save_in(c)
    PROVE  SchedInv'
  <1> USE CpuAssumption, TaskAssumption, CoreZero DEF SchedInv, PlainTypes, save_in, queues,
      slots, lockvars, task, wake, Goto
  <1>1. /\ PlainTypes' /\ FlagTypes' /\ Writers' /\ Core0' /\ AccessOwner' /\ KeepsCpu'
        /\ Registers' /\ IdleHome' /\ NoDoubleRun' /\ Launches'
    BY DEF FlagTypes, Writers, Core0, AccessOwner, KeepsCpu, Registers, IdleHome, NoDoubleRun,
           Launches, TaskPoints, CpuPoints, CpuWrites, TaskWrites, TickPoints, SoftPoints, SavedPoints, MaskedPoints,
           ToSwitch, Launching
  <1>2. ReadersExact'
    <2>1. /\ UNCHANGED <<readers, ipi>> /\ \A d \in Cpus \ {c} : pc'[d] = pc[d]
          /\ pc[c] \in ReadPoints <=> pc'[c] \in ReadPoints
      BY DEF ReadPoints
    <2> QED BY <2>1, ReadersKept
  <1>3. Saves'
    <2>1. live[c] = current[c] /\ live[c] # NoTask
      BY Loaded DEF SavedPoints, SoftPoints
    <2>2. /\ live' = [live EXCEPT ![c] = NoTask] /\ awaitSave' = [awaitSave EXCEPT ![live[c]] = FALSE]
          /\ UNCHANGED <<next, current>>
          /\ pc'[0] # "downgrade" => pc[0] # "downgrade"
      BY <2>1
    <2> HIDE DEF save_in, SchedInv, PlainTypes
    <2> QED BY <2>1, <2>2, SaveKeeps
  <1>4. OnePlace' /\ Awaiting'
    <2>1. UNCHANGED <<queued, blocked, awaiting, next, launched, task>> /\ launched \subseteq Tasks
      OBVIOUS
    <2> HIDE DEF save_in, PlainTypes, task
    <2> QED BY <2>1, IdleSame, PlacesKept
  <1> HIDE DEF save_in, PlainTypes
  <1> QED BY <1>1, <1>2, <1>3, <1>4 DEF SchedInv

LEMMA NextTaskSelectKeeps ==
    ASSUME SchedInv, NEW c \in Cpus, next_task_select(c)
    PROVE  SchedInv'
  <1> USE CpuAssumption, TaskAssumption, CoreZero DEF SchedInv, PlainTypes, next_task_select,
      queues, slots, lockvars, task, wake, Goto
  <1>1. /\ PlainTypes' /\ FlagTypes' /\ Writers' /\ Core0' /\ AccessOwner' /\ KeepsCpu'
        /\ Registers' /\ Saves' /\ IdleHome' /\ NoDoubleRun' /\ Launches'
    BY DEF FlagTypes, Writers, Core0, AccessOwner, KeepsCpu, Registers, Saves, IdleHome,
           NoDoubleRun, Launches, TaskPoints, CpuPoints, CpuWrites, TaskWrites, TickPoints, SoftPoints, SavedPoints,
           MaskedPoints, ToSwitch, Launching
  <1>2. ReadersExact'
    <2>1. /\ UNCHANGED <<readers, ipi>> /\ \A d \in Cpus \ {c} : pc'[d] = pc[d]
          /\ pc[c] \in ReadPoints <=> pc'[c] \in ReadPoints
      BY DEF ReadPoints
    <2> QED BY <2>1, ReadersKept
  <1>3. OnePlace' /\ Awaiting'
    <2>1. UNCHANGED <<queued, blocked, awaiting, next, launched, task>> /\ launched \subseteq Tasks
      OBVIOUS
    <2> HIDE DEF next_task_select, PlainTypes, task
    <2> QED BY <2>1, IdleSame, PlacesKept
  <1> HIDE DEF next_task_select, PlainTypes
  <1> QED BY <1>1, <1>2, <1>3 DEF SchedInv

LEMMA LoadToKeeps ==
    ASSUME SchedInv, NEW c \in Cpus, load_to(c)
    PROVE  SchedInv'
  <1> USE CpuAssumption, TaskAssumption, CoreZero DEF SchedInv, PlainTypes, load_to, queues,
      lockvars, task, wake, Goto
  <1>1. PlainTypes' /\ FlagTypes' /\ Saves'
    BY DEF FlagTypes, Writers, Core0, Registers, Saves, TaskPoints, CpuPoints, CpuWrites,
           TaskWrites, TickPoints, SoftPoints, SavedPoints, ToSwitch
  <1>2. Writers' /\ Core0' /\ AccessOwner' /\ KeepsCpu' /\ Registers' /\ IdleHome' /\ Launches'
    BY DEF Writers, Core0, AccessOwner, KeepsCpu, Registers, IdleHome, Launches, CpuWrites,
           TaskWrites, TickPoints, SoftPoints, SavedPoints, MaskedPoints, ToSwitch, Launching
  <1>3. ReadersExact'
    <2>1. /\ UNCHANGED <<readers, ipi>> /\ \A d \in Cpus \ {c} : pc'[d] = pc[d]
          /\ pc[c] \in ReadPoints <=> pc'[c] \in ReadPoints
      BY DEF ReadPoints
    <2> QED BY <2>1, ReadersKept
  <1>4. NoDoubleRun'
    <2>1. sel[c] = next[c] /\ live[c] = NoTask
      BY DEF Registers, SoftPoints, SavedPoints
    <2>2. ASSUME NEW d \in Cpus, d # c PROVE live[d] # sel[c]
      <3> SUFFICES ASSUME live[d] = sel[c] PROVE FALSE
        OBVIOUS
      <3>1. live[d] = current[d] /\ live[d] # NoTask /\ sel[c] \in AllTasks
        BY <2>1, Loaded
      <3>2. next[d] # current[d]
        BY <2>1, <2>2, <3>1, InOneSlot
      <3>3. pc[0] # "downgrade"
        BY TickAlone DEF CpuWrites, TickPoints, SoftPoints, SavedPoints, ReadPoints
      <3> QED BY <3>1, <3>2, <3>3 DEF Saves
    <2>3. NoDoubleRun /\ live' = [live EXCEPT ![c] = sel[c]] /\ live \in [Cpus -> AllTasks \cup {NoTask}]
      OBVIOUS
    <2> HIDE DEF load_to, SchedInv, PlainTypes
    <2> QED BY <2>2, <2>3 DEF NoDoubleRun
  <1>5. OnePlace' /\ Awaiting'
    <2>1. UNCHANGED <<queued, blocked, awaiting, next, launched, task>> /\ launched \subseteq Tasks
      OBVIOUS
    <2> HIDE DEF load_to, PlainTypes, task
    <2> QED BY <2>1, IdleSame, PlacesKept
  <1> HIDE DEF load_to, PlainTypes
  <1> QED BY <1>1, <1>2, <1>3, <1>4, <1>5 DEF SchedInv

LEMMA ReadReleaseKeeps ==
    ASSUME SchedInv, NEW c \in Cpus, read_release(c)
    PROVE  SchedInv'
  <1> USE CpuAssumption, TaskAssumption, CoreZero DEF SchedInv, PlainTypes, read_release, queues,
      slots, task, wake, Goto
  <1>1. /\ FlagTypes' /\ Core0' /\ AccessOwner' /\ KeepsCpu' /\ Registers' /\ Saves'
        /\ IdleHome' /\ NoDoubleRun' /\ Launches'
    BY DEF FlagTypes, Core0, AccessOwner, KeepsCpu, Registers, Saves, IdleHome, NoDoubleRun,
           Launches, MaskedPoints, ToSwitch, Launching, SoftPoints, SavedPoints
  <1>2. PlainTypes'
    <2>1. readers \in Nat /\ readers # 0
      BY NoReaders DEF ReadPoints
    <2>2. readers' \in Nat
      BY <2>1
    <2>3. pc' \in [Cpus -> CpuPoints] /\ sel' \in [Cpus -> AllTasks \cup {NoTask}]
      BY DEF CpuPoints
    <2>4. UNCHANGED <<queues, slots, access, live, kick, ipi, task>>
      OBVIOUS
    <2> HIDE DEF read_release
    <2> QED BY <2>2, <2>3, <2>4
  <1>3. Writers'
    <2>1. readers > 0
      BY NoReaders DEF ReadPoints
    <2>2. writers = 0
      BY <2>1 DEF Writers
    <2> QED BY <2>2 DEF Writers, CpuWrites, TaskWrites, TickPoints, SoftPoints, SavedPoints
  <1>4. ReadersExact'
    <2>1. /\ \A d \in Cpus \ {c} : pc'[d] = pc[d]
          /\ pc[c] \in ReadPoints /\ pc'[c] \notin ReadPoints /\ readers' = readers - 1 /\ ipi' = ipi
      BY DEF ReadPoints
    <2>2. Cardinality(ipi) \in Nat
      BY CpusFinite, FS_Subset, FS_CardinalityType
    <2>3. ReadersExact
      OBVIOUS
    <2> HIDE DEF read_release, SchedInv, PlainTypes
    <2>4. Cardinality(Reading) \in Nat /\ Cardinality(Reading') = Cardinality(Reading) - 1
      BY <2>1, ReadingMoves DEF One
    <2> QED BY <2>1, <2>2, <2>3, <2>4, ReadersSplit
  <1>5. OnePlace' /\ Awaiting'
    <2>1. UNCHANGED <<queued, blocked, awaiting, next, launched, task>> /\ launched \subseteq Tasks
      OBVIOUS
    <2> HIDE DEF read_release, PlainTypes, task
    <2> QED BY <2>1, IdleSame, PlacesKept
  <1> HIDE DEF read_release, PlainTypes
  <1> QED BY <1>1, <1>2, <1>3, <1>4, <1>5 DEF SchedInv

\* The slot of CPU c changes between the save and the load of an int 101.
LEMMA SoftSlotKeeps ==
    ASSUME SchedInv, NEW c \in Cpus, Reassigned, NEW t \in AllTasks,
           next' = [next EXCEPT ![c] = t], todo' \subseteq Tasks,
           \/ Goto(c, "soft", "soft_resolve") \/ Goto(c, "soft_pick", "soft_load"),
           UNCHANGED <<launched, running, current, lockvars, context, kick, ipi, masked, task, wake>>
    PROVE  SchedInv'
  <1> USE CpuAssumption, TaskAssumption, CoreZero DEF SchedInv, PlainTypes, lockvars, context,
      task, wake, Goto
  <1>1. /\ pc[c] \in SoftPoints \cup {"soft"} /\ pc[c] \in SavedPoints
        /\ pc'[c] \in SoftPoints /\ pc'[c] \in SavedPoints
        /\ \A d \in Cpus \ {c} : pc'[d] = pc[d]
    BY DEF SoftPoints, SavedPoints
  <1>2. Writers' /\ Core0' /\ AccessOwner' /\ KeepsCpu' /\ Launches' /\ FlagTypes'
    BY DEF Writers, Core0, AccessOwner, KeepsCpu, Launches, FlagTypes, CpuWrites, TaskWrites,
           TickPoints, SoftPoints, MaskedPoints, Launching
  <1>3. PlainTypes'
    <2>1. pc' \in [Cpus -> CpuPoints]
      BY DEF CpuPoints, SoftPoints
    <2>2. UNCHANGED <<launched, running, current, readers, access, live, sel, kick, ipi, task>>
      OBVIOUS
    <2> QED BY <2>1, <2>2 DEF Reassigned
  <1>4. ReadersExact'
    <2>1. /\ UNCHANGED <<readers, ipi>> /\ \A d \in Cpus \ {c} : pc'[d] = pc[d]
          /\ pc[c] \in ReadPoints <=> pc'[c] \in ReadPoints
      BY DEF ReadPoints
    <2> QED BY <2>1, ReadersKept
  <1>5. /\ Registers /\ Saves /\ NoDoubleRun /\ UNCHANGED <<running, current, live, sel, awaitSave>>
        /\ next \in [Cpus -> AllTasks] /\ pc'[0] # "downgrade"
    BY <1>1, CoreZero, Settled DEF SoftPoints
  <1>6. /\ \A d \in Cpus \ {c} : next[d] = current[d] /\ live[d] = next[d] /\ pc[d] \notin SavedPoints
        /\ \A d \in Cpus : running[d] = current[d]
        /\ live[c] = NoTask
    BY <1>1, Settled
  <1>7. Registers' /\ Saves' /\ NoDoubleRun'
    <2> HIDE DEF SchedInv, PlainTypes, Goto, lockvars, context, task, wake
    <2>1. Registers'
      BY <1>1, <1>5, <1>6 DEF Registers, ToSwitch, SoftPoints, SavedPoints
    <2>2. Saves' /\ NoDoubleRun'
      BY <1>5, <1>6 DEF Saves, NoDoubleRun
    <2> QED BY <2>1, <2>2
  <1>8. OnePlace' /\ Awaiting'
    <2>1. UNCHANGED <<launched, task>> /\ launched \subseteq Tasks /\ OnePlace /\ Awaiting
      OBVIOUS
    <2> HIDE DEF SchedInv, PlainTypes, task
    <2> QED BY <2>1, ManagedSame, PlacesMoved DEF Reassigned
  <1> HIDE DEF PlainTypes
  <1> QED BY <1>2, <1>3, <1>4, <1>7, <1>8 DEF SchedInv, Reassigned

LEMMA ScheduleSelfKeeps ==
    ASSUME SchedInv, NEW c \in Cpus, schedule_self(c)
    PROVE  SchedInv'
  <1>1. idle[c] \in AllTasks /\ Listed(blocked') \subseteq Tasks
    BY TaskAssumption DEF AllTasks, Listed
  <1>2. UNCHANGED <<launched, running, current, lockvars, context, kick, ipi, masked, task, wake>>
    BY DEF schedule_self
  <1> QED BY <1>1, <1>2, PutBackEffect, SoftSlotKeeps

LEMMA ScheduleOneKeeps ==
    ASSUME SchedInv, Resolving, NEW c \in Cpus, schedule_one(c)
    PROVE  SchedInv'
  <1>1. PICK t \in AllTasks : next' = [next EXCEPT ![c] = t]
    BY PickEffect
  <1>2. /\ Goto(c, "soft_pick", "soft_load") /\ todo' \subseteq Tasks
        /\ UNCHANGED <<launched, running, current, lockvars, context, kick, ipi, masked, task, wake>>
    BY DEF schedule_one, SchedInv, PlainTypes
  <1>3. Reassigned
    BY PickEffect
  <1> QED BY <1>1, <1>2, <1>3, SoftSlotKeeps

LEMMA ScheduleSelfLoadKeeps ==
    ASSUME SchedInv, NEW c \in Cpus, schedule_self_load(c)
    PROVE  SchedInv'
  <1> USE CpuAssumption, TaskAssumption, CoreZero DEF SchedInv, PlainTypes, schedule_self_load,
      queues, lockvars, task, wake, Goto
  <1>0. /\ pc[c] = "soft_load" /\ pc'[c] = "soft_rel" /\ \A d \in Cpus \ {c} : pc'[d] = pc[d]
        /\ next[c] \in AllTasks
    OBVIOUS
  <1>1. Writers' /\ Core0' /\ AccessOwner' /\ KeepsCpu' /\ Launches' /\ IdleHome'
    BY DEF Writers, Core0, AccessOwner, KeepsCpu, Launches, IdleHome, CpuWrites, TaskWrites,
           TickPoints, SoftPoints, MaskedPoints, Launching
  <1>2. PlainTypes'
    BY DEF CpuPoints
  <1>3. FlagTypes'
    <2>1. /\ FlagTypes /\ UNCHANGED <<mutex, dirty, savedMask>>
          /\ masked' = [masked EXCEPT ![c] = savedMask[next[c]]]
          /\ awaitSave' = [awaitSave EXCEPT ![next[c]] = awaitSave[next[c]] /\ next[c] # current[c]]
      OBVIOUS
    <2> HIDE DEF schedule_self_load, SchedInv, PlainTypes
    <2>2. savedMask[next[c]] \in BOOLEAN /\ masked' \in [Cpus -> BOOLEAN]
      BY <1>0, <2>1 DEF FlagTypes
    <2>3. awaitSave' \in [AllTasks -> BOOLEAN]
      BY <2>1 DEF FlagTypes
    <2> QED BY <2>1, <2>2, <2>3 DEF FlagTypes
  <1>4. ReadersExact'
    <2>1. /\ UNCHANGED <<readers, ipi>> /\ pc[c] \in ReadPoints <=> pc'[c] \in ReadPoints
      BY DEF ReadPoints
    <2> QED BY <1>0, <2>1, ReadersKept
  <1>5. /\ \A d \in Cpus \ {c} : next[d] = current[d] /\ live[d] = next[d] /\ pc[d] \notin SavedPoints
        /\ \A d \in Cpus : running[d] = current[d]
        /\ live[c] = NoTask
        /\ \A d \in Cpus \ {c} : next[d] # next[c]
    <2>1. pc[c] \in SoftPoints
      BY DEF SoftPoints
    <2> HIDE DEF schedule_self_load, SchedInv, PlainTypes
    <2> QED BY <2>1, Settled, InOneSlot
  <1>6. /\ live \in [Cpus -> AllTasks \cup {NoTask}] /\ awaitSave \in [AllTasks -> BOOLEAN]
        /\ running \in [Cpus -> AllTasks] /\ next \in [Cpus -> AllTasks]
        /\ current \in [Cpus -> AllTasks] /\ Saves /\ next' = next
        /\ live' = [live EXCEPT ![c] = next[c]] /\ running' = [running EXCEPT ![c] = next[c]]
        /\ current' = [current EXCEPT ![c] = next[c]]
        /\ awaitSave' = [awaitSave EXCEPT ![next[c]] = awaitSave[next[c]] /\ next[c] # current[c]]
    BY DEF FlagTypes
  <1>7. Registers' /\ Saves' /\ NoDoubleRun'
    <2> HIDE DEF schedule_self_load, SchedInv, PlainTypes, Goto
    <2>1. Registers'
      BY <1>0, <1>5, <1>6 DEF Registers, SavedPoints, SoftPoints
    <2>2. NoDoubleRun'
      <3>1. live'[c] = next[c] /\ \A d \in Cpus \ {c} : live'[d] = next[d]
        BY <1>5, <1>6
      <3>2. \A d, e \in Cpus : d # e => next[d] # next[e]
        BY InOneSlot
      <3> QED BY <3>1, <3>2 DEF NoDoubleRun
    <2>3. ASSUME NEW v \in AllTasks, awaitSave'[v] PROVE \E d \in Cpus : live'[d] = v
      <3>1. CASE v = next[c]
        BY <1>6, <3>1
      <3>2. CASE v # next[c]
        <4>1. awaitSave[v]
          BY <1>6, <2>3, <3>2
        <4>2. PICK d \in Cpus : live[d] = v
          BY <1>6, <4>1 DEF Saves
        <4>3. d # c
          BY <1>5, <4>2, TaskAssumption
        <4> QED BY <1>6, <4>2, <4>3
      <3> QED BY <3>1, <3>2
    <2>4. ASSUME NEW d \in Cpus PROVE next'[d] = current'[d]
      BY <1>5, <1>6
    <2> QED BY <2>1, <2>2, <2>3, <2>4 DEF Saves
  <1>8. OnePlace' /\ Awaiting'
    <2>1. UNCHANGED <<queued, blocked, awaiting, next, launched, task>> /\ launched \subseteq Tasks
      OBVIOUS
    <2> HIDE DEF schedule_self_load, PlainTypes, task
    <2> QED BY <2>1, IdleSame, PlacesKept
  <1> HIDE DEF schedule_self_load, PlainTypes
  <1> QED BY <1>1, <1>2, <1>3, <1>4, <1>7, <1>8 DEF SchedInv

LEMMA ScheduleSelfReleaseKeeps ==
    ASSUME SchedInv, NEW c \in Cpus, schedule_self_release(c)
    PROVE  SchedInv'
  <1> USE CpuAssumption, TaskAssumption, CoreZero DEF SchedInv, PlainTypes, schedule_self_release,
      queues, slots, context, task, wake, Goto
  <1>1. /\ PlainTypes' /\ FlagTypes' /\ Writers' /\ Core0' /\ AccessOwner' /\ KeepsCpu'
        /\ Registers' /\ Saves' /\ IdleHome' /\ NoDoubleRun' /\ Launches'
    BY DEF FlagTypes, Writers, Core0, AccessOwner, KeepsCpu, Registers, Saves, IdleHome,
           NoDoubleRun, Launches, TaskPoints, CpuPoints, CpuWrites, TaskWrites, TickPoints, SoftPoints, SavedPoints,
           MaskedPoints, ToSwitch, Launching
  <1>2. ReadersExact'
    <2>1. /\ UNCHANGED <<readers, ipi>> /\ \A d \in Cpus \ {c} : pc'[d] = pc[d]
          /\ pc[c] \in ReadPoints <=> pc'[c] \in ReadPoints
      BY DEF ReadPoints
    <2> QED BY <2>1, ReadersKept
  <1>3. OnePlace' /\ Awaiting'
    <2>1. UNCHANGED <<queued, blocked, awaiting, next, launched, task>> /\ launched \subseteq Tasks
      OBVIOUS
    <2> HIDE DEF schedule_self_release, PlainTypes, task
    <2> QED BY <2>1, IdleSame, PlacesKept
  <1> HIDE DEF schedule_self_release, PlainTypes
  <1> QED BY <1>1, <1>2, <1>3 DEF SchedInv

LEMMA SignalTryKeeps ==
    ASSUME SchedInv, NEW u \in Tasks, signal_try(u)
    PROVE  SchedInv'
  <1> USE CpuAssumption, TaskAssumption, CoreZero DEF SchedInv, PlainTypes, signal_try, queues,
      slots, lockvars, task, Goto
  <1>1. /\ FlagTypes' /\ Writers' /\ Core0' /\ AccessOwner' /\ KeepsCpu' /\ Registers'
        /\ IdleHome' /\ NoDoubleRun' /\ Launches'
    BY DEF FlagTypes, Writers, Core0, AccessOwner, KeepsCpu, Registers, IdleHome, NoDoubleRun,
           Launches, CpuWrites, TaskWrites, TickPoints, SoftPoints, SavedPoints, MaskedPoints, ToSwitch, Launching
  <1>2. Saves'
    BY DEF Writers, Core0, Saves, CpuWrites, TaskWrites, TickPoints, SoftPoints, SavedPoints
  <1>3. PlainTypes'
    <2>1. u \in AllTasks
      BY DEF AllTasks
    <2>2. pc' \in [Cpus -> CpuPoints] /\ sel' \in [Cpus -> AllTasks \cup {NoTask}]
      BY <2>1 DEF CpuPoints
    <2>3. UNCHANGED <<queues, slots, readers, access, live, kick, ipi, task>>
      OBVIOUS
    <2> HIDE DEF signal_try
    <2> QED BY <2>2, <2>3
  <1>4. ReadersExact'
    <2>1. /\ UNCHANGED <<readers, ipi>> /\ \A d \in Cpus \ {0} : pc'[d] = pc[d]
          /\ pc[0] \in ReadPoints <=> pc'[0] \in ReadPoints
      BY DEF ReadPoints
    <2> QED BY <2>1, ReadersKept
  <1>5. OnePlace' /\ Awaiting'
    <2>1. UNCHANGED <<queued, blocked, awaiting, next, launched, task>> /\ launched \subseteq Tasks
      OBVIOUS
    <2> HIDE DEF signal_try, PlainTypes, task
    <2> QED BY <2>1, IdleSame, PlacesKept
  <1> HIDE DEF signal_try, PlainTypes
  <1> QED BY <1>1, <1>2, <1>3, <1>4, <1>5 DEF SchedInv

-----------------------------------------------------------------------------
(* The invariant *)

LEMMA SchedInvInit == Init => SchedInv
  <1> SUFFICES ASSUME Init PROVE SchedInv
    OBVIOUS
  <1> USE CpuAssumption, TaskAssumption, CoreZero DEF Init
  <1>1. PlainTypes
    <2>1. Cardinality(Boot) \in Int
      BY FS_Subset, FS_CardinalityType
    <2> QED BY <2>1, IdleSlots DEF PlainTypes, TaskPoints, CpuPoints, AllTasks
  <1>2. FlagTypes /\ Writers /\ Core0 /\ AccessOwner /\ KeepsCpu /\ Launches
    BY DEF FlagTypes, Writers, CpuWrites, TaskWrites, TickPoints, SoftPoints, SavedPoints, Core0, AccessOwner, KeepsCpu,
           MaskedPoints, Launches, Launching, AllTasks
  <1>3. Registers /\ Saves /\ IdleHome /\ NoDoubleRun
    BY DEF Registers, Saves, IdleHome, NoDoubleRun, SoftPoints, SavedPoints
  <1>4. ReadersExact
    <2>1. {c \in Cpus : pc[c] \in {"kick", "save", "select", "spin", "unlock"}} = {}
      OBVIOUS
    <2>2. Cardinality({}) = 0 /\ readers = 0 /\ ipi = {}
      BY FS_EmptySet
    <2> HIDE DEF Init
    <2> QED BY <2>1, <2>2 DEF ReadersExact
  <1>5. Managed = Boot
    BY DEF Managed, BeingLaunched
  <1>6. OnePlace
    <2>1. ASSUME NEW t \in Tasks PROVE Placed(t, One(t \in Managed))
      BY <1>5, IdleSlots DEF Placed, One
    <2> QED BY <2>1, OnePlaceDef
  <1>7. Awaiting
    <2>1. awaiting = Cardinality(Boot) /\ InSlots(next) = 0 /\ Cardinality(Boot) \in Int
      BY IdleSlots, FS_Subset, FS_CardinalityType
    <2> HIDE DEF Init
    <2> QED BY <1>5, <2>1, OnePlaceDef
  <1> HIDE DEF Init
  <1> QED BY <1>1, <1>2, <1>3, <1>4, <1>6, <1>7 DEF SchedInv

LEMMA SchedInvNext == SchedInv /\ Resolving /\ [Next]_vars => SchedInv'
  <1> SUFFICES ASSUME SchedInv, Resolving, [Next]_vars PROVE SchedInv'
    OBVIOUS
  <1>1. CASE Tick \/ Device
    BY <1>1, TimerTickKeeps, SignalTryKeeps DEF Tick, Device
  <1>2. ASSUME NEW c \in Cpus, TaskStep(c) PROVE SchedInv'
    BY <1>2, BlockDirtyKeeps, HoldKeeps, TryBusyKeeps, TryEnterKeeps, TryCheckKeeps,
       TryFailedKeeps, ReenableSchedulerKeeps, UnblockReleaseKeeps, UnblockDirtyKeeps,
       Int101Keeps, ResumedKeeps, SyscallReturnKeeps, TaskRunLockKeeps, TaskRunCheckKeeps,
       TaskRunAddKeeps, WriteReleaseKeeps DEF TaskStep
  <1>3. ASSUME NEW c \in Cpus, TaskCall(c) PROVE SchedInv'
    BY <1>3, BlockMutexKeeps, TryDisableSchedulerKeeps, BlockInSendKeeps, TaskRunKeeps,
       UnblockTryKeeps DEF TaskCall
  <1>4. ASSUME NEW c \in Cpus, Handler(c) \/ Interrupt(c) PROVE SchedInv'
    BY <1>4, TickDirtyKeeps, ResolveStepFrame, ResolveKeeps, TickAssignKeeps, TickDowngradeKeeps,
       ScheduleOtherCpuKeeps, ScheduleOtherCpusDoneKeeps, SignalReleaseKeeps, SignalDirtyKeeps,
       SaveInKeeps, NextTaskSelectKeeps, LoadToKeeps, ReadReleaseKeeps, ScheduleSelfKeeps,
       ScheduleOneKeeps, ScheduleSelfLoadKeeps, ScheduleSelfReleaseKeeps, Interrupt100Keeps DEF Handler, Interrupt
  <1>5. CASE UNCHANGED vars
    <2>1. launched \subseteq Tasks /\ OnePlace /\ Awaiting
      BY DEF SchedInv, PlainTypes
    <2>2. OnePlace' /\ Awaiting'
      <3>1. UNCHANGED <<queued, blocked, awaiting, next, launched, task>>
        BY <1>5 DEF vars, queues, slots
      <3> QED BY <2>1, <3>1, IdleSame, PlacesKept
    <2> QED BY <1>5, <2>2 DEF SchedInv, vars, queues, slots, lockvars, context, handler, task,
         wake, PlainTypes, FlagTypes, Writers, CpuWrites, TaskWrites, Core0, AccessOwner, KeepsCpu,
         ReadersExact, Registers, ToSwitch, Saves, IdleHome, NoDoubleRun, Launches, Launching
  <1>6. CASE unreachable_release \/ spin_access
    BY <1>5, <1>6 DEF unreachable_release, spin_access
  <1> QED BY <1>1, <1>2, <1>3, <1>4, <1>5, <1>6 DEF Next

\* A step that leaves the lists alone, and no CPU inside resolve
LEMMA ResolvingKept ==
    ASSUME Resolving, UNCHANGED <<blocked, todo>>,
           \A c \in Cpus : pc'[c] \in (ResolvePoints \cup SoftPoints) \ {"soft_load"} =>
                             pc'[c] = pc[c] /\ sel'[c] = sel[c] /\ next'[c] = next[c]
    PROVE  Resolving'
  BY DEF Resolving, ResolvePoints, SoftPoints

LEMMA ResolvingNext == SchedInv /\ Resolving /\ [Next]_vars => Resolving'
  <1> SUFFICES ASSUME SchedInv, Resolving, [Next]_vars PROVE Resolving'
    OBVIOUS
  <1> DEFINE Quiet(c) == pc'[c] \in (ResolvePoints \cup SoftPoints) \ {"soft_load"} =>
                            pc'[c] = pc[c] /\ sel'[c] = sel[c] /\ next'[c] = next[c]
  <1>0. /\ pc \in [Cpus -> CpuPoints] /\ sel \in [Cpus -> AllTasks \cup {NoTask}]
        /\ next \in [Cpus -> AllTasks] /\ todo \subseteq Tasks /\ blocked \in [Tasks -> Nat]
        /\ 0 \in Cpus
    BY CoreZero DEF SchedInv, PlainTypes
  <1>1. CASE Tick \/ Device
    BY <1>0, <1>1, ResolvingKept DEF Tick, Device, timer_tick, signal_try, queues, slots, context,
       Goto, ResolvePoints, SoftPoints
  <1>2. ASSUME NEW c \in Cpus, TaskStep(c) PROVE Resolving'
    <2>1. CASE \E t \in Tasks : task_run_add(c, t)
      <3>1. PICK t \in Tasks : task_run_add(c, t)
        BY <2>1
      <3>2. \A d \in Cpus : ~ CpuWrites(d)
        BY <3>1 DEF task_run_add, At, SchedInv, Writers, TaskWrites
      <3> QED BY <3>1, <3>2 DEF task_run_add, handler, Resolving, CpuWrites, ResolvePoints,
                    TickPoints, SoftPoints
    <2>2. CASE \E t \in Tasks : int101(c, t)
      BY <1>0, <2>2, ResolvingKept DEF int101, queues, slots, ResolvePoints, SoftPoints
    <2>3. CASE UNCHANGED <<blocked, todo, pc, sel, next>>
      BY <2>3, ResolvingKept
    <2> QED BY <1>2, <2>1, <2>2, <2>3 DEF TaskStep, block_dirty, hold, try_busy, try_enter, try_check,
          try_failed, reenable_scheduler, unblock_release, unblock_dirty, resumed, syscall_return,
          task_run_lock, task_run_check, write_release, queues, slots, context, handler
  <1>3. ASSUME NEW c \in Cpus, TaskCall(c) PROVE Resolving'
    <2>1. UNCHANGED <<blocked, todo, pc, sel, next>>
      BY <1>3 DEF TaskCall, block_mutex, try_disable_scheduler, block_in_send, task_run, unblock_try,
           queues, slots, context, handler
    <2> QED BY <2>1, ResolvingKept
  <1>4. CASE tick_dirty
    <2>1. pc'[0] = "resolve" => todo' = Listed(blocked) /\ blocked' = blocked
      BY <1>0, <1>4 DEF tick_dirty, Goto
    <2>2. \A d \in Cpus \ {0} : ~ CpuWrites(d) /\ pc'[d] = pc[d]
      BY <1>0, <1>4, TickAlone DEF tick_dirty, Goto, CpuWrites, TickPoints
    <2>3. pc'[0] \in {"resolve", "requeue"}
      BY <1>0, <1>4 DEF tick_dirty, Goto
    <2>4. pc'[0] = "resolve" => \A t \in todo' : blocked'[t] > 0
      BY <2>1 DEF Listed
    <2> QED BY <2>2, <2>3, <2>4 DEF Resolving, CpuWrites, ResolvePoints, TickPoints, SoftPoints
  <1>5. CASE tick_assign
    <2>1. \A d \in Cpus \ {0} : ~ CpuWrites(d) /\ pc'[d] = pc[d]
      BY <1>0, <1>5, TickAlone DEF tick_assign, Goto, CpuWrites, TickPoints
    <2>2. pc'[0] = "downgrade"
      BY <1>0, <1>5 DEF tick_assign, Goto
    <2> QED BY <2>1, <2>2 DEF Resolving, CpuWrites, ResolvePoints, TickPoints, SoftPoints
  <1>6. ASSUME NEW c \in Cpus, schedule_self(c) PROVE Resolving'
    <2>1. /\ next' = [next EXCEPT ![c] = idle[c]] /\ Goto(c, "soft", "soft_resolve")
          /\ todo' = Listed(blocked')
      BY <1>6, PutBackEffect
    <2>2. \A d \in Cpus \ {c} : ~ CpuWrites(d) /\ pc'[d] = pc[d]
      BY <1>0, <2>1, TickAlone DEF Goto, CpuWrites
    <2>3. pc'[c] = "soft_resolve" /\ next'[c] = idle[c] /\ \A t \in todo' : blocked'[t] > 0
      BY <1>0, <2>1 DEF Goto, Listed
    <2> QED BY <2>2, <2>3 DEF Resolving, CpuWrites, ResolvePoints, TickPoints, SoftPoints
  <1>7. ASSUME NEW c \in Cpus, schedule_one(c) PROVE Resolving'
    <2>1. PICK t \in AllTasks : next' = [next EXCEPT ![c] = t]
      BY <1>7, PickEffect
    <2> QED BY <1>0, <1>7, <2>1, ResolvingKept DEF schedule_one, Goto, context, ResolvePoints, SoftPoints, queues
  <1>8. ASSUME NEW c \in Cpus, NEW t \in Tasks, resolve_test(c, t) PROVE Resolving'
    <2>1. \A d \in Cpus \ {c} : ~ CpuWrites(d) /\ pc'[d] = pc[d]
      BY <1>0, <1>8, TickAlone DEF resolve_test, Goto, CpuWrites, TickPoints, SoftPoints
    <2>2. /\ pc'[c] \in {"reset", "soft_reset"} => sel'[c] = t /\ t \in todo'
          /\ pc'[c] \in {"resolve", "soft_resolve", "reset", "soft_reset"}
          /\ pc[c] \in {"resolve", "soft_resolve"} /\ (pc[c] = "resolve" <=> pc'[c] \in {"resolve", "reset"})
          /\ todo' \subseteq todo /\ blocked' = blocked /\ next' = next
      BY <1>0, <1>8 DEF resolve_test, Goto, slots
    <2> QED BY <2>1, <2>2 DEF Resolving, CpuWrites, ResolvePoints, TickPoints, SoftPoints
  <1>9. ASSUME NEW c \in Cpus, resolve_reset(c) PROVE Resolving'
    <2>1. /\ UNCHANGED <<blocked, todo, sel, next>>
          /\ \/ pc[c] = "reset" /\ pc'[c] = "readd"
             \/ pc[c] = "soft_reset" /\ pc'[c] = "soft_readd"
          /\ \A d \in Cpus \ {c} : pc'[d] = pc[d]
      BY <1>0, <1>9 DEF resolve_reset, Goto, queues, slots, context
    <2> QED BY <2>1 DEF Resolving, ResolvePoints, SoftPoints
  <1>10. ASSUME NEW c \in Cpus, resolve_add(c) PROVE Resolving'
    <2>1. /\ \/ pc[c] = "readd" /\ pc'[c] = "resolve"
             \/ pc[c] = "soft_readd" /\ pc'[c] = "soft_resolve"
          /\ \A d \in Cpus \ {c} : pc'[d] = pc[d]
          /\ next' = next
          /\ \/ UNCHANGED <<blocked, todo>>
             \/ blocked' = [blocked EXCEPT ![sel[c]] = @ - 1] /\ todo' = todo \ {sel[c]}
      BY <1>0, <1>10 DEF resolve_add, Goto, slots
    <2>2. \A d \in Cpus \ {c} : ~ CpuWrites(d)
      BY <2>1, TickAlone DEF CpuWrites, TickPoints, SoftPoints
    <2>3. \A t \in todo : blocked[t] > 0
      BY <2>1 DEF Resolving, ResolvePoints
    <2>4. \A t \in todo' : blocked'[t] > 0
      BY <1>0, <2>1, <2>3
    <2> QED BY <2>1, <2>2, <2>4 DEF Resolving, CpuWrites, ResolvePoints, TickPoints, SoftPoints
  <1>11. ASSUME NEW c \in Cpus, resolve_done(c) PROVE Resolving'
    <2>1. /\ UNCHANGED <<blocked, todo, sel, next>>
          /\ \/ pc[c] = "resolve" /\ pc'[c] = "requeue"
             \/ pc[c] = "soft_resolve" /\ pc'[c] = "soft_pick"
          /\ \A d \in Cpus \ {c} : pc'[d] = pc[d]
      BY <1>0, <1>11 DEF resolve_done, Goto, queues, slots, context
    <2> QED BY <2>1 DEF Resolving, ResolvePoints, SoftPoints
  <1>12. ASSUME NEW c \in Cpus,
                \/ tick_downgrade \/ schedule_other_cpu \/ schedule_other_cpus_done \/ signal_release
                \/ signal_dirty \/ save_in(c) \/ next_task_select(c) \/ load_to(c) \/ read_release(c)
                \/ schedule_self_load(c) \/ schedule_self_release(c) \/ interrupt100(c)
         PROVE  Resolving'
    <2>1. UNCHANGED <<blocked, todo>> /\ \A d \in Cpus : Quiet(d)
      BY <1>0, <1>12 DEF tick_downgrade, schedule_other_cpu, schedule_other_cpus_done, signal_release,
         signal_dirty, save_in, next_task_select, load_to, read_release, schedule_self_load,
         schedule_self_release, interrupt100, Goto, queues, slots, context, ResolvePoints, SoftPoints
    <2> QED BY <2>1, ResolvingKept
  <1>13. ASSUME NEW c \in Cpus, Handler(c) \/ Interrupt(c) PROVE Resolving'
    BY <1>4, <1>5, <1>6, <1>7, <1>8, <1>9, <1>10, <1>11, <1>12, <1>13 DEF Handler, Interrupt
  <1>14. CASE UNCHANGED vars
    BY <1>14, ResolvingKept DEF vars, queues, slots, context, handler
  <1>15. CASE unreachable_release \/ spin_access
    BY <1>14, <1>15 DEF unreachable_release, spin_access
  <1> QED BY <1>1, <1>2, <1>3, <1>13, <1>14, <1>15 DEF Next

-----------------------------------------------------------------------------
(* Theorems *)

\* The invariant holds for any number of CPUs and any tasks, whoever blocks,
\* wakes, launches and is signalled, and whatever the policy assigns.
THEOREM SchedInvariant == Spec => [](SchedInv /\ Resolving)
  <1>1. Init => Resolving
    BY DEF Init, Resolving, ResolvePoints, SoftPoints
  <1> QED BY <1>1, SchedInvInit, SchedInvNext, ResolvingNext, PTL DEF Spec

\* Variables keep their types; in particular readers never falls below zero and
\* no task is taken out of a queue it is not in.
THEOREM TypeCorrect == Spec => []TypeOK
  <1>1. SchedInv => TypeOK
    <2> SUFFICES ASSUME SchedInv PROVE TypeOK
      OBVIOUS
    <2>1. PlainTypes /\ FlagTypes /\ writers \in 0 .. 1
      BY DEF SchedInv, Writers
    <2> QED BY <2>1 DEF PlainTypes, FlagTypes, TypeOK
  <1> QED BY <1>1, SchedInvariant, PTL

\* For any CPUs and tasks: a launched task is in the queues, blocked or in a slot,
\* and in one of these once.
THEOREM TasksInOnePlace == Spec => []OnePlace
  BY SchedInvariant, PTL DEF SchedInv

\* For any CPUs and tasks: what core 0 acquires on a CPU's behalf that CPU
\* releases, once.
THEOREM ReadLocksExact == Spec => []ReadersExact
  BY SchedInvariant, PTL DEF SchedInv

\* For any CPUs and tasks: no context is loaded before it was saved.
THEOREM ContextsOnOneCpu == Spec => []NoDoubleRun
  BY SchedInvariant, PTL DEF SchedInv

\* For any CPUs and tasks: when nobody has scheduler_lock for reading and no tick
\* is under way, all CPUs but one inside an int 101 have switched to the tasks in
\* their slots.
THEOREM RoundsSettle == Spec => []RoundSettled
  <1>1. SchedInv => RoundSettled
    <2> SUFFICES ASSUME SchedInv, readers = 0, pc[0] \notin TickPoints
                 PROVE  ipi = {} /\ \A c \in Cpus : /\ running[c] = current[c]
                                                    /\ pc[c] \notin SoftPoints => next[c] = running[c]
      BY DEF RoundSettled
    <2>1. ipi = {} /\ \A c \in Cpus : pc[c] \notin ReadPoints
      BY NoReaders
    <2>2. \A c \in Cpus : pc[c] \notin SoftPoints => ~ ToSwitch(c)
      BY <2>1, CoreZero DEF ToSwitch, ReadPoints, TickPoints
    <2> QED BY <2>1, <2>2 DEF SchedInv, Registers
  <1> QED BY <1>1, SchedInvariant, PTL

\* For any CPUs and tasks: a CPU that spins on await_save waits for one that has
\* still to save, so no circle of spinning CPUs can arise.
THEOREM SpinnersServed == Spec => []SpinnersAreServed
  <1>1. SchedInv => SpinnersAreServed
    <2> SUFFICES ASSUME SchedInv, NEW c \in Cpus, pc[c] = "spin", awaitSave[sel[c]]
                 PROVE  \E d \in Cpus \ {c} :
                            /\ live[d] = sel[c]
                            /\ \/ d \in ipi \/ pc[d] = "save"
                               \/ pc[0] = "kick" /\ (d = 0 \/ kick <= d)
      BY DEF SpinnersAreServed
    <2>1. sel[c] = next[c] /\ next[c] \in AllTasks /\ live[c] = NoTask
      BY DEF SchedInv, PlainTypes, Registers, SoftPoints, SavedPoints
    <2>2. PICK d \in Cpus : live[d] = sel[c]
      BY <2>1 DEF SchedInv, Saves
    <2>3. d # c /\ live[d] # NoTask
      BY <2>1, <2>2, TaskAssumption
    <2>4. live[d] = current[d] /\ pc[d] \notin SavedPoints
      BY <2>3, Loaded
    <2>5. next[d] # current[d]
      BY <2>1, <2>2, <2>3, <2>4, InOneSlot
    <2>6. pc[0] # "downgrade"
      BY CoreZero, TickAlone DEF CpuWrites, TickPoints, SoftPoints, SavedPoints, ReadPoints
    <2>7. ToSwitch(d)
      BY <2>5 DEF SchedInv, Registers
    <2> QED BY <2>2, <2>3, <2>4, <2>6, <2>7 DEF ToSwitch, SoftPoints, SavedPoints
  <1> QED BY <1>1, SchedInvariant, PTL

\* For any CPUs and tasks: the owner of _access_lock is on a CPU unless it is
\* inside the write_acquire of task_run.
THEOREM OnlyLaunchersSwitched == Spec => []AccessOwnerLaunches
  <1>1. SchedInv => AccessOwnerLaunches
    BY DEF SchedInv, PlainTypes, AccessOwner, KeepsCpu, MaskedPoints, AccessOwnerLaunches
  <1> QED BY <1>1, SchedInvariant, PTL

\* The lists in which nothing occurs twice have as many entries as tasks.
LEMMA TotalOnce ==
    ASSUME NEW f \in [Tasks -> {0, 1}]
    PROVE  Total(f) = Cardinality({t \in Tasks : f[t] = 1})
  <1> DEFINE F == {t \in Tasks : f[t] = 1}
             P == UNION {{t} \X (1 .. f[t]) : t \in Tasks}
             g == [t \in F |-> <<t, 1>>]
  <1>1. ASSUME NEW t \in Tasks PROVE {t} \X (1 .. f[t]) = IF f[t] = 1 THEN {<<t, 1>>} ELSE {}
    <2>1. CASE f[t] = 1
      <3>1. 1 .. f[t] = {1}
        BY <2>1
      <3> QED BY <2>1, <3>1
    <2>2. CASE f[t] = 0
      <3>1. 1 .. f[t] = {}
        BY <2>2
      <3> QED BY <2>2, <3>1
    <2> QED BY <2>1, <2>2
  <1>2. P = {<<t, 1>> : t \in F}
    BY <1>1
  <1>3. g \in [F -> P] /\ (\A a, b \in F : g[a] = g[b] => a = b)
    BY <1>2
  <1>4. \A p \in P : \E t \in F : g[t] = p
    BY <1>2
  <1>5. IsFiniteSet(F)
    BY TaskAssumption, FS_Subset
  <1> HIDE DEF F, P, g
  <1>6. ExistsBijection(F, P)
    BY <1>3, <1>4, Fun_IsBij, Fun_ExistsBij
  <1>7. Cardinality(P) = Cardinality(F)
    BY <1>5, <1>6, FS_Bijection
  <1> QED BY <1>7 DEF Total, F, P

\* The tasks in slots are as many as the slots they are in.
LEMMA InSlotsCount ==
    ASSUME SchedInv
    PROVE  InSlots(next) = Cardinality({t \in Tasks : Occurs(next, t) = 1})
  <1> DEFINE D == {c \in Cpus : next[c] \in Tasks}
             N == {t \in Tasks : Occurs(next, t) = 1}
             g == [c \in D |-> next[c]]
  <1>1. ASSUME NEW t \in Tasks
        PROVE  Occurs(next, t) \in {0, 1} /\ (Occurs(next, t) = 1 <=> \E c \in Cpus : next[c] = t)
    <2>1. Occurs(next, t) \in Nat /\ queued[t] \in Nat /\ blocked[t] \in Nat
      BY OccursNat DEF SchedInv, PlainTypes
    <2>2. queued[t] + blocked[t] + Occurs(next, t) \in {0, 1}
      BY DEF SchedInv, OnePlace
    <2>3. Occurs(next, t) \in {0, 1}
      BY <2>1, <2>2
    <2>4. Occurs(next, t) = 0 <=> {c \in Cpus : next[c] = t} = {}
      <3>1. IsFiniteSet({c \in Cpus : next[c] = t})
        BY CpusFinite, FS_Subset
      <3> QED BY <3>1, FS_EmptySet DEF Occurs
    <2> QED BY <2>3, <2>4
  <1>2. g \in [D -> N] /\ (\A a, b \in D : g[a] = g[b] => a = b)
    BY <1>1, InOneSlot
  <1>3. \A t \in N : \E c \in D : g[c] = t
    BY <1>1
  <1>4. IsFiniteSet(D)
    BY CpusFinite, FS_Subset
  <1> HIDE DEF D, N, g
  <1>5. ExistsBijection(D, N)
    BY <1>2, <1>3, Fun_IsBij, Fun_ExistsBij
  <1>6. Cardinality(N) = Cardinality(D)
    BY <1>4, <1>5, FS_Bijection
  <1> QED BY <1>6 DEF InSlots, D, N

\* For any CPUs and tasks: schedule_all and schedule_one, which do nothing when
\* awaiting_task_count is zero, overlook no task.
THEOREM AwaitingCountExact == Spec => []AwaitingExact
  <1>1. SchedInv => AwaitingExact
    <2> SUFFICES ASSUME SchedInv PROVE AwaitingExact
      OBVIOUS
    <2> DEFINE Q == {t \in Tasks : queued[t] = 1}
               B == {t \in Tasks : blocked[t] = 1}
               N == {t \in Tasks : Occurs(next, t) = 1}
    <2>1. ASSUME NEW t \in Tasks
          PROVE  /\ queued[t] \in {0, 1} /\ blocked[t] \in {0, 1} /\ Occurs(next, t) \in {0, 1}
                 /\ t \in Managed <=> queued[t] = 1 \/ blocked[t] = 1 \/ Occurs(next, t) = 1
                 /\ ~ (queued[t] = 1 /\ blocked[t] = 1)
                 /\ ~ (queued[t] = 1 /\ Occurs(next, t) = 1)
                 /\ ~ (blocked[t] = 1 /\ Occurs(next, t) = 1)
      <3>1. Occurs(next, t) \in Nat /\ queued[t] \in Nat /\ blocked[t] \in Nat
        BY OccursNat DEF SchedInv, PlainTypes
      <3>2. queued[t] + blocked[t] + Occurs(next, t) = IF t \in Managed THEN 1 ELSE 0
        BY OnePlaceDef DEF SchedInv, Placed, One
      <3> QED BY <3>1, <3>2
    <2>2. /\ IsFiniteSet(Q) /\ IsFiniteSet(B) /\ IsFiniteSet(N)
      BY TaskAssumption, FS_Subset
    <2>3. Managed = (Q \cup B) \cup N /\ Q \cap B = {} /\ (Q \cup B) \cap N = {}
      <3>1. Managed \subseteq Tasks
        BY DEF Managed, SchedInv, PlainTypes
      <3> QED BY <2>1, <3>1
    <2>4. Total(queued) = Cardinality(Q) /\ Total(blocked) = Cardinality(B)
      <3>1. queued \in [Tasks -> {0, 1}] /\ blocked \in [Tasks -> {0, 1}]
        BY <2>1 DEF SchedInv, PlainTypes
      <3> QED BY <3>1, TotalOnce
    <2>5. InSlots(next) = Cardinality(N)
      BY InSlotsCount
    <2>6. awaiting + InSlots(next) = Cardinality(Managed) /\ awaiting \in Int
      BY OnePlaceDef DEF SchedInv, PlainTypes
    <2> HIDE DEF Q, B, N
    <2>7. IsFiniteSet(Q \cup B) /\ Cardinality(Q \cap B) = 0 /\ Cardinality((Q \cup B) \cap N) = 0
      BY <2>2, <2>3, FS_Union, FS_EmptySet
    <2>8. Cardinality(Q) \in Nat /\ Cardinality(B) \in Nat /\ Cardinality(N) \in Nat
      BY <2>2, FS_CardinalityType
    <2>9. Cardinality(Managed) = Cardinality(Q) + Cardinality(B) + Cardinality(N)
      <3>1. Cardinality(Q \cup B) = Cardinality(Q) + Cardinality(B) - Cardinality(Q \cap B)
        BY <2>2, FS_Union
      <3>2. Cardinality(Managed) = Cardinality(Q \cup B) + Cardinality(N)
                                     - Cardinality((Q \cup B) \cap N)
        BY <2>2, <2>3, <2>7, FS_Union
      <3> QED BY <2>7, <2>8, <3>1, <3>2
    <2> QED BY <2>4, <2>5, <2>6, <2>8, <2>9 DEF AwaitingExact
  <1> QED BY <1>1, SchedInvariant, PTL
=============================================================================
