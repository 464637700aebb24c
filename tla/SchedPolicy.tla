---------------------------- MODULE SchedPolicy ----------------------------
(***************************************************************************)
(* Which task goes to which CPU: the run queues of the scheduler           *)
(* (src/src/kernel/generic/scheduler.cpp) with schedule_all, schedule_one  *)
(* and fix_sched_affinity.  All of it runs under scheduler_lock's write    *)
(* lock; one step here is one round of one of its loops.  Module Scheduler *)
(* takes from it what Conserving and OneHome say (its Assignments).        *)
(*                                                                         *)
(* A task's queue comes from its weight (priority + running - sleeping,    *)
(* clamped), an unbounded quantity: a task that comes back may go to any   *)
(* queue here, so what holds does not depend on the weights.  Whether its  *)
(* mutex is locked is open as well.  A CPU that is to idle has NoTask in   *)
(* its slot.                                                               *)
(***************************************************************************)
EXTENDS Integers, Sequences, FiniteSets, SequencesExt

CONSTANTS CpuCount,          \* running_cpu_count
          TASK_QUEUE_COUNT,  \* 128 in the code
          Tasks,
          NoTask,
          CpuCoreNone

Cpus == 0 .. CpuCount - 1
Levels == 0 .. TASK_QUEUE_COUNT - 1

ASSUME PolicyAssumption ==
    /\ CpuCount \in Nat \ {0} /\ TASK_QUEUE_COUNT \in Nat \ {0, 1}
    /\ IsFiniteSet(Tasks) /\ NoTask \notin Tasks /\ CpuCoreNone \notin Cpus

VARIABLES
    launched,      \* the tasks task_run was called for
    task_queues,   \* the run queues
    blocked,       \* blocked_tasks
    slot,          \* next_task_to_run
    affinity,      \* cpu_affinity of each task
    old_affinity,  \* old_cpu_affinity of each task
    phase,         \* which loop is running; "rest": the lock is free
    i,             \* the variable of the loops over CPUs and over queues
    choosen, retried,  \* schedule_all's lists of CPUs
    to_fix, attempt    \* fix_sched_affinity's worklist and counter

queues == <<task_queues, blocked>>
homes == <<affinity, old_affinity>>
passes == <<choosen, retried>>
fixing == <<to_fix, attempt>>
vars == <<launched, queues, slot, homes, phase, i, passes, fixing>>

MaxAttempt == 4 * CpuCount

TypeOK ==
    /\ launched \subseteq Tasks
    /\ task_queues \in [Levels -> Seq(Tasks)] /\ blocked \subseteq Tasks
    /\ slot \in [Cpus -> Tasks \cup {NoTask}]
    /\ affinity \in [Tasks -> Cpus \cup {CpuCoreNone}]
    /\ old_affinity \in [Tasks -> Cpus \cup {CpuCoreNone}]
    /\ phase \in {"rest", "resolve", "requeue", "level", "match", "any", "fix", "failed", "one"}
    /\ i \in 0 .. CpuCount + TASK_QUEUE_COUNT
    /\ choosen \in Seq(Cpus) /\ retried \in Seq(Cpus) /\ to_fix \in Seq(Cpus)
    /\ attempt \in 0 .. MaxAttempt

\* scheduler_init: empty queues, every CPU idle
Init ==
    /\ launched = {} /\ task_queues = [l \in Levels |-> <<>>] /\ blocked = {}
    /\ slot = [c \in Cpus |-> NoTask]
    /\ affinity = [t \in Tasks |-> CpuCoreNone]
    /\ old_affinity = [t \in Tasks |-> CpuCoreNone]
    /\ phase = "rest" /\ i = 0
    /\ choosen = <<>> /\ retried = <<>> /\ to_fix = <<>> /\ attempt = 0

Push(t, l) == task_queues' = [task_queues EXCEPT ![l] = Append(@, t)]

\* add_entity_to_queue: a task whose mutex is locked goes to blocked_tasks,
\* another one to the queue its weight asks for.
add_entity_to_queue(t) ==
    \/ blocked' = blocked \cup {t} /\ UNCHANGED task_queues
    \/ (\E l \in Levels : Push(t, l)) /\ UNCHANGED blocked

\* task_run: a fresh control block has weight 0, the middle queue.
task_run(t) ==
    /\ phase = "rest" /\ t \notin launched
    /\ launched' = launched \cup {t}
    /\ Push(t, TASK_QUEUE_COUNT \div 2)
    /\ UNCHANGED <<blocked, slot, homes, phase, i, passes, fixing>>

-----------------------------------------------------------------------------
(* update_runned_tasks *)

\* A tick begins: reschedule_all.
reschedule_all ==
    /\ phase = "rest" /\ phase' = "resolve"
    /\ UNCHANGED <<launched, queues, slot, homes, i, passes, fixing>>

\* resolve_blocked_tasks_scheduler: a blocked task whose mutex is free.  It
\* is run by the tick and by a task that blocks.
resolve_blocked_task(t) ==
    /\ phase \in {"resolve", "one"} /\ t \in blocked
    /\ blocked' = blocked \ {t}
    /\ \E l \in Levels : Push(t, l)
    /\ UNCHANGED <<launched, slot, homes, phase, i, passes, fixing>>

\* Mutant of shift_queues: queue 0 is overwritten like the others.
shift_queues_drops ==
    /\ phase = "resolve" /\ phase' = "requeue" /\ i' = 0
    /\ task_queues' = [l \in Levels |->
          IF l + 1 \in Levels THEN task_queues[l + 1] ELSE <<>>]
    /\ UNCHANGED <<launched, blocked, slot, homes, passes, fixing>>

\* Mutant of shift_queues: only queue 1 moves up.
shift_queues_once ==
    /\ phase = "resolve" /\ phase' = "requeue" /\ i' = 0
    /\ task_queues' = [l \in Levels |->
          IF l = 0 THEN task_queues[0] \o task_queues[1]
          ELSE IF l = 1 THEN <<>> ELSE task_queues[l]]
    /\ UNCHANGED <<launched, blocked, slot, homes, passes, fixing>>

\* Every queue moves up by one; queue 0 collects.
shift_queues ==
    /\ phase = "resolve" /\ phase' = "requeue" /\ i' = 0
    /\ task_queues' = [l \in Levels |->
          IF l = 0 THEN task_queues[0] \o task_queues[1]
          ELSE IF l + 1 \in Levels THEN task_queues[l + 1] ELSE <<>>]
    /\ UNCHANGED <<launched, blocked, slot, homes, passes, fixing>>

\* The task in CPU c's slot is put back and the slot emptied.
PutBack(c) ==
    /\ add_entity_to_queue(slot[c])
    /\ old_affinity' = [old_affinity EXCEPT ![slot[c]] = c]
    /\ slot' = [slot EXCEPT ![c] = NoTask]

update_runned_task ==
    /\ phase = "requeue" /\ i < CpuCount
    /\ i' = i + 1
    /\ IF slot[i] = NoTask THEN UNCHANGED <<queues, old_affinity, slot>> ELSE PutBack(i)
    /\ UNCHANGED <<launched, affinity, phase, passes, fixing>>

-----------------------------------------------------------------------------
(* schedule_all *)

Queued(t) == \E l \in Levels : t \in ToSet(task_queues[l])

\* awaiting_task_count (Scheduler!AwaitingExact: it counts these)
awaiting_task_count == Cardinality({t \in Tasks : t \in blocked \/ Queued(t)})

\* Every CPU, the last one on top
AllCpus == [k \in 1 .. CpuCount |-> k - 1]

\* fix_sched_affinity is entered.
StartFix == phase' = "fix" /\ to_fix' = AllCpus /\ attempt' = 0

schedule_nothing ==
    /\ phase = "requeue" /\ i = CpuCount /\ awaiting_task_count = 0
    /\ StartFix /\ choosen' = <<>> /\ retried' = <<>>
    /\ UNCHANGED <<launched, queues, slot, homes, i>>

schedule_all ==
    /\ phase = "requeue" /\ i = CpuCount /\ awaiting_task_count # 0
    /\ phase' = "level" /\ i' = 0
    /\ choosen' = AllCpus /\ retried' = <<>>
    /\ UNCHANGED <<launched, queues, slot, homes, fixing>>

\* query_nearest_task: the position in queue l of the first task with no
\* affinity or with an affinity for cpu; a set with at most one element
query_nearest_task(l, cpu) ==
    LET fits == {k \in DOMAIN task_queues[l] :
                    affinity[task_queues[l][k]] \in {CpuCoreNone, cpu}}
    IN  {k \in fits : \A m \in fits : k <= m}

run_task_queued(cpu, l, k) ==
    /\ slot' = [slot EXCEPT ![cpu] = task_queues[l][k]]
    /\ affinity' = [affinity EXCEPT ![task_queues[l][k]] = cpu]
    /\ task_queues' = [task_queues EXCEPT ![l] = RemoveAt(@, k)]

\* The head of the loop over the queues: an empty queue is skipped ...
skip_queue ==
    /\ phase = "level" /\ i < TASK_QUEUE_COUNT /\ task_queues[i] = <<>>
    /\ i' = i + 1 /\ retried' = <<>>
    /\ UNCHANGED <<launched, queues, slot, homes, phase, choosen, fixing>>

\* ... any other one gets two passes.
enter_queue ==
    /\ phase = "level" /\ i < TASK_QUEUE_COUNT /\ task_queues[i] # <<>>
    /\ phase' = "match" /\ retried' = <<>>
    /\ UNCHANGED <<launched, queues, slot, homes, i, choosen, fixing>>

\* First pass: each CPU takes the nearest task, or is put aside.
match_cpu ==
    /\ phase = "match" /\ choosen # <<>>
    /\ choosen' = Front(choosen)
    /\ LET near == query_nearest_task(i, Last(choosen)) IN
       \/ /\ \E k \in near : run_task_queued(Last(choosen), i, k)
          /\ UNCHANGED retried
       \/ /\ near = {}
          /\ retried' = Append(retried, Last(choosen))
          /\ UNCHANGED <<task_queues, slot, affinity>>
    /\ UNCHANGED <<launched, blocked, old_affinity, phase, i, fixing>>

match_done ==
    /\ phase = "match" /\ choosen = <<>> /\ phase' = "any"
    /\ UNCHANGED <<launched, queues, slot, homes, i, passes, fixing>>

\* Second pass: the CPUs put aside take what is left, whatever its affinity.
take_any ==
    /\ phase = "any" /\ retried # <<>> /\ task_queues[i] # <<>>
    /\ run_task_queued(Last(retried), i, 1)
    /\ retried' = Front(retried)
    /\ UNCHANGED <<launched, blocked, old_affinity, phase, i, choosen, fixing>>

\* Mutant of next_queue: the CPUs put aside are forgotten.
next_queue_forgets ==
    /\ phase = "any" /\ (retried = <<>> \/ task_queues[i] = <<>>)
    /\ phase' = "level" /\ i' = i + 1
    /\ choosen' = <<>> /\ retried' = <<>>
    /\ UNCHANGED <<launched, queues, slot, homes, fixing>>

\* Mutant of next_queue: the second pass does not wait for its condition.
next_queue_early ==
    /\ phase = "any"
    /\ phase' = "level" /\ i' = i + 1
    /\ choosen' = retried /\ retried' = <<>>
    /\ UNCHANGED <<launched, queues, slot, homes, fixing>>

\* The CPUs still without a task go on to the next queue.
next_queue ==
    /\ phase = "any" /\ (retried = <<>> \/ task_queues[i] = <<>>)
    /\ phase' = "level" /\ i' = i + 1
    /\ choosen' = retried /\ retried' = <<>>
    /\ UNCHANGED <<launched, queues, slot, homes, fixing>>

\* The CPUs no queue had a task for idle.
schedule_rest ==
    /\ phase = "level" /\ i = TASK_QUEUE_COUNT
    /\ slot' = [c \in Cpus |-> IF c \in ToSet(choosen) THEN NoTask ELSE slot[c]]
    /\ StartFix
    /\ UNCHANGED <<launched, queues, homes, i, passes>>

-----------------------------------------------------------------------------
(* fix_sched_affinity *)

FixRound == phase = "fix" /\ attempt < MaxAttempt /\ to_fix # <<>> /\ attempt' = attempt + 1

\* old_cpu_affinity of the task in CPU c's slot; an idle task has none.
Ran(c) == IF slot[c] = NoTask THEN CpuCoreNone ELSE old_affinity[slot[c]]

current == Last(to_fix)
old_cpu == Ran(current)
Settled == old_cpu \in {current, CpuCoreNone}

fix_settled ==
    /\ FixRound /\ Settled
    /\ to_fix' = Front(to_fix)
    /\ UNCHANGED <<launched, queues, slot, homes, phase, i, passes>>

\* Mutant of fix_swap: this CPU is looked at again as well.
fix_swap_again ==
    /\ FixRound /\ ~ Settled
    /\ slot' = [slot EXCEPT ![old_cpu] = slot[current], ![current] = slot[old_cpu]]
    /\ affinity' = [t \in Tasks |-> IF t = slot[current] THEN old_cpu
                                    ELSE IF t = slot[old_cpu] THEN current ELSE affinity[t]]
    /\ to_fix' = Append(to_fix, old_cpu)
    /\ UNCHANGED <<launched, queues, old_affinity, phase, i, passes>>

\* The task goes back to the CPU it ran on and that CPU's task comes here.
fix_swap ==
    /\ FixRound /\ ~ Settled
    /\ slot' = [slot EXCEPT ![old_cpu] = slot[current], ![current] = slot[old_cpu]]
    /\ affinity' = [t \in Tasks |-> IF t = slot[current] THEN old_cpu
                                    ELSE IF t = slot[old_cpu] THEN current ELSE affinity[t]]
    /\ to_fix' = Append(Front(to_fix), old_cpu)
    /\ UNCHANGED <<launched, queues, old_affinity, phase, i, passes>>

\* The end of the tick.  When the attempts ran out, reschedule_all is left
\* with an error, before any CPU is told about its new slot.
fix_done ==
    /\ phase = "fix" /\ (attempt = MaxAttempt \/ to_fix = <<>>)
    /\ to_fix' = <<>>
    /\ phase' = IF attempt >= MaxAttempt THEN "failed" ELSE "rest"
    /\ i' = 0 /\ choosen' = <<>> /\ retried' = <<>> /\ attempt' = 0
    /\ UNCHANGED <<launched, queues, slot, homes>>

-----------------------------------------------------------------------------
(* reschedule_only_one: the task in c's slot blocks *)

update_runned_task_for_cpu(c) ==
    /\ phase = "rest" /\ slot[c] # NoTask
    /\ PutBack(c)
    /\ phase' = "one" /\ i' = c
    /\ UNCHANGED <<launched, affinity, passes, fixing>>

\* schedule_one: from the first queue that holds a task, the nearest one, or
\* its head.
schedule_one ==
    /\ phase = "one" /\ phase' = "rest" /\ i' = 0
    /\ \/ /\ \A l \in Levels : task_queues[l] = <<>>
          /\ UNCHANGED <<task_queues, slot, affinity>>
       \/ \E l \in Levels :
            /\ task_queues[l] # <<>> /\ \A m \in 0 .. l - 1 : task_queues[m] = <<>>
            /\ LET near == query_nearest_task(l, i) IN
               \E k \in (IF near = {} THEN {1} ELSE near) : run_task_queued(i, l, k)
    /\ UNCHANGED <<launched, blocked, old_affinity, passes, fixing>>

-----------------------------------------------------------------------------
Tick == \/ shift_queues \/ update_runned_task \/ schedule_nothing \/ schedule_all
        \/ skip_queue \/ enter_queue \/ match_cpu \/ match_done \/ take_any \/ next_queue
        \/ schedule_rest \/ fix_settled \/ fix_swap \/ fix_done

Next ==
    \/ \E t \in Tasks : task_run(t) \/ resolve_blocked_task(t)
    \/ reschedule_all \/ Tick
    \/ \E c \in Cpus : update_runned_task_for_cpu(c)
    \/ schedule_one

Spec == Init /\ [][Next]_vars

\* The loops run to their end.  Core 0's timer keeps ticking, and as tasks
\* that block between two ticks hold the lock only for a moment, not every
\* tick finds it taken.
FairSpec == Spec /\ WF_vars(Tick) /\ WF_vars(schedule_one) /\ SF_vars(reschedule_all)

-----------------------------------------------------------------------------
(* Properties *)

\* In how many places task t is
Places(t) ==
    Cardinality({c \in Cpus : slot[c] = t})
    + (IF t \in blocked THEN 1 ELSE 0)
    + Cardinality(UNION {{l} \X {k \in DOMAIN task_queues[l] : task_queues[l][k] = t} : l \in Levels})

\* After every round of every loop, a launched task is in exactly one queue
\* entry, slot or blocked_tasks entry: shifting, matching and swapping never
\* lose a task or have two CPUs run it.
OneHome == \A t \in Tasks : Places(t) = IF t \in launched THEN 1 ELSE 0

\* When schedule_all has returned, no CPU idles while a task is queued.
Conserving ==
    phase = "fix" /\ (\E c \in Cpus : slot[c] = NoTask) => \A t \in Tasks : ~ Queued(t)

\* schedule_all serves the queues in order: while tasks of an earlier queue
\* wait, no CPU is left that could go to a later one.
UrgentFirst ==
    phase \in {"level", "match", "any"} =>
        \A l \in 0 .. i - 1 : task_queues[l] # <<>> => choosen = <<>> /\ retried = <<>>

\* fix_sched_affinity ends long before its limit, so reschedule_all never
\* returns an error between changing next_task_to_run and telling the CPUs.
FixEnds == phase # "failed" /\ attempt <= 2 * CpuCount

\* A queued task is given a CPU sooner or later, whatever the weights of the
\* others: every tick moves it up, and queue 0 is served in order.
NoStarvation == \A t \in Tasks : Queued(t) ~> \E c \in Cpus : slot[c] = t
=============================================================================
