------------------------------ MODULE Scheduler ------------------------------
(***************************************************************************)
(* The SMP scheduler of the kernel (src/src/kernel/generic/scheduler.cpp): *)
(* how core 0's tick, the reschedule interrupts it sends, and tasks that   *)
(* block, wake and are launched share the run queues, the CPUs' next and   *)
(* current tasks and the saved contexts.                                   *)
(*                                                                         *)
(* Which ready task goes to which CPU is left open here (Assignments): the *)
(* priority queues and affinities that decide it are module SchedPolicy,   *)
(* and nothing below depends on the choice.  scheduler_lock is RWLock with *)
(* its operations taken as atomic, except in code that may be interrupted  *)
(* inside one: there _access_lock is a variable of its own.                *)
(***************************************************************************)
EXTENDS Integers, FiniteSets

CONSTANTS CpuCount,   \* running_cpu_count
          Tasks,      \* the tasks other than the idle tasks
          idle,       \* scheduler_idles: the idle task of every CPU
          NoTask,
          Boot,       \* the tasks launched before the first tick
          Blockers,   \* the tasks that block (ipc_receive, ipc_send, signal_await)
          Disablers,  \* the tasks that disable the scheduler (ipc_send, ipc_send_async)
          Launchers,  \* the tasks that launch others
          Wakers,     \* the tasks that unblock others (ipc_receive, ipc_reply)
          Signalled   \* the tasks that device interrupts unblock (signal_trigger)

Cpus == 0 .. CpuCount - 1
IdleTasks == {idle[c] : c \in Cpus}
AllTasks == Tasks \cup IdleTasks

ASSUME CpuAssumption == CpuCount \in Nat \ {0}
ASSUME TaskAssumption ==
    /\ IsFiniteSet(Tasks) /\ NoTask \notin AllTasks
    /\ idle \in [Cpus -> IdleTasks] /\ IdleTasks \cap Tasks = {}
    /\ \A c, d \in Cpus : idle[c] = idle[d] => c = d
    /\ Boot \cup Blockers \cup Disablers \cup Launchers \cup Wakers \cup Signalled
         \subseteq Tasks

VARIABLES
    queued,    \* how often each task occurs in task_queues
    blocked,   \* how often each task occurs in blocked_tasks
    awaiting,  \* awaiting_task_count
    dirty,     \* blocked_task_dirty
    next,      \* next_task_to_run
    running,   \* cpu_running
    current,   \* Cpu::_current_task
    writers, readers,  \* scheduler_lock
    access,    \* the task interruptible inside scheduler_lock's _access_lock
    launched,  \* the tasks that task_run was called for
    mutex,     \* sched().mutex of every task is locked
    awaitSave, \* cpu_context()->await_save
    savedMask, \* the interrupt flag in the saved frame: TRUE when masked
    tpc,       \* where each task is in the kernel
    op,        \* what a task wants scheduler_lock for
    pc,        \* where each CPU's interrupt handler is; "run": in none
    live,      \* the task whose registers are on the CPU and not yet saved
    sel,       \* the local variable of a handler: schedule's next, resolve's task
    todo,      \* the blocked tasks that resolve_blocked_tasks_scheduler has not seen yet
    kick,      \* schedule_other_cpus's loop variable
    ipi,       \* the CPUs with an interrupt 100 pending
    masked     \* the CPU's interrupt flag is clear (outside handlers)

queues   == <<queued, blocked, awaiting, launched, todo>>
slots    == <<next, running, current>>
lockvars == <<writers, readers, access>>
context  == <<awaitSave, savedMask, live, sel>>
handler  == <<pc, kick, ipi>>
task     == <<tpc, op>>
wake     == <<mutex, dirty>>
vars     == <<queues, slots, lockvars, context, handler, masked, task, wake>>

TaskPoints == {"user", "blk", "hold", "try", "try_in", "failed", "int101",
               "resumed", "kret", "crit", "spin", "spin_in", "add", "wrel",
               "unb_rel", "unb_dirty"}
\* Where core 0 is in reschedule_all, and a CPU in reschedule_only_one
TickPoints == {"tick", "resolve", "reset", "readd", "requeue", "downgrade"}
SoftPoints == {"soft_resolve", "soft_reset", "soft_readd", "soft_pick", "soft_load"}
CpuPoints == TickPoints \cup SoftPoints \cup
             {"run", "kick", "save", "select", "spin", "unlock", "soft", "soft_rel",
              "unb_rel", "unb_dirty"}

TypeOK ==
    /\ queued \in [Tasks -> Nat] /\ blocked \in [Tasks -> Nat] /\ awaiting \in Int
    /\ next \in [Cpus -> AllTasks] /\ running \in [Cpus -> AllTasks]
    /\ current \in [Cpus -> AllTasks]
    /\ writers \in 0 .. 1 /\ readers \in Nat /\ access \in Tasks \cup {NoTask}
    /\ launched \subseteq Tasks /\ todo \subseteq Tasks
    /\ mutex \in [Tasks -> BOOLEAN] /\ dirty \in BOOLEAN
    /\ awaitSave \in [AllTasks -> BOOLEAN] /\ savedMask \in [AllTasks -> BOOLEAN]
    /\ tpc \in [Tasks -> TaskPoints]
    /\ op \in [Tasks -> {"none", "block", "disable"} \cup Tasks]
    /\ pc \in [Cpus -> CpuPoints]
    /\ live \in [Cpus -> AllTasks \cup {NoTask}]
    /\ sel \in [Cpus -> AllTasks \cup {NoTask}]
    /\ kick \in 1 .. CpuCount + 1 /\ ipi \subseteq Cpus
    /\ masked \in [Cpus -> BOOLEAN]

Init ==
    /\ queued = [t \in Tasks |-> IF t \in Boot THEN 1 ELSE 0]
    /\ blocked = [t \in Tasks |-> 0]
    /\ awaiting = Cardinality(Boot) /\ launched = Boot /\ todo = {}
    /\ next = idle /\ running = idle /\ current = idle /\ live = idle
    /\ writers = 0 /\ readers = 0 /\ access = NoTask
    /\ mutex = [t \in Tasks |-> FALSE] /\ dirty = FALSE
    /\ awaitSave = [t \in AllTasks |-> FALSE]
    /\ savedMask = [t \in AllTasks |-> FALSE]
    /\ tpc = [t \in Tasks |-> "user"] /\ op = [t \in Tasks |-> "none"]
    /\ pc = [c \in Cpus |-> "run"] /\ sel = [c \in Cpus |-> NoTask]
    /\ kick = 1 /\ ipi = {}
    /\ masked = [c \in Cpus |-> FALSE]

-----------------------------------------------------------------------------
(* The queues *)

\* How many entries the lists have that contain each task t f[t] times
Total(f) == Cardinality(UNION {{t} \X (1 .. f[t]) : t \in Tasks})

Is_idle(t) == t \in IdleTasks
Free == writers = 0 /\ readers = 0

\* A CPU's slot holds a task other than an idle one.
Occurs(slot, t) == Cardinality({c \in Cpus : slot[c] = t})

\* The tasks in blocked_tasks
Listed(b) == {t \in Tasks : b[t] > 0}

\* Mutant of Requeue: a blocked task is kept in the queues too.
Requeue_both(q, b, cpus) ==
    LET n(t) == Cardinality({c \in cpus : next[c] = t})
    IN  <<[t \in Tasks |-> q[t] + n(t)],
          [t \in Tasks |-> IF mutex[t] THEN b[t] + n(t) ELSE b[t]]>>

\* add_entity_to_queue, for the tasks in the slots of a set of CPUs: a task
\* whose mutex is locked is blocked, any other one is queued, an idle task is
\* neither.
Requeue(q, b, cpus) ==
    LET n(t) == Cardinality({c \in cpus : next[c] = t})
    IN  <<[t \in Tasks |-> IF mutex[t] THEN q[t] ELSE q[t] + n(t)],
          [t \in Tasks |-> IF mutex[t] THEN b[t] + n(t) ELSE b[t]]>>

\* What schedule_all and fix_sched_affinity may leave in next_task_to_run:
\* as many queued tasks as there are CPUs, if there are that many, in any
\* order, and the idle task on every other CPU.
Assignments(q) ==
    {a \in [Cpus -> Tasks \cup {NoTask}] :
        /\ \A t \in Tasks : Occurs(a, t) <= q[t]
        /\ \/ \A c \in Cpus : a[c] # NoTask
           \/ Cardinality({c \in Cpus : a[c] # NoTask}) = Total(q)}

Slots(a) == [c \in Cpus |-> IF a[c] = NoTask THEN idle[c] ELSE a[c]]

-----------------------------------------------------------------------------
(* Interrupt masking: interrupt_hold (cli) and interrupt_release (sti) *)

Hold(c) == masked' = [masked EXCEPT ![c] = TRUE]
Release(c) == masked' = [masked EXCEPT ![c] = FALSE]

-----------------------------------------------------------------------------
(* Steps of the task t that CPU c executes *)

Runs(c, t) == pc[c] = "run" /\ live[c] = t /\ t \in Tasks

At(t, from, to) == tpc[t] = from /\ tpc' = [tpc EXCEPT ![t] = to]

\* SchedulerControlBlock::block, first line: mutex_acquire spins until it has
\* the mutex ...
block_mutex(c, t) ==
    /\ Runs(c, t) /\ t \in Blockers /\ ~ mutex[t]
    /\ At(t, "user", "blk")
    /\ mutex' = [mutex EXCEPT ![t] = TRUE]
    /\ UNCHANGED <<queues, slots, lockvars, context, handler, masked, op, dirty>>

\* ... second line, after which the task calls block_current_task.
block_dirty(c, t) ==
    /\ Runs(c, t)
    /\ At(t, "blk", "hold")
    /\ dirty' = TRUE
    /\ op' = [op EXCEPT ![t] = "block"]
    /\ UNCHANGED <<queues, slots, lockvars, context, handler, masked, mutex>>

\* A send calls try_disable_scheduler.
try_disable_scheduler(c, t) ==
    /\ Runs(c, t) /\ t \in Disablers
    /\ At(t, "user", "hold")
    /\ op' = [op EXCEPT ![t] = "disable"]
    /\ UNCHANGED <<queues, slots, lockvars, context, handler, masked, wake>>

\* Mutant of hold: interrupts stay enabled.
hold_enabled(c, t) ==
    /\ Runs(c, t)
    /\ At(t, "hold", "try")
    /\ UNCHANGED <<queues, slots, lockvars, context, handler, masked, op, wake>>

\* interrupt_hold at the head of both loops
hold(c, t) ==
    /\ Runs(c, t)
    /\ At(t, "hold", "try")
    /\ Hold(c)
    /\ UNCHANGED <<queues, slots, lockvars, context, handler, op, wake>>

\* try_write_acquire (its three rounds taken as one): _access_lock is busy, ...
try_busy(c, t) ==
    /\ Runs(c, t) /\ access # NoTask
    /\ At(t, "try", "failed")
    /\ UNCHANGED <<queues, slots, lockvars, context, handler, masked, op, wake>>

\* ... or it is won ...
try_enter(c, t) ==
    /\ Runs(c, t) /\ access = NoTask
    /\ access' = t
    /\ At(t, "try", "try_in")
    /\ UNCHANGED <<queues, slots, writers, readers, context, handler, masked, op, wake>>

\* ... and the lock is taken if it is free.
try_check(c, t) ==
    /\ Runs(c, t)
    /\ access' = NoTask
    /\ IF Free
       THEN /\ writers' = 1
            /\ At(t, "try_in", IF op[t] = "block" THEN "int101" ELSE "crit")
       ELSE UNCHANGED writers /\ At(t, "try_in", "failed")
    /\ UNCHANGED <<queues, slots, readers, context, handler, masked, op, wake>>

\* After a failed try: block_current_task returns if the task was unblocked
\* meanwhile; otherwise interrupts are let in and the loop goes on.
try_failed(c, t) ==
    /\ Runs(c, t)
    /\ At(t, "failed", IF op[t] = "block" /\ ~ mutex[t] THEN "kret" ELSE "hold")
    /\ Release(c)
    /\ UNCHANGED <<queues, slots, lockvars, context, handler, op, wake>>

\* ipc_send blocks its own task while the scheduler is disabled.
block_in_send(c, t) ==
    /\ Runs(c, t) /\ t \in Blockers /\ ~ mutex[t]
    /\ tpc[t] = "crit" /\ op[t] = "disable"
    /\ mutex' = [mutex EXCEPT ![t] = TRUE] /\ dirty' = TRUE
    /\ op' = [op EXCEPT ![t] = "block"]
    /\ UNCHANGED <<queues, slots, lockvars, context, handler, masked, tpc>>

\* reenable_scheduler lets interrupts in before it releases the lock.
reenable_scheduler(c, t) ==
    /\ Runs(c, t)
    /\ At(t, "crit", "wrel")
    /\ Release(c)
    /\ UNCHANGED <<queues, slots, lockvars, context, handler, op, wake>>

\* The instruction int $101: schedule_self saves the task, which will return
\* from block_current_task when it is loaded again.
int101(c, t) ==
    /\ Runs(c, t)
    /\ At(t, "int101", "resumed")
    /\ pc' = [pc EXCEPT ![c] = "soft"]
    /\ awaitSave' = [awaitSave EXCEPT ![t] = FALSE]
    /\ savedMask' = [savedMask EXCEPT ![t] = masked[c]]
    /\ live' = [live EXCEPT ![c] = NoTask]
    /\ UNCHANGED <<queues, slots, lockvars, sel, kick, ipi, masked, op, wake>>

\* interrupt_release after int $101, on whatever CPU the task is by now
resumed(c, t) ==
    /\ Runs(c, t)
    /\ At(t, "resumed", "kret")
    /\ Release(c)
    /\ UNCHANGED <<queues, slots, lockvars, context, handler, op, wake>>

\* The return to user mode restores the user's flags: interrupts are on.
syscall_return(c, t) ==
    /\ Runs(c, t)
    /\ At(t, "kret", "user")
    /\ op' = [op EXCEPT ![t] = "none"]
    /\ masked' = [masked EXCEPT ![c] = FALSE]
    /\ UNCHANGED <<queues, slots, lockvars, context, handler, wake>>

\* task_run(u): the control block is reset (its mutex too) ...
task_run(c, t, u) ==
    /\ Runs(c, t) /\ t \in Launchers /\ u \in Tasks \ launched
    /\ At(t, "user", "spin")
    /\ op' = [op EXCEPT ![t] = u]
    /\ launched' = launched \cup {u}
    /\ mutex' = [mutex EXCEPT ![u] = FALSE]
    /\ UNCHANGED <<queued, blocked, awaiting, todo, slots, lockvars, context, handler, masked,
                   dirty>>

\* ... and SRWLock::write_acquire spins, interrupts enabled, ...
task_run_lock(c, t) ==
    /\ Runs(c, t) /\ access = NoTask
    /\ access' = t
    /\ At(t, "spin", "spin_in")
    /\ UNCHANGED <<queues, slots, writers, readers, context, handler, masked, op, wake>>

task_run_check(c, t) ==
    /\ Runs(c, t)
    /\ access' = NoTask
    /\ IF Free THEN writers' = 1 /\ At(t, "spin_in", "add")
               ELSE UNCHANGED writers /\ At(t, "spin_in", "spin")
    /\ UNCHANGED <<queues, slots, readers, context, handler, masked, op, wake>>

\* Mutant of task_run_add: awaiting_task_count is not increased.
task_run_add_uncounted(c, t) ==
    /\ Runs(c, t)
    /\ At(t, "add", "wrel")
    /\ queued' = [queued EXCEPT ![op[t]] = IF mutex[op[t]] THEN @ ELSE @ + 1]
    /\ blocked' = [blocked EXCEPT ![op[t]] = IF mutex[op[t]] THEN @ + 1 ELSE @]
    /\ UNCHANGED <<awaiting, launched, todo, slots, lockvars, context, handler, masked, op, wake>>

\* ... until the new task can be queued.
task_run_add(c, t) ==
    /\ Runs(c, t)
    /\ At(t, "add", "wrel")
    /\ queued' = [queued EXCEPT ![op[t]] = IF mutex[op[t]] THEN @ ELSE @ + 1]
    /\ blocked' = [blocked EXCEPT ![op[t]] = IF mutex[op[t]] THEN @ + 1 ELSE @]
    /\ awaiting' = awaiting + 1
    /\ UNCHANGED <<launched, todo, slots, lockvars, context, handler, masked, op, wake>>

\* write_release at the end of task_run and of reenable_scheduler, after which
\* ipc_send goes on to block_current_task
write_release(c, t) ==
    /\ Runs(c, t) /\ access = NoTask
    /\ At(t, "wrel", IF op[t] = "block" THEN "hold" ELSE "kret")
    /\ writers' = writers - 1
    /\ UNCHANGED <<queues, slots, readers, access, context, handler, masked, op, wake>>

\* SchedulerControlBlock::unblock of task u.  mutex_release tries the mutex,
\* so that it is locked now whether it was before or not, ...
unblock_try(c, t, u) ==
    /\ Runs(c, t) /\ t \in Wakers /\ u \in Blockers \ {t}
    /\ At(t, "user", "unb_rel")
    /\ op' = [op EXCEPT ![t] = u]
    /\ mutex' = [mutex EXCEPT ![u] = TRUE]
    /\ UNCHANGED <<queues, slots, lockvars, context, handler, masked, dirty>>

\* ... and releases it.  A second unblock of u that comes in between finds it
\* released and never leaves Lock::release: unreachable_release below.
unblock_release(c, t) ==
    /\ Runs(c, t)
    /\ At(t, "unb_rel", "unb_dirty")
    /\ mutex[op[t]]
    /\ mutex' = [mutex EXCEPT ![op[t]] = FALSE]
    /\ UNCHANGED <<queues, slots, lockvars, context, handler, masked, op, dirty>>

\* Mutant of unblock_dirty: the flag is not set.
unblock_unnoticed(c, t) ==
    /\ Runs(c, t)
    /\ At(t, "unb_dirty", "kret")
    /\ UNCHANGED <<queues, slots, lockvars, context, handler, masked, op, wake>>

unblock_dirty(c, t) ==
    /\ Runs(c, t)
    /\ At(t, "unb_dirty", "kret")
    /\ dirty' = TRUE
    /\ UNCHANGED <<queues, slots, lockvars, context, handler, masked, op, mutex>>

-----------------------------------------------------------------------------
(* Interrupt handlers of CPU c *)

Goto(c, from, to) == pc[c] = from /\ pc' = [pc EXCEPT ![c] = to]

\* The timer interrupt on core 0.  When try_write_acquire fails schedule
\* returns the current task: nothing changes.
timer_tick ==
    /\ ~ masked[0] /\ Free /\ access = NoTask
    /\ Goto(0, "run", "tick")
    /\ writers' = 1
    /\ UNCHANGED <<queues, slots, readers, access, context, kick, ipi, masked, task, wake>>

\* update_runned_tasks: test and clear the flag, then resolve, ...
tick_dirty ==
    /\ Goto(0, "tick", IF dirty THEN "resolve" ELSE "requeue")
    /\ todo' = IF dirty THEN Listed(blocked) ELSE todo
    /\ dirty' = FALSE
    /\ UNCHANGED <<queued, blocked, awaiting, launched, slots, lockvars, context, kick, ipi,
                   masked, task, mutex>>

\* resolve_blocked_tasks_scheduler, called by update_runned_tasks and by
\* reschedule_only_one.  The loop looks at the mutex of a task ...
resolve_test(c, t) ==
    /\ t \in todo
    /\ IF mutex[t]
       THEN /\ pc[c] \in {"resolve", "soft_resolve"}
            /\ todo' = todo \ {t}
            /\ UNCHANGED <<pc, sel>>
       ELSE /\ Goto(c, "resolve", "reset") \/ Goto(c, "soft_resolve", "soft_reset")
            /\ sel' = [sel EXCEPT ![c] = t]
            /\ UNCHANGED todo
    /\ UNCHANGED <<queued, blocked, awaiting, launched, slots, lockvars, awaitSave, savedMask,
                   live, kick, ipi, masked, task, wake>>

\* ... that is not locked: mutex = {}, whatever happened to it since, ...
resolve_reset(c) ==
    /\ Goto(c, "reset", "readd") \/ Goto(c, "soft_reset", "soft_readd")
    /\ mutex' = [mutex EXCEPT ![sel[c]] = FALSE]
    /\ UNCHANGED <<queues, slots, lockvars, context, kick, ipi, masked, task, dirty>>

\* ... add_entity_to_queue, which looks again and puts the task at the end of
\* blocked_tasks if it is locked by now, and pop.
resolve_add(c) ==
    /\ Goto(c, "readd", "resolve") \/ Goto(c, "soft_readd", "soft_resolve")
    /\ IF mutex[sel[c]]
       THEN UNCHANGED <<queued, blocked, todo>>
       ELSE /\ queued' = [queued EXCEPT ![sel[c]] = @ + 1]
            /\ blocked' = [blocked EXCEPT ![sel[c]] = @ - 1]
            /\ todo' = todo \ {sel[c]}
    /\ sel' = [sel EXCEPT ![c] = NoTask]
    /\ UNCHANGED <<awaiting, launched, slots, lockvars, awaitSave, savedMask, live, kick, ipi,
                   masked, task, wake>>

resolve_done(c) ==
    /\ todo = {}
    /\ Goto(c, "resolve", "requeue") \/ Goto(c, "soft_resolve", "soft_pick")
    /\ UNCHANGED <<queues, slots, lockvars, context, kick, ipi, masked, task, wake>>

\* ... queue what the CPUs were given last time; then schedule_all, which does
\* nothing when awaiting_task_count is zero, and fix_sched_affinity.
tick_assign ==
    /\ Goto(0, "requeue", "downgrade")
    /\ LET r == Requeue(queued, blocked, Cpus)
           w == awaiting + Cardinality({c \in Cpus : ~ Is_idle(next[c])})
       IN  /\ blocked' = r[2]
           /\ IF w = 0
              THEN next' = idle /\ queued' = r[1] /\ awaiting' = w
              ELSE \E a \in Assignments(r[1]) :
                     /\ next' = Slots(a)
                     /\ queued' = [t \in Tasks |-> r[1][t] - Occurs(a, t)]
                     /\ awaiting' = w - Cardinality({c \in Cpus : a[c] # NoTask})
    /\ UNCHANGED <<launched, todo, running, current, lockvars, context, kick, ipi, masked, task,
                   wake>>

\* Mutant of tick_downgrade: the tasks about to run are marked as well.
tick_downgrade_marks_next ==
    /\ access = NoTask
    /\ Goto(0, "downgrade", "kick")
    /\ writers' = writers - 1 /\ readers' = readers + 1
    /\ awaitSave' = [t \in AllTasks |-> awaitSave[t] \/ \E c \in Cpus : t \in {current[c], next[c]}]
    /\ kick' = 1
    /\ UNCHANGED <<queues, slots, access, savedMask, live, sel, ipi, masked, task, wake>>

\* release_mutability, and the first loop of schedule_other_cpus: every CPU's
\* current task is marked as not saved yet.
tick_downgrade ==
    /\ access = NoTask
    /\ Goto(0, "downgrade", "kick")
    /\ writers' = writers - 1 /\ readers' = readers + 1
    /\ awaitSave' = [t \in AllTasks |-> awaitSave[t] \/ \E c \in Cpus : current[c] = t]
    /\ kick' = 1
    /\ UNCHANGED <<queues, slots, access, savedMask, live, sel, ipi, masked, task, wake>>

\* Mutant of schedule_other_cpu: no read lock for the CPU that is interrupted.
schedule_other_cpu_unlocked ==
    /\ kick < CpuCount /\ pc[0] = "kick"
    /\ kick' = kick + 1
    /\ ipi' = IF next[kick] # current[kick] THEN ipi \cup {kick} ELSE ipi
    /\ UNCHANGED <<queues, slots, lockvars, context, pc, masked, task, wake>>

\* One round of its second loop: a CPU whose task changes gets an interrupt
\* 100, and core 0 takes the read lock on its behalf first.
schedule_other_cpu ==
    /\ kick < CpuCount /\ pc[0] = "kick"
    /\ kick' = kick + 1
    /\ IF next[kick] # current[kick]
       THEN access = NoTask /\ readers' = readers + 1 /\ ipi' = ipi \cup {kick}
       ELSE UNCHANGED <<readers, ipi>>
    /\ UNCHANGED <<queues, slots, writers, access, context, pc, masked, task, wake>>

schedule_other_cpus_done ==
    /\ kick = CpuCount
    /\ Goto(0, "kick", "save")
    /\ UNCHANGED <<queues, slots, lockvars, context, kick, ipi, masked, task, wake>>

\* Interrupt 100 is taken: schedule on a core other than 0.
interrupt100(c) ==
    /\ c \in ipi /\ ~ masked[c]
    /\ Goto(c, "run", "save")
    /\ ipi' = ipi \ {c}
    /\ UNCHANGED <<queues, slots, lockvars, context, kick, masked, task, wake>>

\* Mutant of save_in: await_save stays set.
save_in_unannounced(c) ==
    /\ Goto(c, "save", "select")
    /\ savedMask' = [savedMask EXCEPT ![current[c]] = masked[c]]
    /\ live' = [live EXCEPT ![c] = NoTask]
    /\ UNCHANGED <<queues, slots, lockvars, awaitSave, sel, kick, ipi, masked, task, wake>>

\* schedule: save_in the current task ...
save_in(c) ==
    /\ Goto(c, "save", "select")
    /\ awaitSave' = [awaitSave EXCEPT ![current[c]] = FALSE]
    /\ savedMask' = [savedMask EXCEPT ![current[c]] = masked[c]]
    /\ live' = [live EXCEPT ![c] = NoTask]
    /\ UNCHANGED <<queues, slots, lockvars, sel, kick, ipi, masked, task, wake>>

\* ... next_task_select ...
next_task_select(c) ==
    /\ Goto(c, "select", "spin")
    /\ sel' = [sel EXCEPT ![c] = next[c]]
    /\ UNCHANGED <<queues, slots, lockvars, awaitSave, savedMask, live, kick, ipi, masked, task, wake>>

\* Mutant of load_to: no look at await_save.
load_to_unsaved(c) ==
    /\ Goto(c, "spin", "unlock")
    /\ live' = [live EXCEPT ![c] = sel[c]]
    /\ masked' = [masked EXCEPT ![c] = savedMask[sel[c]]]
    /\ running' = [running EXCEPT ![c] = sel[c]]
    /\ current' = [current EXCEPT ![c] = sel[c]]
    /\ UNCHANGED <<queues, next, lockvars, awaitSave, savedMask, sel, kick, ipi, task, wake>>

\* ... spin until that task is saved, load_to, and set the CPU's task ...
load_to(c) ==
    /\ Goto(c, "spin", "unlock")
    /\ ~ awaitSave[sel[c]]
    /\ live' = [live EXCEPT ![c] = sel[c]]
    /\ masked' = [masked EXCEPT ![c] = savedMask[sel[c]]]
    /\ running' = [running EXCEPT ![c] = sel[c]]
    /\ current' = [current EXCEPT ![c] = sel[c]]
    /\ UNCHANGED <<queues, next, lockvars, awaitSave, savedMask, sel, kick, ipi, task, wake>>

\* Mutant of read_release: only core 0 gives its read lock back.
read_release_core0(c) ==
    /\ Goto(c, "unlock", "run")
    /\ readers' = IF c = 0 THEN readers - 1 ELSE readers
    /\ sel' = [sel EXCEPT ![c] = NoTask]
    /\ UNCHANGED <<queues, slots, writers, access, awaitSave, savedMask, live, kick, ipi,
                   masked, task, wake>>

\* ... and only then read_release.
read_release(c) ==
    /\ Goto(c, "unlock", "run")
    /\ readers' = readers - 1
    /\ sel' = [sel EXCEPT ![c] = NoTask]
    /\ UNCHANGED <<queues, slots, writers, access, awaitSave, savedMask, live, kick, ipi,
                   masked, task, wake>>

\* schedule_self after save_in: reschedule_only_one, which leaves the slot alone
\* when a reschedule is already under way (expect_scheduling); otherwise
\* update_runned_task_for_cpu puts the task back, resolve goes through the
\* blocked ones, ...
schedule_self(c) ==
    /\ \/ /\ next[c] # running[c]
          /\ Goto(c, "soft", "soft_load")
          /\ UNCHANGED <<queued, blocked, awaiting, todo, next>>
       \/ /\ next[c] = running[c]
          /\ Goto(c, "soft", "soft_resolve")
          /\ LET r == Requeue(queued, blocked, {c})
             IN  queued' = r[1] /\ blocked' = r[2] /\ todo' = Listed(r[2])
          /\ awaiting' = awaiting + (IF Is_idle(next[c]) THEN 0 ELSE 1)
          /\ next' = [next EXCEPT ![c] = idle[c]]
    /\ UNCHANGED <<launched, running, current, lockvars, context, kick, ipi, masked, task, wake>>

\* ... and schedule_one takes a queued task, if there is any;
schedule_one(c) ==
    /\ Goto(c, "soft_pick", "soft_load")
    /\ \/ /\ awaiting = 0 \/ Total(queued) = 0
          /\ UNCHANGED <<queued, awaiting, next>>
       \/ \E t \in Tasks :
             /\ awaiting # 0 /\ queued[t] > 0
             /\ queued' = [queued EXCEPT ![t] = @ - 1] /\ awaiting' = awaiting - 1
             /\ next' = [next EXCEPT ![c] = t]
    /\ UNCHANGED <<blocked, launched, todo, running, current, lockvars, context, kick, ipi,
                   masked, task, wake>>

\* then next_task_select and, for another task, load_to with no look at
\* await_save.
schedule_self_load(c) ==
    /\ Goto(c, "soft_load", "soft_rel")
    /\ live' = [live EXCEPT ![c] = next[c]]
    /\ masked' = [masked EXCEPT ![c] = savedMask[next[c]]]
    /\ running' = [running EXCEPT ![c] = next[c]]
    /\ current' = [current EXCEPT ![c] = next[c]]
    /\ awaitSave' = [awaitSave EXCEPT ![next[c]] = @ /\ next[c] # current[c]]
    /\ UNCHANGED <<queues, next, lockvars, savedMask, sel, kick, ipi, task, wake>>

schedule_self_release(c) ==
    /\ access = NoTask
    /\ Goto(c, "soft_rel", "run")
    /\ writers' = writers - 1
    /\ UNCHANGED <<queues, slots, readers, access, context, kick, ipi, masked, task, wake>>

\* A device interrupt, which the I/O APIC routes to core 0, wakes a task: the
\* three steps of unblock again.
signal_try(u) ==
    /\ ~ masked[0] /\ u \in Signalled
    /\ Goto(0, "run", "unb_rel")
    /\ sel' = [sel EXCEPT ![0] = u]
    /\ mutex' = [mutex EXCEPT ![u] = TRUE]
    /\ UNCHANGED <<queues, slots, lockvars, awaitSave, savedMask, live, kick, ipi, masked, task, dirty>>

signal_release ==
    /\ Goto(0, "unb_rel", "unb_dirty")
    /\ mutex[sel[0]]
    /\ mutex' = [mutex EXCEPT ![sel[0]] = FALSE]
    /\ UNCHANGED <<queues, slots, lockvars, context, kick, ipi, masked, task, dirty>>

signal_dirty ==
    /\ Goto(0, "unb_dirty", "run")
    /\ sel' = [sel EXCEPT ![0] = NoTask]
    /\ dirty' = TRUE
    /\ UNCHANGED <<queues, slots, lockvars, awaitSave, savedMask, live, kick, ipi, masked, task, mutex>>

\* A context is about to release a mutex that is not locked (module Ipc says
\* when that happens): it stays in unreachable$().
ReleasesUnlocked ==
    \/ pc[0] = "unb_rel" /\ ~ mutex[sel[0]]
    \/ \E c \in Cpus, t \in Tasks : Runs(c, t) /\ tpc[t] = "unb_rel" /\ ~ mutex[op[t]]

unreachable_release == ReleasesUnlocked /\ UNCHANGED vars

\* The owner of _access_lock was switched out: whoever wants the lock spins in
\* Lock::lock.
spin_access ==
    /\ access # NoTask /\ \A c \in Cpus : live[c] # access
    /\ UNCHANGED vars

-----------------------------------------------------------------------------
\* What the task on CPU c does next, once it is inside an operation ...
TaskStep(c) == \E t \in Tasks :
    \/ block_dirty(c, t) \/ hold(c, t) \/ try_busy(c, t) \/ try_enter(c, t)
    \/ try_check(c, t) \/ try_failed(c, t) \/ reenable_scheduler(c, t)
    \/ unblock_release(c, t) \/ unblock_dirty(c, t)
    \/ int101(c, t) \/ resumed(c, t) \/ syscall_return(c, t)
    \/ task_run_lock(c, t) \/ task_run_check(c, t) \/ task_run_add(c, t)
    \/ write_release(c, t)

\* ... and the calls it may or may not make.
TaskCall(c) == \E t \in Tasks :
    \/ block_mutex(c, t) \/ try_disable_scheduler(c, t) \/ block_in_send(c, t)
    \/ \E u \in Tasks : task_run(c, t, u) \/ unblock_try(c, t, u)

Tick == timer_tick

Handler(c) ==
    \/ c = 0 /\ ( \/ tick_dirty \/ tick_assign \/ tick_downgrade
                  \/ schedule_other_cpu \/ schedule_other_cpus_done
                  \/ signal_release \/ signal_dirty )
    \/ save_in(c) \/ next_task_select(c) \/ load_to(c) \/ read_release(c)
    \/ schedule_self(c) \/ schedule_one(c) \/ schedule_self_load(c) \/ schedule_self_release(c)
    \/ (\E t \in Tasks : resolve_test(c, t)) \/ resolve_reset(c) \/ resolve_add(c)
    \/ resolve_done(c)

Interrupt(c) == interrupt100(c)

\* The steps that need _access_lock: only the holder of scheduler_lock is ever at
\* one of them.
TakesAccess ==
    \/ tick_downgrade \/ schedule_other_cpu \/ \E c \in Cpus : schedule_self_release(c)
    \/ \E c \in Cpus, t \in Tasks : write_release(c, t)

Device == \E u \in Tasks : signal_try(u)

Next ==
    \/ Tick \/ Device \/ unreachable_release \/ spin_access
    \/ \E c \in Cpus : TaskStep(c) \/ TaskCall(c) \/ Handler(c) \/ Interrupt(c)

Spec == Init /\ [][Next]_vars

(***************************************************************************)
(* Fairness.  A handler runs with interrupts masked, and so to its end; so *)
(* does the task on a CPU until interrupt 100 takes it off.  Core 0 is     *)
(* interrupted by the timer and the devices over and over, and its task    *)
(* makes steps in between (SF: no interrupt storm).  Who needs             *)
(* _access_lock wins it in the end, as in RWLock (SF: lock.hpp:92-99).  A  *)
(* pending interrupt 100 is taken when the CPU has interrupts enabled      *)
(* again and again, as it has in the retry loop of block_current_task (SF: *)
(* the processor takes a pending interrupt at the first instruction        *)
(* boundary that allows it).  The timer keeps ticking and core 0 does not  *)
(* find the lock busy at every tick (SF on a tick that gets the lock).     *)
(* Nothing is assumed of devices or of the calls tasks make.               *)
(***************************************************************************)
Fairness ==
    /\ \A c \in Cpus : WF_vars(Handler(c)) /\ WF_vars(TaskStep(c))
    /\ SF_vars(TaskStep(0)) /\ SF_vars(TakesAccess)
    /\ SF_vars(\E c \in Cpus : Interrupt(c)) /\ SF_vars(Tick)

FairSpec == Spec /\ Fairness

-----------------------------------------------------------------------------
(* Properties *)

\* The task that task_run is about to queue.
BeingLaunched(u) == \E t \in Tasks : op[t] = u /\ tpc[t] \in {"spin", "spin_in", "add"}

\* No task is lost and none is duplicated: a launched task is in the queues, in
\* the blocked list or in one CPU's slot, and in one place only, through every
\* race of tick, soft reschedule, launch and wake-up.
OnePlace == \A t \in Tasks :
    queued[t] + blocked[t] + Occurs(next, t)
        = IF t \in launched /\ ~ BeingLaunched(t) THEN 1 ELSE 0

\* awaiting_task_count is what its comment says, the tasks blocked and in the
\* queues: schedule_all and schedule_one return early when it is zero.
AwaitingExact == awaiting = Total(queued) + Total(blocked)

\* No task has its registers on two CPUs, so a context is never loaded before
\* it was saved (await_save in schedule, the write lock in schedule_self).
NoDoubleRun == \A c, d \in Cpus : c # d /\ live[c] # NoTask => live[c] # live[d]

\* When scheduler_lock is free, or a task reschedules its own CPU, the last round
\* of reschedules is over on every CPU: no interrupt 100 is pending, and the
\* slot, cpu_running and the current task agree on all the other CPUs.  (The
\* comments of update_runned_task_for_cpu and schedule describe the
\* corruption that follows when it is not.)
RoundSettled ==
    (readers = 0 /\ pc[0] \notin TickPoints) =>
        /\ ipi = {}
        /\ \A c \in Cpus : /\ running[c] = current[c]
                          /\ pc[c] \notin SoftPoints => next[c] = running[c]

\* Each read lock is held for one CPU that has still to finish its switch:
\* what core 0 acquires on a CPU's behalf that CPU releases, once.
ReadersExact ==
    readers = Cardinality(ipi)
        + Cardinality({c \in Cpus : pc[c] \in {"kick", "save", "select", "spin", "unlock"}})

\* A CPU that spins on await_save waits for a CPU that is going to save: no
\* circle of CPUs waiting for each other's contexts.
SpinnersAreServed == \A c \in Cpus :
    pc[c] = "spin" /\ awaitSave[sel[c]] =>
        \E d \in Cpus \ {c} :
            /\ live[d] = sel[c]
            /\ \/ d \in ipi \/ pc[d] = "save"
               \/ pc[0] = "kick" /\ (d = 0 \/ kick <= d)

\* No task is switched out as the owner of _access_lock.
OwnerOnCpu == access # NoTask => \E c \in Cpus : live[c] = access

\* Every round ends: once core 0 has handed out read locks, all are returned -
\* as long as no task is switched out inside _access_lock, which happens to
\* task_run (AccessOwnerLaunches below): core 0 then spins for the read lock of
\* the next CPU.
RoundCompletes == []OwnerOnCpu => ((readers > 0) ~> (readers = 0))

\* A task that was unblocked leaves the blocked list (or blocks again, which it
\* can do before it is switched out), wherever the wake-up
\* falls between the two writes of unblock, the tick's test of
\* blocked_task_dirty and the task's own way into the list - as long as no
\* task is switched out inside _access_lock and no two contexts release one
\* mutex at once, neither of which the code ensures (AccessOwnerLaunches below,
\* ReleasesLocked of module Ipc).
WakeUpServed ==
    [](OwnerOnCpu /\ ~ ReleasesUnlocked)
        => \A t \in Tasks : (blocked[t] > 0 /\ ~ mutex[t]) ~> (blocked[t] = 0 \/ mutex[t])

\* A task is switched out as the owner of _access_lock in one place only, the
\* write_acquire of task_run, which runs with interrupts enabled: blocking and
\* disabling the scheduler mask them in time (the comment of
\* block_current_task, scheduler.cpp:948, names the case).  In task_run it does
\* happen, and every other CPU then spins to the limit of Lock::lock.
AccessOwnerLaunches ==
    access # NoTask /\ (\A c \in Cpus : live[c] # access) => tpc[access] = "spin_in"
=============================================================================
