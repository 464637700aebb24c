# WingOS: TLA+ models and proofs of the kernel's core

WingOS is a microkernel for x86-64. The kernel schedules tasks on several CPUs,
gives them message-passing endpoints, signals and memory through handles
("assets"), and leaves drivers and file systems to user-space servers. This
directory holds TLA+ modules of the parts of the kernel that several CPUs,
interrupt handlers and tasks work on at once, of the allocator and the queue
below them, and of one driver above them, TLC configurations that check
them on small instances, and TLAPS proofs of what matters most for every
instance.

The models describe the code under `src/` at one commit; every definition that
stands for code is listed in `PROJECT.json` ("map") with its lines. Paths below
are relative to `src/src/` unless they start with `meta/`.

The repository has a policy on AI-assisted contributions (`NO-AI-POLICY.md`).
Nothing here changes the repository's code or is meant to be submitted to it;
the findings below describe behaviour and contain no patches.

## 1. Inventory

| Component | State | Operations | Status |
|---|---|---|---|
| Reader-writer spin lock (`libcore/lock/rwlock.hpp`, `lock.hpp`, `kernel/generic/smart_lock.hpp`) | three counters, one spin lock | read/write acquire and release, try acquire, downgrade | modelled, proved |
| SMP scheduler (`kernel/generic/scheduler.cpp`, `blocker.hpp`, `kernel/x86_64/scheduling.cpp`, `context.cpp`) | run queues, blocked list, per-CPU next/running/current task, saved contexts, `scheduler_lock`, `expect_scheduling` | tick on core 0, interrupt 100, `int 101`, block, unblock, launch, disable | modelled, proved |
| Scheduling policy (same files) | `task_queues`, affinities, `next_task_to_run` | `schedule_all`, `schedule_one`, `update_runned_tasks`, `fix_sched_affinity` | modelled, proved |
| IPC endpoint (`kernel/generic/ipc.cpp`, `ipc_asset.hpp`) | two rings, ticks, waiting server, lock | send, call, send async, receive, poll, reply | partly, proved: assets of a message and connections are in `Assets` |
| Signals (`kernel/generic/signal.cpp`, `signal_asset.hpp`) | waiters, interrupt table, counters | trigger, await, attach, detach | partly: trigger only |
| Ring (`libcore/ds/ring.hpp`) | buffer, head, tail, capacity, length | push, pop, head, back, grow | modelled, proved |
| Assets and spaces (`kernel/generic/asset.cpp`, `asset_types.hpp`, `space.hpp`, `space.cpp`) | handle tables, reference counts, a lock per asset and space | create, look up, map, connect, copy, move, release, delete | partly, proved: spaces exist from the start; no tasks, signals, virtual machines |
| IPC registry (`kernel/generic/ipc_registry.cpp`) | published endpoints | publish, find | partly, in `Assets` |
| Physical memory (`kernel/generic/pmm.cpp`, `libcore/ds/bitmap.hpp`, `math/range.hpp`) | sections, a bitmap and a hint each | allocate, release, own | modelled, proved |
| NVMe driver (`app/disk/nvme/controller.hpp`) | two queues, phase, command number, PRP lists | read or write, submit and wait | partly, proved: start-up, identify and the server are not modelled |
| System calls (`kernel/generic/syscalls.cpp`) | none of its own | decode, dispatch, return | the calls on assets, the return path |
| Tasks and programs (`task.cpp`, `execute.cpp`) | task list | create, launch | launch only |
| CPU tree, paging, start-up, sanitizers, hardware, other user-space services, libraries, third-party code | | | not modelled, see section 7 |

### How the parts interact

* Core 0's timer calls `reschedule_all`: it tries the write lock of
  `scheduler_lock`, refills the queues, chooses a task for every CPU, turns its
  write lock into a read lock, takes one further read lock *for* each other CPU
  it sends interrupt 100, and switches itself. Each of those CPUs saves its
  task, waits until the task it is to run was saved elsewhere (`await_save`),
  loads it and returns its read lock.
* A system call that has to wait locks the task's own `BlockMutex`, takes the
  write lock and executes `int 101`, which reschedules that CPU alone. Another
  task, or an interrupt, releases the mutex (`unblock`); the next tick moves the
  task from `blocked_tasks` back into the queues.
* `ipc_send` puts the address of the caller's buffer into the endpoint's ring,
  wakes the waiting server and blocks; `ipc_receive` copies the message out and
  wakes the caller, or, for a call, hands the server a return task that
  `ipc_reply` uses to wake it.
* `signal_trigger` runs in an interrupt handler and unblocks every attached
  task, whatever that task is waiting in.

* Every object a task uses is an asset that some space holds under a handle. A
  system call copies the reference out of the table under the space's lock and
  works on it after the lock is gone; a message takes assets along from the
  sender's space to the endpoint's. The last reference to go deletes the asset.
* An endpoint keeps its messages in a ring; the entries of the synchronous one own a
  reference to the sender's task. A memory asset takes its pages from the physical
  memory manager and gives them back when it is deleted.
* The NVMe driver, a user-space server, shares two queues with the controller. It
  writes a command, rings a doorbell and spins on the completion entry until its
  phase bit turns.

### What is hard here, and what makes it correct

`PROJECT.json` ("hazards") lists the places at their lines. In short:

* **Lock**: a decrement outside the spin lock, a downgrade, a try that gives up
  half-way. Correct if writers are alone, the counters count, the assertions
  hold, and everyone gets out again.
* **Scheduler**: locks taken by one CPU and returned by another, contexts that
  travel between CPUs in one round, CPUs that spin with interrupts masked, a
  flag and a mutex written in two steps. Correct if a task is in one place, no
  context is loaded before it was saved, a round is over before the next one,
  spinning CPUs are served, and a wake-up is not lost.
* **Policy**: loops that shift, match and swap. Correct if no task is lost, no
  CPU idles beside a queued task, urgent queues go first, the swapping ends
  before its limit, and no task starves.
* **IPC**: two rings merged by ticks that go stale, check-then-block, buffers
  lent by pointer, wake-ups from several sides. Correct if messages come out
  once and in order, sleepers have someone to wake them, and a send returns
  only when its message was taken.
* **Assets**: handles and references that outlive the lock they were read
  under, assets that are in a table before they are initialised, three kinds of
  nested locks, failures half-way. Correct if counts are exact, nothing is
  freed that is referred to, a handle never comes to mean another asset, and
  the locks close no circle.
* **Ring**: indices that go round while the array grows. Correct if it is a queue.
* **Physical memory**: a search from a hint, two loops over sections, sizes that are
  rounded up, down and not at all, creations that fail. Correct if no page has two
  holders, none is lost, and allocation fails only when it must.
* **NVMe**: phase bits and a slot that is passed over, a controller that finishes in
  any order, transfers cut by two limits and three kinds of addresses. Correct if
  a call returns, not before its command is done, and every block is where it
  belongs.

## 2. Modules

| Module | Models | Uses |
|---|---|---|
| `RWLockSpec` | what a reader-writer lock with downgrade promises | |
| `RWLock` | `fc::RWLock` and `SRWLock` | refines `RWLockSpec` |
| `RWLockProofs` | theorems about `RWLock` | extends `RWLock` |
| `Scheduler` | ticks, interrupts, context switches, blocking | the lock as `RWLock` promises it; `SchedPolicy`'s result as any assignment |
| `SchedulerProofs` | theorems about `Scheduler` | extends `Scheduler` |
| `SchedPolicy` | which task goes to which CPU | |
| `SchedPolicyProofs` | theorems about `SchedPolicy` | extends `SchedPolicy` |
| `IpcQueueSpec` | one first-in first-out queue | |
| `Ipc` | one endpoint, its servers, clients and signals | refines `IpcQueueSpec`; blocking as `Scheduler` provides it |
| `IpcProofs` | theorems about `Ipc` | extends `Ipc` |
| `Assets` | spaces, handles, reference counts, the registry, the calls on assets | |
| `AssetsProofs` | theorems about `Assets` | extends `Assets` |
| `RingSpec` | a queue without a limit | |
| `Ring` | `fc::Ring` | refines `RingSpec`; the sequences of `Ipc` |
| `RingProofs` | theorems about `Ring` | extends `Ring` |
| `Pmm` | `Pmm`, `fc::Bitmap`, `Range::shrinkAlign` | |
| `PmmProofs` | theorems about `Pmm` | extends `Pmm` |
| `Nvme` | transfers of the NVMe driver, and a controller | |
| `NvmeProofs` | theorems about `Nvme` | extends `Nvme` |
| `MCRWLock`, `MCScheduler`, `MCSchedPolicy`, `MCIpc`, `MCAssets`, `MCRing`, `MCPmm`, `MCNvme` | constants for TLC | |

Definitions keep the names of the functions they model; the parts of a function
that others can interleave with have names of their own (`send_wake`,
`tick_downgrade`). Operators whose name says what is wrong with them
(`try_write_acquire_busy`, `fix_swap_again`) stand in front of the definition they
vary and occur in no specification: each is a plausible mistake, and the
mutants in `PROJECT.json` show that the properties would notice it.

**RWLock.** `access`, `readers`, `writers`, `waiters` are `_access_lock`,
`_readers`, `_writers`, `_waiters`; `pc` and `retry` are each context's position
and retry counter. Each critical section is two steps, one that wins the spin
lock and one that runs the body and releases it. `read_release` decrements
without the spin lock and tests for underflow in a step of its own, as in the
code. `Call` chooses the next operation, which nothing constrains.

**Scheduler.** Queues and the blocked list are bags (how often each task
occurs), so that a duplicate would be visible. `next`, `running`, `current` are
`next_task_to_run`, `cpu_running` and `Cpu::_current_task`; `live` is the task
whose registers are on the CPU and not yet saved, which is ghost state for
`NoDoubleRun`. `pc` is the position of a CPU's handler, `tpc` the position of a
task in the kernel, `masked` and `savedMask` the interrupt flag on the CPU and in
the saved frame. A handler runs masked, so its steps interleave with other CPUs
and not with its own task. Assignments of queued tasks to CPUs are arbitrary up
to work conservation, which is what is proved of `SchedPolicy` (`Conserving`,
`OneHome`). `resolve_blocked_tasks_scheduler` visits the blocked tasks one by one
(`todo`), and its test of a mutex, its reset of that mutex and the second look of
`add_entity_to_queue` are steps of their own. A context that releases a free mutex,
or that wants `_access_lock` while its owner is switched out, stays where it is
(`unreachable_release`, `spin_access`).

**SchedPolicy.** One step is one round of one loop. All of it runs under the
write lock. The queue a task goes to comes from a weight that depends on time
slept and run; here a task may come back to any queue, so the results hold for
all weights.

**Ipc.** The rings are sequences, a message is its tick. `elock` is the owner of
the endpoint's lock where it is held over several steps; `mutex` is every task's
`BlockMutex`, whose `mutex_release` is a `try_lock` and a `release` that others may
come between. `buf` says which message a client's buffer holds, so that a dangling
address is visible. `Attached` are the tasks a signal is attached to, `Unmapped` the
clients whose message may turn out not to be mapped. `owed` are the calls for which
the servers' space holds a return task: any server of the space can look one up and
answer it until the end of `ipc_reply` removes it, so two may answer the same call;
its caller is then in `twice`. `resolving` is the task whose mutex
`resolve_blocked_tasks_scheduler` has found free and is about to reset. It does so
under `scheduler_lock`, which `ipc_send` and `ipc_send_async` hold while they unblock a
server, and signals, `ipc_receive` and `ipc_reply` do not. `Disturbed` tasks are those
that somebody may unblock out of turn: `Attached` and `twice`.

**Assets.** `table` and `alloc_uid` are the tables and counters of all spaces,
`count` is `ref_count`, `lock` the owner of an asset's or a space's lock; `inner` and
`via` are the reference and the handle an asset keeps inside (`physical_mem`,
`connection_to`, `target_message_space`). A space numbers its handles from
`16 + 10000 * id` on, so a handle is a pair of space and number and one space's
handle is none of another (a space that hands out 10000 handles would run into the
next one's numbers; that is outside the bound). `pinned` are the assets with a
reference that is never returned: the `Asset::own` of endpoints and connections and
the entry every space has for itself. Each context holds at most the two references
`ref` and `tmp`, which it returns at the end of the call, deleting what it was the
last to hold. A call that fails stops (`stopped`), one that removes a handle twice
ends in `unreachable`, as in the code. A message may carry a copy of any asset, a
space included.

**Ring.** `data`, `head`, `tail`, `capacity` and `len` are the fields. A push that grows
the ring is one action, because nobody sees the array in between; `Grown` is the array
after the loop, which moves the upper part from the top down. `Junk` is what fresh
memory may look like, and `refs` counts the references that elements own: with
`Owning = TRUE` an assignment to a slot releases what the slot seems to refer to.

**Pmm.** The unit of an address is a page. A section is known by its entry in the memory
map (`Map`), a page of it by a bit `<<section, offset>>`; `used` are the bits that are
set and `cache` the hints. All operations hold `pmm_lock`, so they follow one another,
but the search is one step per bit, which is what the proof of completeness is about.
`holders` are the memory assets with `allocated` set, with their size in bytes; `got`
says whether the allocation succeeded. One that failed has address 0 and releases page 0
and its followers when it is dropped, like any other (`asset.cpp:80,157-165`); `exposed`
records the bits that such releases have cleared. `stray` are the bits nobody will ever
give back (reserved, owned, or lost to rounding). A release that meets a clear bit halts
the machine (`unreachable`).

**Nvme.** The unit of an address is a block. What the driver does before it rings is one
step, since the controller sees nothing of it; then driver and controller interleave.
The controller (external: `device_fetch`, `device_complete`) fetches every slot up to the
doorbell, also the last one of the queue, which the driver passes over and which holds
zeroes, and finishes what it fetched in any order, with success or not. `executed`,
`errors` and `moved` record what it did, and `shared` which commands were under way
together with the slot passed over.

## 3. Runs

| Run | Instance | Checks | Result |
|---|---|---|---|
| `rwlock` | 3 contexts, retry limit 2, fair | `Exclusion`, `CountersExact`, `NoPanic`, `Refines`, `Progress`, `TryReturns` | holds, 65 thousand states |
| `scheduler_safety` | 3 CPUs, 3 tasks: one blocks, disables the scheduler and is signalled, one launches the third | `OnePlace`, `AwaitingExact`, `NoDoubleRun`, `RoundSettled`, `ReadersExact`, `SpinnersAreServed`, `AccessOwnerLaunches` | holds, 1.1 million states |
| `scheduler_live` | 2 CPUs, 2 tasks: one that wakes and launches the other, and a signal, fair | `RoundCompletes`, `WakeUpServed` | holds, 39 thousand states |
| `policy` | 2 CPUs, 3 tasks, 3 queues, fair | `OneHome`, `Conserving`, `UrgentFirst`, `FixEnds`, `NoStarvation` | holds, 26 thousand states |
| `ipc_safety` | a server with a signal, a server that also polls, 2 clients, 3 messages, shared return tasks, the unmapped-message path | `HeadsKnown`, `NoLostSender`, `BuffersStable`, `Answered`, `ReleasesLocked`, `InOrder` | holds, 3.0 million states |
| `assets` | 2 contexts, 2 spaces, one memory, mapping, endpoint and connection, 2 handles a space | `CountsExact`, `NoDangling`, `HandlesStable`, `InitialisedWhenUsed`, `NoCircularWait` | holds, 1.6 million states |
| `pmm` | 5 entries (3 become sections, one of which ends behind its entry), 2 memories at a time, sizes of one page, between pages and of three, creations that fail, memory created at an address | `Exclusive`, `FailsOnlyWhenFull`, `Accounted` | holds, 184 thousand states |
| `ring` | 2 elements, length up to 7 | `Refines` | holds, 14 thousand states |
| `nvme` | 5 transfers, one with a list from the middle of a page, queues of 4 slots, 9 commands and the rest of the last transfer, fair | `NoEarlyReturn`, `Transferred`, `SubmitReturns` | holds, 158 thousand states |
| `ipc_lost_wakeup` | 1 server, 1 client | `ReceiverAwake` | violated, finding 1 |
| `ring_references` | as `ring`, elements own references | `Owned` | violated, finding 2 |
| `nvme_prp_list` | transfers with a list | `ListInBounds` | violated, finding 3 |

The passing runs do not check what the violation runs refute. Where the code keeps a
promise only under a condition, the property states the condition, the run contains the
case, and section 5 says what happens in it:

* `NoLostSender`, `BuffersStable`, `Answered` and `ReleasesLocked` speak of tasks that are
  not disturbed: no signal is attached to them, and no call of theirs was answered by two
  servers at once. In `ipc_safety` only a server has a signal; second replies happen.
* `RoundCompletes` and `WakeUpServed` speak of behaviours in which nobody is switched out
  inside `_access_lock`, which can happen to `task_run`; `WakeUpServed` also of those in
  which no free mutex is released.
* `NoCircularWait` says that every circle goes through a copy of a space.
* `Exclusive` and `Accounted` except the pages that a failed `create_memory` has cleared
  (`exposed`).
* `Transferred` says that a failure goes unnoticed only for a command right behind the slot
  that is passed over (`shared`), and where the blocks end up only for transfers that need
  no list or begin with a page (`Regular`).

Each module has a `TypeOK`. It is part of, or follows from, the proved invariants (section
4) and says nothing about the code that the other properties do not, so no run lists it.
TLC confirms the inductive invariants and the hypotheses of section 4 on the same
instances.

### Bounds

* *Contexts of the lock (3).* A writer, a reader and a second writer are enough
  for each race of two acquires with one release; the proofs cover any number.
* *`IniRetry` (2 instead of 3).* The rounds before the last are alike; 2 gives one
  of each kind. The proofs cover any limit.
* *CPUs (3, and 2 for liveness).* With 3 two reschedule interrupts are pending at
  once, and three contexts can travel in a circle; with 2 one CPU other than core 0
  answers. `RoundCompletes` was also checked with 3 CPUs and a launcher, where core 0 can
  spin between two interrupts: it holds with its condition and fails without.
* *Tasks (2 to 3).* As many as CPUs, so that all travel; while some are blocked or
  not launched, idle tasks run. The proofs cover any number of CPUs and tasks.
* *Who does what* (`Blockers`, `Wakers`, `Launchers`, `Disablers`, `Signalled`) spreads
  the operations over the tasks; `Boot` are the tasks that exist at the first tick.
  At the first tick their mutexes are free and every CPU runs its idle task.
* *`TASK_QUEUE_COUNT` (3 instead of 128).* First, last and a queue in between: the
  loops treat the first and the last one specially and the rest alike. The proofs
  cover any number.
* *`MaxTick` (3).* The endpoint's tick starts at 1, each send adds one and none is made
  at a later tick, so a run accepts three messages: the order of messages, the staleness
  of a tick after a pop and the hand-over of buffers need two; with a third a client
  can reuse its buffer while another message is queued. Four messages (10.8 million
  states) pass as well, and so does a client that is also a server. The proofs cover any
  number. `CHECK_DEADLOCK FALSE` in the runs of `Ipc` is for the
  end of the sends, for an endpoint that stayed locked and for the points called
  unreachable; a server may then sleep for ever.
* *Assets.* Two contexts are enough for each race of a lookup with a removal, of two
  moves, or of a creation with a use; two spaces for a move and for the lock order.
  *`MaxHandle` (2)* lets the root space, which starts with a handle for the other
  space, allocate one and the other space two: a copy and an original, a mapping and
  its memory. `CHECK_DEADLOCK FALSE` is for calls that stopped and for handles that
  ran out, and for circles that a copy of a space closes; that there are no others is
  `NoCircularWait`. The proofs cover any number of contexts, spaces, assets and handles.
* *Ring.* Capacities are 3, 6 and 10, asked for at lengths 0, 2 and 5: with
  `MaxLen = 7` the ring grows twice from every position of head and tail. The proof
  covers any length.
* *Pmm.* The map has page 0, a hole, an entry too small for a section, one that is not
  aligned, so that its section ends behind it, and one whose end is cut; pages have 2 bytes
  and share bitmap bytes by 2, so that a size can be no multiple of a page and a section
  shorter than its entry. Two memories at a time: one has pages, the other fails
  and comes again, and may then get the same ones (checked with three, too: 1.6 million states). `CHECK_DEADLOCK FALSE` is for the machine that halts. The proof covers any map of
  ordered, disjoint entries and any number of memories.
* *Nvme.* 3 slots asked for give queues of 4 (whole pages), 3 of which are used:
  9 commands go round three times, so the phase turns more than once. Rpgs and
  `MaxTransfer` are such that a transfer of 8 blocks is cut; one list begins with a page, one
  in the middle. `CHECK_DEADLOCK FALSE` is for the end of the commands. The proofs
  cover queues of any size, transfers of any length and any number of commands.
* Symmetry is used in `ipc_safety`, on the clients, in `assets`, on the contexts, and in
  `pmm`, on the memories, and not where liveness is checked.

### Fairness

* *Lock*: a context inside an operation goes on and one that holds the lock releases it in
  the end (weak), and a context that keeps trying to win `_access_lock` wins it (strong). `Lock::lock` gives up after 2^30
  rounds and calls that unreachable (`lock.hpp:92-99`): the code assumes as much.
  Nobody is obliged to call anything.
* *Scheduler*: a handler runs masked and so to its end, and so does the task on a CPU until
  an interrupt takes it off (weak); core 0's task makes its next step, device interrupts
  notwithstanding, and whoever needs `_access_lock` wins it in the end, as above (strong); a
  pending interrupt 100 is taken by a CPU that enables interrupts again and again (strong);
  core 0's timer ticks and does not find the lock taken at every tick. The last is strong fairness on
  a tick that gets the lock: `reschedule_all` uses a try with three rounds and
  returns when it fails, and tasks that block at exactly every tick could starve
  it, which the code neither excludes nor treats. Devices and system calls have no
  fairness.
* *Policy*: the loops run to their end, and ticks recur (as above).
* *NVMe*: the controller goes on fetching and finishing, and the driver, which spins,
  makes its next step (all weak). The code has no timeout and so relies on both.

## 4. Proofs

All proof modules hold for every value of the constants that satisfies the named
assumptions.

**`RWLockProofs`** (assumptions: the contexts are a finite set, `NoProc` is not one
of them, the retry limit is positive).
Mutual exclusion is not inductive: an acquire looks at counters. The inductive
invariant `LockInv` is the conjunction of the type invariant, `AccessOwned` (the
owner of `_access_lock` is the one context inside a critical section), the
exactness of the three counters, the absence of panics and `Exclusion`. The
argument: a step moves one context from one point to another, which changes the
number of contexts in a set of points by -1, 0 or 1 (lemma on cardinalities);
each action's assignment to a counter is that difference. A grant happens when
the counters are zero, hence when the sets are empty. `read_release`, which does
not own the spin lock, only makes the set of readers smaller. Theorems:
`LockInvariant`, `MutualExclusion`, `CountersAreExact`, `AssertionsHold`, and
`Refinement` (every behaviour of `RWLock` is one of `RWLockSpec`, so `Scheduler`
may take the operations as atomic).

**`SchedulerProofs`** (assumptions: at least one CPU, finitely many tasks, an idle task for
each CPU that is none of them). The properties lean on each other, so there is one inductive
invariant for all, `SchedInv`. Besides the types it says who has the lock: `Writers` (one
CPU or task at a point that has it for writing, and no reader with it), `Core0` (rounds
run on core 0, which sends interrupts in order), `AccessOwner` and `KeepsCpu` (who is
inside `_access_lock`, and that all but launchers are masked and so keep their CPU),
`ReadersExact` (a read lock for core 0 during its round and for each CPU that was sent an
interrupt and is not done with it). It says where contexts are: `Registers` (the registers on a
CPU are its current task's until saved, and a CPU whose slot changed has still to
switch), `Saves` (`await_save` is set for a task that others may have to wait for, and
only while its registers are on a CPU), `IdleHome`, `OnePlace`, `NoDoubleRun`,
`Launches`. And `Awaiting` says how `awaiting_task_count` and the slots add up. A second
part, `Resolving`, says that what `resolve_blocked_tasks_scheduler` has still to visit is in
the blocked list, whatever happens to the mutexes between its steps. The argument for
`NoDoubleRun`: a new round needs the write lock, hence there is no reader, hence
(`ReadersExact`, `Registers`) every switch of the last round is done; within a round the
slots of different CPUs hold different tasks (`OnePlace`, `IdleHome`), and a CPU loads a
task only when `await_save` is clear, which the one CPU with its registers does. A CPU that
reschedules itself (`int 101`) has the write lock, too. `AwaitingExact` counts entries
of bags and slots, and follows from `OnePlace` by comparing sets. Theorems:
`SchedInvariant`, `TypeCorrect`, `TasksInOnePlace`, `ReadLocksExact`, `ContextsOnOneCpu`,
`RoundsSettle`, `SpinnersServed`, `OnlyLaunchersSwitched`, `AwaitingCountExact`.

**`SchedPolicyProofs`** (assumptions: at least one CPU, two queues or more, finitely many
tasks, `NoTask` and `CpuCoreNone` are neither task nor CPU). The inductive invariant `PolicyInv` adds three parts to the
properties. `Homes` says that a task is at one place, by saying which pairs of places
differ, rather than by counting; `OneHome`, which counts, follows. `Idles` says that the
CPUs without a task are exactly those the loops still have on a list: without it an
assignment could overwrite a task, or a CPU be forgotten. `Rounds` bounds
`fix_sched_affinity`: attempts made and twice the CPUs left to look at stay below twice
the number of CPUs, plus one if the CPU on top is settled. An exchange costs an attempt and
leaves the top settled (its task is on its old CPU), so the next attempt takes it off the
list; the limit of the code is not reached. Theorems: `PolicyInvariant`, `TypeCorrect`,
`TasksHaveOneHome`, `NoCpuWasted`, `QueuesServedInOrder`, `FixAlwaysEnds`.

**`IpcProofs`** (assumptions: `Irq` and `NoTask` are not tasks, pollers and unmapped
clients are servers and clients, `MaxTick < LONG_MAX`). The inductive invariant
`QueueInv`: both rings are sorted by tick, every tick is older than the endpoint's,
no tick is in both rings, and the recorded ticks are those of the heads of rings
that hold a message. A stale tick after a pop makes `HeadsKnown` the delicate part:
`update_msg_ticks` repairs a tick only at a send, and only because the ring was
empty. Lemma `StepOnRings` reduces the actions to four operations on the rings or
none; each preserves the invariant. Theorems: `RingsSorted`, `HeadsAlwaysKnown`,
and `DeliveredInOrder` (the endpoint implements `IpcQueueSpec`, for any number of
servers, clients, signals and messages up to `MaxTick`).
For the sleepers there is a second invariant, `DutyInv`: a client that waits is the duty of
exactly one party, in this order: its entry in the synchronous ring, the server that has
taken it, and, for a call, the return task, which one server at a time answers
(`RepliesOnce`). `QueuedOnly`, `TakenOnly` and
`OwedOnce` say that no client is two parties' duty; the other parts that its mutex is
locked and its buffer unchanged meanwhile, and that a mutex about to be released is
locked (`Released`). `Resets` says of a mutex that the scheduler is about to reset that no
sender is unblocking its task (all of them have `scheduler_lock`) and that, if the task is a
client, its mutex is still free, so that nobody is about to release it. `Fresh` says that an
entry that is being copied has no return task yet, for which ticks are needed. Steps of
others do not touch a client's duty, and each step of a server hands it on. All this is said
of clients that are not disturbed: a signal or a second reply breaks it. Theorems: `DutyInvariant`, `TypeCorrect`, `SendersNotLost`,
`BuffersAreStable`, `CallsAnswered`, `ReleasesAreLocked`.

**`AssetsProofs`** (assumptions: the kinds of assets are disjoint finite sets, `Root`
is a space, a space has numbers enough for the others). Three invariants build on one
another.
`HandlesStable` speaks of handles in calls, but a release by address takes its second handle
out of a mapping, so `HandleInv` also says that the handle inside a mapping
means the mapping's memory or nothing, and that every handle stored anywhere is at
or below its space's `alloc_uid`. The argument: a step inserts above `alloc_uid`,
removes, or does both (lemmas `InsertKeeps`, `RemoveKeeps`, `MoveKeeps`), so the
handles handed out keep their meaning or lose it (`Kept`), and what was known of a
stored handle is still known (`KeptKnown`).
`LockInv`: the locks that are held are those the contexts' positions say, by the contexts
at them; an asset that is not initialised is locked by its creator, and nothing
that is referred to is unborn. So a lookup that has got the lock of an asset finds it
initialised. `CountInv`: `ref_count` is the number of references, and what is counted is
alive. Each step adds or removes a reference at one place (an entry of a table, a
context's `ref` or `tmp`, a reference inside an asset), which changes the number by one,
and the step's assignment to `count` is that difference; a context deletes an asset only
after its own reference was the last. `NoCircularWait` follows from an order on the locks:
in a circle of waiting contexts take the one that waits for the highest lock; whoever has
that lock waits for a higher one. Spaces come last and, in a move, in the order of their
addresses; only the copy of a space takes them in any order, and `NoCircularWait` lets a
circle go through one (section 5). Theorems: `HandleInvariant`,
`HandlesAreStable`, `NumbersAreKept`, `LockInvariant`, `CountInvariant`,
`UsedInitialised`, `CountsAreExact`, `NothingDangles`, `TypeCorrect`, `LocksAreOrdered`.

**`RingProofs`** (assumptions: `None` is no element, the bounds have their types). The
inductive invariant `RingInv`: an array of no slots has nothing in it; otherwise there are
at least three slots, one of them free, the tail is where the element behind the last one
would be, and every element's slot holds one. That one slot is always free is what makes
`head < tail` a correct test for wrapping: `head = tail` happens only in an empty ring,
which push never grows. The refinement follows action by action: lemmas say which slot an
index has before and after growing (wrapped or not), and the content is the same sequence,
with one element more at the end or one less at the front. Theorems: `RingInvariance`,
`RingRefines`.

**`PmmProofs`** (assumptions: the memory map is a sequence of entries, sizes are positive,
its free entries are in order and do not overlap, and one has room for the structure). The
inductive invariant `PmmInv` has three parts: `Places` (types, and hints inside their
sections), `Held` (each memory that got pages lies in one section, they are disjoint,
`Accounted`, and the reserved pages stay marked, each up to what is `exposed`)
and `Searched`, which says what a search knows half-way: the bits from `start` to `i` are
free, the one before is marked or the search began there, no run that is long enough lies
between the hint and `i`, and none in the sections it has left. The hint alone proves
nothing about what lies before it; the restart from 0 does, and only then may a section be
called exhausted. A section of an unaligned entry ends behind it, but by less than the
alignment, and the next section begins at or after the next multiple: so sections are
disjoint for every map, and so are pages. Theorems: `Invariance`, `PagesExclusive`,
`PagesAccounted`, `AllocationComplete`, and `NothingExposed`: in a map without page 0 a
failed creation clears nothing, the exceptions are empty and no release halts.

**`NvmeProofs`** (assumptions: the constants are numbers of the sort the code computes). The
driver looks at a phase bit, and nothing tells it which command a completion entry is
about. The inductive invariant `RoundInv` therefore follows the controller's two positions
for each position of the driver: between two commands the controller is where the driver
is, and the entries ahead carry the old phase (`AtRest`); during a command it is at most
one slot behind (`Straight`), or two when the driver has passed over the last slot, which
the controller executes, too, in either order (`Around`), and the entry the driver looks at
is then the second of the two. `ProgressInv` says which blocks the commands so far have
moved. The hypothesis `QueuesAlike` (both queues have the same number of entries, more than
one) is a consequence of the sizes: a controller refuses an I/O queue with more than
`max_queue_entries + 1` entries, and `Queue::create` makes none with less than
`max_queue_entries`, in whole pages. `BlocksTransferred` holds for transfers of any place and
length; what it says of the blocks' places is said of `Regular` ones, as in `Transferred`.
Theorems: `RoundInvariant`, `TypeCorrect`,
`ReturnsNotEarly`, `BlocksTransferred`.

**Only model-checked**: liveness (`Progress`, `TryReturns`, `RoundCompletes`,
`WakeUpServed`, `NoStarvation`, `SubmitReturns`), which needs fairness and ENABLED and is
outside what the provers support, and the three violations. All invariants and refinements
that the runs check are proved. Induction over data is not available either (the library's
theorems have an operator as a parameter): where a proof needs it, the models count with
`Cardinality` and the proofs compare sets, or take a least or greatest element of a finite
set of numbers.

## 5. Findings

1. `ipc_receive` tests for a message and blocks in two steps
   (`kernel/generic/ipc.cpp:125`); a send in between unblocks a mutex that is not
   locked yet, and the server sleeps although a message is queued.
   `meta/doc/ipc.md:49,54` promises otherwise.
2. `Ring::resize` moves the upper part of a wrapped ring by assignment into memory that
   was never constructed (`libcore/ds/ring.hpp:93`). The entries of an endpoint's
   synchronous ring hold an `AssetRef`, and its move assignment releases the reference
   the slot seems to hold (`kernel/generic/asset_types.hpp:189-211`). Two pending senders
   in a wrapped ring and a third one are enough. If the memory happens to be zero, nothing
   goes wrong; the order of the elements is right in any case (`Refines`).
3. The NVMe driver places a PRP list by the number of the command, which never wraps, in
   a buffer with one list for each slot (`app/disk/nvme/controller.hpp:436`, `:138`). The
   bounds check above it (`:429`) looks at the length of the list only.

Seen while modelling, and pinned by a property's condition or visible in a run:

* `task_run` takes `scheduler_lock` with interrupts enabled
  (`kernel/generic/scheduler.cpp:204`). Interrupt 100 can switch the task out while
  it owns `_access_lock`; core 0 and all CPUs that need the lock then spin.
  `block_current_task` disables interrupts for exactly this reason (lines 948-951).
  `AccessOwnerLaunches` shows that no other holder is ever switched out. If it happens while
  core 0 is sending interrupts, core 0 spins before it has served the next CPU, and the
  round does not end: `RoundCompletes` fails without its condition.
* `ipc_receive_async` (`ipc.cpp:90`) compares ticks without testing that the
  synchronous ring holds anything, as `ipc_receive` does at line 151, and pops an
  empty ring, which `Ring::pop` declares unreachable. `ipc_safety` reaches that point.
* A signal wakes a client out of `ipc_send` (`ipc.cpp:259`), whose comment says the
  call was answered; its entry, with the address of its buffer, stays queued.
  `Answered` speaks of clients with no signal, and `ipc_safety` attaches none to a client.
* Two tasks of a space can answer one call: `syscalls.cpp:602` finds the return task as
  long as `ipc.cpp:276` has not removed it. The second one writes into a buffer whose
  owner may have gone on, can release a free mutex (`lock.hpp:120-124`), and its removal
  finds no entry (`space.hpp:311`). `ipc_safety` reaches both points.
* `resolve_blocked_tasks_scheduler` tests a mutex and resets it in two steps
  (`scheduler.cpp:341-343`). Whoever is between `try_lock` and `release` of the same mutex
  then releases a free lock. That takes a signal or a second reply: senders unblock servers
  under `scheduler_lock`, which the resolve has for writing, and the others unblock a client
  whose mutex is locked and so is not resolved. `ReleasesLocked` and its mutant
  `resolve_test_unlocked`, where that lock is not needed, show the difference.
* The status of an NVMe command is read from a completion entry, not by command number.
  The slot that the driver passes over is executed by the controller, too (as zeroes,
  a flush), so behind it two commands are under way; finished in the other order, the
  driver reads the flush's status and can take a failed transfer for a good one.
  `Transferred` says that this is the only way a failure goes unnoticed.
* A PRP list for a buffer in the middle of a page has entries that are no page
  boundaries (`controller.hpp:439` adds the space in the first page to the page, not to
  the address). Callers pass such buffers (`app/disk/nvme/server.hpp:59`, `app/fs/ext4/ext4.cpp:41`).
  `Transferred` then only says that the right blocks of the disk had their turn. The test at
  line 430 never succeeds: a command is cut to fit before.
* For controllers with few queue entries the two queues have more entries than the
  controller was told, as `Queue::create` fills whole pages; the model takes the
  driver's counts for both.
* A free entry of the memory map that does not begin at a multiple of 8 pages becomes a
  section that ends behind it (`math/range.hpp:57-63`): the start is rounded up and the
  length, separately, down, although the comment above (lines 53-56) says that the upper
  end is floored. `pmm` has such an entry. The section does not reach the next free one
  (`Exclusive`), but what lies behind the entry need not be free.
* A `create_memory` that finds no pages drops an asset with `allocated` set and address 0
  (`asset.cpp:157-165`), whose destructor releases page 0 and the following ones
  (`asset.cpp:80`). Where a section holds page 0 that clears reserved pages (`pmm.cpp:228`
  keeps them for the start of the other CPUs) or another memory's, which are then handed
  out again, or halts at `pmm.cpp:214`. `Exclusive` and `Accounted` except exactly these
  pages, and `NothingExposed` shows that maps without page 0 are safe.
* `create_memory` with an address passes a size in bytes to `Pmm::own`, which takes pages
  (`asset.cpp`, `pmm.cpp:179`), and `Bitmap::fill` does not look where the bitmap ends:
  bits of the next sections are set as well. Behind the last section the model forgets
  them. These pages are in `stray`; nothing releases them.
* `Ring::resize` of an emptied ring would take it for a wrapped one. Only `push` calls it,
  which then has elements or no array; `RingInv` says why that is enough. The copy
  constructor (`ring.hpp:39`) copies from physical index `i`; nothing copies a ring.
* The comments at `scheduler.cpp:878-904` say a CPU spins on `await_save` without the
  scheduler lock; the read lock is in fact returned only at line 915.
  `SpinnersAreServed` and `RoundCompletes` show that the deadlock the comment fears
  does not follow.
* `fix_sched_affinity` is best effort: after a swap only `old_cpu` is looked at again,
  not `current`, so with three CPUs a task may end on another CPU than its old one.
  `OneHome` and `FixEnds` hold nevertheless.
* `ipc_send` returns with the endpoint locked when the message is not mapped
  (`ipc.cpp:226`). `ipc_safety` takes that path.
* Two contexts that unblock one task at the same time release its mutex twice
  (`blocker.hpp:33`); the second `Lock::release` is declared unreachable. That
  happens only to tasks a signal is attached to or that are answered twice
  (`ReleasesLocked`).
* `asset_copy` of a space locks the space as an asset and then the destination: a copy
  into the space itself waits for its own lock, and two copies take two spaces in opposite
  orders. `assets` contains both; `NoCircularWait` says that every circle contains such a
  copy. No program in the repository sends a copy of a space.
* Two releases of one handle, or a release and a move, end in `unreachable$()`
  (`space.hpp:311`), and so does a release by address of a mapping whose memory was
  moved: the caller's lookup succeeded, the removal did not.
* `ksyscall_asset_move` ignores the flag `copy` that `wingos-headers/syscalls.h:196`
  documents: it always moves.
* A memory whose size is no multiple of 4096 gets its pages rounded up and gives
  them back rounded down (`asset.cpp:80,154`). `Accounted` says that nothing else is
  lost.
* With two servers on one endpoint, `awaiting_server` has room for one, and the slower one
  finds both rings empty and returns an error (`ipc.cpp:139,157`), which the system call
  layer answers by stopping all CPUs.
* `task_run` has no guard against a task that is already launched (`scheduler.cpp:189`);
  the model launches each task once, as the kernel does.

## 6. Plan

The order follows what the rest of the kernel relies on. Done: the lock, the
scheduler, its policy, the endpoint, assets and spaces, the ring, physical memory, the
transfers of the NVMe driver, and a proof module for each of them.

1. *Further proofs*: what `Scheduler` takes from `SchedPolicy` and `Ipc` from `Scheduler`
   as refinements of one abstract specification each, instead of by name.
2. *Signals*: await, attach, detach, the counter and the interrupt table; the
   lock that the handler shares with the task it interrupts.
3. *Assets, the rest*: `create_space` and `create_task`, server numbers of the registry,
   return tasks and the error paths of `ipc_receive`. Abstract specification: the rights
   (space, asset) that calls grant and take.
4. *Paging*: map and unmap of ranges with page tables of several levels, against the
   function from pages to frames.

## 7. Not modelled, and why

* *CPU tree, start-up, loader*: straight-line code that runs once on one CPU;
  `query_nearest_task` is always called without sibling CPUs.
* *Paging and virtual memory*: page tables are hardware state; what a fault does is
  outside the code.
* *Contents of contexts, messages and ELF images*: no property depends on them.
* *System calls*: decoding of arguments; the operations they call are modelled. An
  error stops the machine (interrupt 102), so there is nothing after it.
* *NVMe start-up*: register writes in one order on one CPU; identify and namespaces read
  what the controller answers.
* *Hardware drivers, sanitizers, libraries, other user-space services, third-party code*:
  register access, sequential code with tests under `tests/`, or clients of the
  kernel's interface.
* *Call-site bookkeeping of `SRWLock`* and its unused
  `try_write_acquire_interrupt_disabled`.
* *Most of the repository by lines*: more than half is one font table
  (`app/terminal/ascii_font.h`), and much of the rest is the C and mathematics library, user
  interface and drivers. The models cover the files of the table in section 1.
* *Weak memory*: steps are sequentially consistent. The counters of the lock,
  `await_save` and `blocked_task_dirty` are `std::atomic`, and the spin lock is
  fenced with `__ATOMIC_SEQ_CST`.
