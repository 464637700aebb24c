-------------------------------- MODULE Ipc --------------------------------
(***************************************************************************)
(* One IPC endpoint (src/src/kernel/generic/ipc.cpp, ipc_asset.hpp): its   *)
(* two rings and their ticks, servers that receive, poll and reply, clients*)
(* that send, call and send asynchronously, and signals that wake tasks    *)
(* out of all of these (signal.cpp).                                       *)
(*                                                                         *)
(* A step between endpoint.lock() and endpoint.unlock() is merged with its *)
(* neighbours when everybody who looks at what it changes takes that lock; *)
(* elock is the owner where the lock is held over several steps.  Blocking *)
(* is the BlockMutex of the task (blocker.hpp): a task in                  *)
(* block_current_task goes on when its mutex is free, which is what module *)
(* Scheduler makes of it (WakeUpServed), and every task may be preempted   *)
(* between any two steps.  What the scheduler does to that mutex on the    *)
(* way is here, too: resolve_blocked_tasks_scheduler resets it.  A message *)
(* is known by its tick; the assets it may carry are left out.             *)
(***************************************************************************)
EXTENDS Integers, Sequences, FiniteSets

CONSTANTS Servers,   \* tasks that receive on the endpoint
          Clients,   \* tasks that send to it
          Pollers,   \* the servers that call ipc_receive_async, too
          Attached,  \* tasks with an asynchronous waiter on a signal
          Unmapped,  \* clients that may pass a message that is not mapped
          Irq,       \* the interrupt handler that triggers signals
          NoTask,
          LONG_MAX,
          MaxTick    \* bound: no message is sent at a later tick

Tasks == Servers \cup Clients
Contexts == Tasks \cup {Irq}

ASSUME ContextAssumption ==
    /\ Irq \notin Tasks /\ NoTask \notin Contexts
    /\ Pollers \subseteq Servers /\ Unmapped \subseteq Clients /\ Attached \subseteq Tasks
ASSUME TickAssumption == MaxTick \in Nat /\ LONG_MAX \in Nat /\ MaxTick < LONG_MAX

VARIABLES
    tick,                    \* IpcEndpoint::tick
    async_queue,             \* the ticks of the queued asynchronous messages
    sync_queue,              \* the queued IpcSyncMsgEntry records
    last_async, last_sync,   \* last_async_msg_tick, last_sync_msg_tick
    awaiting_server,
    elock,                   \* the owner of the endpoint's lock
    mutex,                   \* sched().mutex of every task is locked
    signaled,                \* AssetTask::signaled
    buf,                     \* what the client's message buffer holds
    pc,                      \* where each context is
    kind,                    \* which send a client makes
    entry,                   \* a server's local sync_entry or return_task
    wakee,                   \* the task whose mutex is being released
    owed,                    \* the calls whose return tasks the servers' space has
    twice,                   \* the clients one of whose calls two servers answered at once
    resolving                \* the task whose mutex the scheduler is about to reset

queue == <<tick, async_queue, sync_queue, last_async, last_sync>>
local == <<kind, entry, wakee, owed, twice>>
vars  == <<queue, awaiting_server, elock, mutex, signaled, buf, pc, local, resolving>>

Entries == [callee : Clients, is_call : BOOLEAN, tick : Nat]

Points == {"idle", "s_block", "s_wake", "s_try", "s_rel", "s_unlock", "s_sleep",
           "r_check", "r_block", "r_sleep", "r_take", "r_copy", "r_try", "r_rel",
           "r_unlock", "a_take", "p_write", "p_try", "p_rel", "p_release", "g_try", "g_rel",
           "pop_unreachable", "release_unreachable", "remove_unreachable"}

\* A buffer with no message, or with a reply, in it.
NoMsg == 0

TypeOK ==
    /\ tick \in Nat /\ async_queue \in Seq(Nat) /\ sync_queue \in Seq(Entries)
    /\ last_async \in Nat /\ last_sync \in Nat
    /\ awaiting_server \in Servers \cup {NoTask} /\ elock \in Tasks \cup {NoTask}
    /\ mutex \in [Tasks -> BOOLEAN] /\ signaled \in [Tasks -> BOOLEAN]
    /\ buf \in [Clients -> Nat]
    /\ pc \in [Contexts -> Points]
    /\ kind \in [Clients -> {"send", "call", "async"}]
    /\ entry \in [Servers -> Entries \cup {NoTask}]
    /\ wakee \in [Contexts -> Tasks \cup {NoTask}]
    /\ owed \subseteq Entries /\ twice \subseteq Clients
    /\ resolving \in Tasks \cup {NoTask}

Init ==
    /\ tick = 1 /\ async_queue = <<>> /\ sync_queue = <<>>
    /\ last_async = LONG_MAX /\ last_sync = LONG_MAX
    /\ awaiting_server = NoTask /\ elock = NoTask
    /\ mutex = [t \in Tasks |-> FALSE] /\ signaled = [t \in Tasks |-> FALSE]
    /\ buf = [c \in Clients |-> NoMsg]
    /\ pc = [x \in Contexts |-> "idle"] /\ kind = [c \in Clients |-> "async"]
    /\ entry = [s \in Servers |-> NoTask]
    /\ wakee = [x \in Contexts |-> NoTask] /\ owed = {} /\ twice = {}
    /\ resolving = NoTask

Goto(x, from, to) == pc[x] = from /\ pc' = [pc EXCEPT ![x] = to]

\* The endpoint's lock can be had.
Unlocked == elock = NoTask

has_message == async_queue # <<>> \/ sync_queue # <<>>

\* update_msg_ticks, for the queues after the step
update_msg_ticks ==
    /\ last_async' = IF async_queue' # <<>> THEN Head(async_queue') ELSE LONG_MAX
    /\ last_sync' = IF sync_queue' # <<>> THEN Head(sync_queue').tick ELSE LONG_MAX

-----------------------------------------------------------------------------
(* BlockMutex *)

\* mutex_acquire, by the task itself
mutex_acquire(t) == ~ mutex[t] /\ mutex' = [mutex EXCEPT ![t] = TRUE]

\* mutex_release: after its try_lock the mutex is locked, whether it was
\* before or not; ...
mutex_release_try(x) ==
    /\ \/ Goto(x, "s_try", "s_rel") \/ Goto(x, "r_try", "r_rel")
       \/ Goto(x, "p_try", "p_rel") \/ Goto(x, "g_try", "g_rel")
    /\ mutex' = [mutex EXCEPT ![wakee[x]] = TRUE]
    /\ UNCHANGED <<queue, awaiting_server, elock, signaled, buf, local, resolving>>

\* ... then it calls Lock::release, ...
mutex_release(x) ==
    /\ \/ Goto(x, "s_rel", "s_unlock") \/ Goto(x, "r_rel", "r_unlock")
       \/ Goto(x, "p_rel", "p_release") \/ Goto(x, "g_rel", "idle")
    /\ mutex[wakee[x]]
    /\ mutex' = [mutex EXCEPT ![wakee[x]] = FALSE]
    /\ UNCHANGED <<queue, awaiting_server, elock, signaled, buf, local, resolving>>

\* ... which calls a lock that is not locked unreachable.
mutex_release_unlocked(x) ==
    /\ pc[x] \in {"s_rel", "r_rel", "p_rel", "g_rel"} /\ ~ mutex[wakee[x]]
    /\ pc' = [pc EXCEPT ![x] = "release_unreachable"]
    /\ UNCHANGED <<queue, awaiting_server, elock, mutex, signaled, buf, local, resolving>>

\* Client c has scheduler_lock: it is between try_disable_scheduler and
\* reenable_scheduler.  (One that stops there in unreachable keeps it, and no
\* task is resolved any more; that resolves go on is one behaviour too many.)
Disables(c) ==
    \/ pc[c] \in {"s_try", "s_rel", "s_unlock"}
    \/ pc[c] = "s_wake" /\ kind[c] # "async"

\* Mutant of resolve_test: scheduler_lock is not needed.
resolve_test_unlocked(t) ==
    /\ resolving = NoTask
    /\ pc[t] \in {"s_sleep", "r_sleep"} /\ ~ mutex[t]
    /\ resolving' = t
    /\ UNCHANGED <<queue, awaiting_server, elock, mutex, signaled, buf, pc, local>>

\* resolve_blocked_tasks_scheduler, which has scheduler_lock for writing, finds
\* the mutex of a sleeping task free ...
resolve_test(t) ==
    /\ resolving = NoTask /\ \A c \in Clients : ~ Disables(c)
    /\ pc[t] \in {"s_sleep", "r_sleep"} /\ ~ mutex[t]
    /\ resolving' = t
    /\ UNCHANGED <<queue, awaiting_server, elock, mutex, signaled, buf, pc, local>>

\* ... and assigns mutex = {}, whoever has locked it since.
resolve_reset ==
    /\ resolving # NoTask
    /\ mutex' = [mutex EXCEPT ![resolving] = FALSE]
    /\ resolving' = NoTask
    /\ UNCHANGED <<queue, awaiting_server, elock, signaled, buf, pc, local>>

-----------------------------------------------------------------------------
(* ipc_send (send and call) and ipc_send_async *)

\* The endpoint is locked and the message queued.  A synchronous message stays
\* in the client's buffer, of which the entry holds the address.
ipc_send(c, k) ==
    /\ Goto(c, "idle", "s_block")
    /\ Unlocked /\ tick <= MaxTick
    /\ elock' = c
    /\ kind' = [kind EXCEPT ![c] = k]
    /\ buf' = [buf EXCEPT ![c] = tick]
    /\ sync_queue' = Append(sync_queue, [callee |-> c, is_call |-> k = "call", tick |-> tick])
    /\ async_queue' = async_queue
    /\ update_msg_ticks
    /\ tick' = tick + 1
    /\ UNCHANGED <<awaiting_server, mutex, signaled, entry, wakee, owed, twice, resolving>>

\* When get_phys finds no page ipc_send returns, the endpoint still locked.
ipc_send_unmapped(c) ==
    /\ c \in Unmapped /\ pc[c] = "idle"
    /\ Unlocked
    /\ elock' = c
    /\ UNCHANGED <<queue, awaiting_server, mutex, signaled, buf, pc, local, resolving>>

ipc_send_async(c) ==
    /\ Goto(c, "idle", "s_wake")
    /\ Unlocked /\ tick <= MaxTick
    /\ elock' = c
    /\ kind' = [kind EXCEPT ![c] = "async"]
    /\ async_queue' = Append(async_queue, tick)
    /\ sync_queue' = sync_queue
    /\ update_msg_ticks
    /\ tick' = tick + 1
    /\ UNCHANGED <<awaiting_server, mutex, signaled, buf, entry, wakee, owed, twice, resolving>>

\* Mutant of send_block: the sender does not block itself.
send_block_skipped(c) ==
    /\ Goto(c, "s_block", "s_wake")
    /\ UNCHANGED <<queue, awaiting_server, elock, mutex, signaled, buf, local, resolving>>

\* With the scheduler disabled (try_disable_scheduler waits for a resolve under
\* way) a synchronous sender blocks itself, ...
send_block(c) ==
    /\ Goto(c, "s_block", "s_wake")
    /\ resolving = NoTask
    /\ mutex_acquire(c)
    /\ UNCHANGED <<queue, awaiting_server, elock, signaled, buf, local, resolving>>

\* ... unblocks the server that awaits a message, if there is one, as an
\* asynchronous one does with the scheduler disabled, ...
send_wake(c) ==
    /\ resolving = NoTask
    /\ Goto(c, "s_wake", IF awaiting_server = NoTask THEN "s_unlock" ELSE "s_try")
    /\ wakee' = [wakee EXCEPT ![c] = awaiting_server]
    /\ UNCHANGED <<queue, awaiting_server, elock, mutex, signaled, buf, kind, entry, owed,
                   twice, resolving>>

\* ... and unlocks the endpoint; a synchronous sender goes to sleep.
send_unlock(c) ==
    /\ Goto(c, "s_unlock", IF kind[c] = "async" THEN "idle" ELSE "s_sleep")
    /\ elock' = NoTask
    /\ wakee' = [wakee EXCEPT ![c] = NoTask]
    /\ UNCHANGED <<queue, awaiting_server, mutex, signaled, buf, kind, entry, owed, twice,
                   resolving>>

\* block_current_task returns, and with it ipc_send.
send_return(c) ==
    /\ Goto(c, "s_sleep", "idle")
    /\ ~ mutex[c] /\ resolving # c
    /\ kind' = [kind EXCEPT ![c] = "async"]
    /\ UNCHANGED <<queue, awaiting_server, elock, mutex, signaled, buf, entry, wakee, owed,
                   twice, resolving>>

-----------------------------------------------------------------------------
(* ipc_receive *)

ipc_receive(s) ==
    /\ Goto(s, "idle", "r_check")
    /\ Unlocked
    /\ awaiting_server' = s
    /\ UNCHANGED <<queue, elock, mutex, signaled, buf, local, resolving>>

\* The loop: no message and no signal ...
receive_check(s) ==
    /\ Unlocked
    /\ Goto(s, "r_check", IF has_message \/ signaled[s] THEN "r_take" ELSE "r_block")
    /\ UNCHANGED <<queue, awaiting_server, elock, mutex, signaled, buf, local, resolving>>

\* ... means block() and block_current_task(), which returns once the mutex is
\* free again.
receive_block(s) ==
    /\ Goto(s, "r_block", "r_sleep")
    /\ mutex_acquire(s)
    /\ UNCHANGED <<queue, awaiting_server, elock, signaled, buf, local, resolving>>

receive_wake(s) ==
    /\ Goto(s, "r_sleep", "r_check")
    /\ ~ mutex[s] /\ resolving # s
    /\ UNCHANGED <<queue, awaiting_server, elock, mutex, signaled, buf, local, resolving>>

\* A signal interrupts the receive.
receive_interrupted(s) ==
    /\ Goto(s, "r_take", "idle")
    /\ Unlocked /\ signaled[s]
    /\ awaiting_server' = NoTask
    /\ signaled' = [signaled EXCEPT ![s] = FALSE]
    /\ UNCHANGED <<queue, elock, mutex, buf, kind, entry, wakee, owed, twice, resolving>>

\* Mutant of pop_async: the tick of the new head is not recorded.
pop_async_stale ==
    /\ async_queue' = Tail(async_queue)
    /\ UNCHANGED <<tick, sync_queue, last_async, last_sync>>

\* Pops of the two rings: the tick of the new head is recorded, and left as it
\* is when the ring is now empty.
pop_async ==
    /\ async_queue' = Tail(async_queue)
    /\ last_async' = IF async_queue' # <<>> THEN Head(async_queue') ELSE last_async
    /\ UNCHANGED <<tick, sync_queue, last_sync>>

pop_sync(s) ==
    /\ entry' = [entry EXCEPT ![s] = Head(sync_queue)]
    /\ sync_queue' = Tail(sync_queue)
    /\ last_sync' = IF sync_queue' # <<>> THEN Head(sync_queue').tick ELSE last_sync
    /\ UNCHANGED <<tick, async_queue, last_async>>

\* Which ring ipc_receive takes from
async_first == last_async < last_sync /\ async_queue # <<>>

\* Mutant of take_async: asynchronous messages always go first.
take_async_always == async_queue # <<>> \/ sync_queue = <<>>

take_async == async_first \/ sync_queue = <<>>

receive_async_message(s) ==
    /\ Goto(s, "r_take", "idle")
    /\ Unlocked /\ ~ signaled[s] /\ take_async /\ async_queue # <<>>
    /\ awaiting_server' = NoTask
    /\ pop_async
    /\ UNCHANGED <<elock, mutex, signaled, buf, kind, entry, wakee, owed, twice, resolving>>

\* Another server was faster: an error is returned.
receive_nothing(s) ==
    /\ Goto(s, "r_take", "idle")
    /\ Unlocked /\ ~ signaled[s] /\ take_async /\ async_queue = <<>>
    /\ awaiting_server' = NoTask
    /\ UNCHANGED <<queue, elock, mutex, signaled, buf, local, resolving>>

receive_sync_message(s) ==
    /\ Goto(s, "r_take", "r_copy")
    /\ Unlocked /\ ~ signaled[s] /\ ~ take_async
    /\ awaiting_server' = NoTask
    /\ elock' = s
    /\ pop_sync(s)
    /\ UNCHANGED <<mutex, signaled, buf, kind, wakee, owed, twice, resolving>>

\* Mutants of receive_copy: no return task is made for a call, or its caller
\* is unblocked like a sender.
receive_copy_forgets(s) ==
    /\ Goto(s, "r_copy", IF entry[s].is_call THEN "r_unlock" ELSE "r_try")
    /\ wakee' = [wakee EXCEPT ![s] = entry[s].callee]
    /\ UNCHANGED <<queue, awaiting_server, elock, mutex, signaled, buf, kind, entry, owed,
                   twice, resolving>>

receive_copy_unblocks(s) ==
    /\ Goto(s, "r_copy", "r_try")
    /\ owed' = IF entry[s].is_call THEN owed \cup {entry[s]} ELSE owed
    /\ wakee' = [wakee EXCEPT ![s] = entry[s].callee]
    /\ UNCHANGED <<queue, awaiting_server, elock, mutex, signaled, buf, kind, entry, twice,
                   resolving>>

\* The message is moved out of the client's buffer.  A caller waits on for its
\* reply, a sender is unblocked.
receive_copy(s) ==
    /\ Goto(s, "r_copy", IF entry[s].is_call THEN "r_unlock" ELSE "r_try")
    /\ owed' = IF entry[s].is_call THEN owed \cup {entry[s]} ELSE owed
    /\ wakee' = [wakee EXCEPT ![s] = entry[s].callee]
    /\ UNCHANGED <<queue, awaiting_server, elock, mutex, signaled, buf, kind, entry, twice,
                   resolving>>

receive_unlock(s) ==
    /\ Goto(s, "r_unlock", "idle")
    /\ elock' = NoTask
    /\ entry' = [entry EXCEPT ![s] = NoTask] /\ wakee' = [wakee EXCEPT ![s] = NoTask]
    /\ UNCHANGED <<queue, awaiting_server, mutex, signaled, buf, kind, owed, twice, resolving>>

-----------------------------------------------------------------------------
(* ipc_receive_async *)

\* With nothing queued it returns at once.
ipc_receive_async(s) ==
    /\ s \in Pollers
    /\ Unlocked /\ has_message
    /\ Goto(s, "idle", "a_take")
    /\ UNCHANGED <<queue, awaiting_server, elock, mutex, signaled, buf, local, resolving>>

poll_async_message(s) ==
    /\ Goto(s, "a_take", "idle")
    /\ Unlocked /\ async_first
    /\ pop_async
    /\ UNCHANGED <<awaiting_server, elock, mutex, signaled, buf, kind, entry, wakee, owed,
                   twice, resolving>>

poll_nothing(s) ==
    /\ Goto(s, "a_take", "idle")
    /\ Unlocked /\ ~ has_message
    /\ UNCHANGED <<queue, awaiting_server, elock, mutex, signaled, buf, local, resolving>>

poll_sync_message(s) ==
    /\ Goto(s, "a_take", "r_copy")
    /\ Unlocked /\ ~ async_first /\ sync_queue # <<>>
    /\ elock' = s
    /\ pop_sync(s)
    /\ UNCHANGED <<awaiting_server, mutex, signaled, buf, kind, wakee, owed, twice, resolving>>

\* Ring::pop of an empty ring is called unreachable.
poll_empty_ring(s) ==
    /\ Goto(s, "a_take", "pop_unreachable")
    /\ Unlocked /\ ~ async_first /\ sync_queue = <<>> /\ async_queue # <<>>
    /\ elock' = s
    /\ UNCHANGED <<queue, awaiting_server, mutex, signaled, buf, local, resolving>>

-----------------------------------------------------------------------------
(* ipc_reply, and signal_trigger *)

Replies == {"p_write", "p_try", "p_rel", "p_release"}

\* The return task is looked up; it stays in the space, where another server can
\* still find it, until the end of ipc_reply.
reply_look_up(s, e) ==
    /\ e \in owed
    /\ Goto(s, "idle", "p_write")
    /\ entry' = [entry EXCEPT ![s] = e]
    /\ twice' = IF \E t \in Servers : pc[t] \in Replies /\ entry[t] = e
                THEN twice \cup {e.callee} ELSE twice
    /\ UNCHANGED <<queue, awaiting_server, elock, mutex, signaled, buf, kind, wakee, owed,
                   resolving>>

\* The reply is written into the caller's buffer, the caller unblocked, ...
ipc_reply(s) ==
    /\ Goto(s, "p_write", "p_try")
    /\ buf' = [buf EXCEPT ![entry[s].callee] = NoMsg]
    /\ wakee' = [wakee EXCEPT ![s] = entry[s].callee]
    /\ UNCHANGED <<queue, awaiting_server, elock, mutex, signaled, kind, entry, owed,
                   twice, resolving>>

\* ... and the return task released: _asset_remove calls a handle that is not in
\* the space any more unreachable.
reply_release(s) ==
    /\ Goto(s, "p_release", IF entry[s] \in owed THEN "idle" ELSE "remove_unreachable")
    /\ owed' = owed \ {entry[s]}
    /\ entry' = [entry EXCEPT ![s] = NoTask] /\ wakee' = [wakee EXCEPT ![s] = NoTask]
    /\ UNCHANGED <<queue, awaiting_server, elock, mutex, signaled, buf, kind, twice, resolving>>

\* An asynchronous waiter stays registered: it may be triggered again.
signal_trigger(t) ==
    /\ Goto(Irq, "idle", "g_try")
    /\ signaled' = [signaled EXCEPT ![t] = TRUE]
    /\ wakee' = [wakee EXCEPT ![Irq] = t]
    /\ UNCHANGED <<queue, awaiting_server, elock, mutex, buf, kind, entry, owed, twice,
                   resolving>>

-----------------------------------------------------------------------------
Send(c) ==
    \/ \E k \in {"send", "call"} : ipc_send(c, k)
    \/ ipc_send_unmapped(c) \/ ipc_send_async(c) \/ send_block(c) \/ send_wake(c)
    \/ send_unlock(c) \/ send_return(c)

Receive(s) ==
    \/ ipc_receive(s) \/ receive_check(s) \/ receive_block(s) \/ receive_wake(s)
    \/ receive_interrupted(s) \/ receive_async_message(s) \/ receive_nothing(s)
    \/ receive_sync_message(s) \/ receive_copy(s) \/ receive_unlock(s)
    \/ ipc_receive_async(s) \/ poll_async_message(s) \/ poll_nothing(s)
    \/ poll_sync_message(s) \/ poll_empty_ring(s)

Reply(s) == (\E e \in owed : reply_look_up(s, e)) \/ ipc_reply(s) \/ reply_release(s)

Next ==
    \/ \E c \in Clients : Send(c)
    \/ \E s \in Servers : Receive(s) \/ Reply(s)
    \/ \E t \in Attached : signal_trigger(t)
    \/ (\E t \in Tasks : resolve_test(t)) \/ resolve_reset
    \/ \E x \in Contexts : mutex_release_try(x) \/ mutex_release(x) \/ mutex_release_unlocked(x)

Spec == Init /\ [][Next]_vars

-----------------------------------------------------------------------------
(* Properties *)

Ticks(q) == {q[i].tick : i \in DOMAIN q}
Queued == {sync_queue[i].callee : i \in DOMAIN sync_queue}

\* The two rings with their ticks work as one queue: every message accepted is
\* received once, in the order in which the endpoint accepted them, whatever
\* mixture of sends, receives and polls is under way.
Queue == INSTANCE IpcQueueSpec
            WITH pending <- {async_queue[i] : i \in DOMAIN async_queue} \cup Ticks(sync_queue),
                 clock <- tick
InOrder == Queue!Spec

\* The recorded ticks are those of the heads whenever both rings are in use
\* (the pops leave a stale tick behind when they empty a ring, and only sends
\* repair it).
HeadsKnown ==
    /\ async_queue # <<>> => last_async = Head(async_queue)
    /\ sync_queue # <<>> => last_sync = Head(sync_queue).tick

\* The server that is taking client c's message out of the rings
Taking(s, c) == pc[s] \in {"r_copy", "r_try", "r_rel"} /\ entry[s].callee = c

\* The tasks that others may unblock than the one party whose turn it is: a
\* signal (signal.cpp), or the second of two servers that answer one call
\* (syscalls.cpp:602 finds the return task as long as ipc.cpp:276 has not
\* removed it).
Disturbed == Attached \cup twice

\* A client that sleeps in ipc_send with its mutex locked has someone to wake
\* it: its message is queued, or a server is about to unblock it, or it is owed
\* a reply.  (A client that is unblocked by others, too, may also find its mutex
\* locked by their mutex_release.)
NoLostSender == \A c \in Clients \ Disturbed :
    pc[c] = "s_sleep" /\ mutex[c] =>
        c \in Queued \/ (\E s \in Servers : Taking(s, c)) \/ \E e \in owed : e.callee = c

\* As long as a synchronous message is queued, or popped and not yet copied,
\* its client is inside ipc_send and its buffer holds that message: the
\* address kept in the entry stays good, unless the client is disturbed.
BuffersStable ==
    LET good(e) == e.callee \in Disturbed \/
                   /\ buf[e.callee] = e.tick
                   /\ pc[e.callee] \in {"s_block", "s_wake", "s_try", "s_rel", "s_unlock", "s_sleep",
                                         "release_unreachable"}
    IN  /\ \A i \in DOMAIN sync_queue : good(sync_queue[i])
        /\ \A s \in Servers : pc[s] = "r_copy" => good(entry[s])

\* "If we are here, the call responded / was acquired" (ipc.cpp:262): ipc_send
\* returns only when the message was taken and, for a call, answered - to a
\* client that is not disturbed.
Answered == \A c \in Clients \ Disturbed :
    pc[c] = "s_sleep" /\ ~ mutex[c] =>
        /\ c \notin Queued
        /\ \A e \in owed : e.callee = c =>
              \E s \in Servers : pc[s] = "p_release" /\ entry[s] = e

\* Lock::release finds its lock locked (lock.hpp:120-124), although sends,
\* receives, replies and the reset of resolve_blocked_tasks_scheduler work on
\* the mutex of one task at a time of their own choosing: the release of a free
\* lock takes a task that a signal unblocks, or a call that is answered twice.
\* In particular two senders that unblock one server do not meet the reset,
\* since all of them have scheduler_lock.
ReleasesLocked == \A x \in Contexts :
    pc[x] = "release_unreachable" => wakee[x] \in Disturbed

\* A context in the middle of a send will unblock server s.
WillWake(s) == \E c \in Clients :
    \/ pc[c] \in {"s_block", "s_wake"} /\ awaiting_server = s
    \/ pc[c] \in {"s_try", "s_rel"} /\ wakee[c] = s

\* A send wakes up a receiver that sleeps (ipc.md:48-54): a server does not
\* sleep on while a message is queued.
ReceiverAwake == \A s \in Servers :
    pc[s] = "r_sleep" /\ mutex[s] /\ has_message => WillWake(s)
=============================================================================
