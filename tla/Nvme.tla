-------------------------------- MODULE Nvme --------------------------------
(***************************************************************************)
(* The NVMe driver (src/src/app/disk/nvme/controller.hpp): read_write_ptr  *)
(* cuts a transfer into commands, and nvme_await_submit hands each of them *)
(* to the controller through a submission and a completion queue and spins *)
(* for the answer.  The controller, which is not part of the source, takes *)
(* every slot up to the tail doorbell, works on several commands at once   *)
(* and may finish them in any order.                                       *)
(*                                                                         *)
(* The unit of an address, of the disk and of memory, is a block.  Nothing *)
(* the driver does before it rings the doorbell can be seen by the         *)
(* controller, so that is one step.                                        *)
(***************************************************************************)
EXTENDS Integers, FiniteSets

CONSTANTS Slots,         \* queue_slots, from the controller's capabilities
          SqPerPage, CqPerPage,   \* entries of the two queues in a page
          BlocksPerPage,
          Rpgs,          \* max_phys_rpgs: entries of a PRP list
          MaxTransfer,   \* max_transfer, in blocks
          Requests,      \* bound: [lba, buf, nlb], the transfers asked for
          MaxCid         \* bound: no transfer begins after this many commands

\* Queue::create: the entries fill whole pages.
Count(perPage) == ((Slots + perPage - 1) \div perPage) * perPage
SqCount == Count(SqPerPage)
CqCount == Count(CqPerPage)

\* max_nlb_per_cmd
MaxNlb == IF Rpgs * BlocksPerPage < MaxTransfer THEN Rpgs * BlocksPerPage ELSE MaxTransfer

ASSUME NvmeAssumption ==
    /\ Slots \in Nat \ {0} /\ SqPerPage \in Nat \ {0} /\ CqPerPage \in Nat \ {0}
    /\ BlocksPerPage \in Nat \ {0} /\ Rpgs \in Nat \ {0} /\ MaxTransfer \in Nat \ {0}
    /\ Requests \subseteq [lba : Nat, buf : Nat, nlb : Nat \ {0}]
    /\ MaxCid \in Nat

VARIABLES
    sq, cq,              \* the queues in memory
    sq_tail, cq_tail,    \* Queue::tail of the two
    phase, cid,          \* Queues::phase and cid
    slot,                \* the completion entry the driver waits for
    pc,                  \* "idle", "next", "wait", "ok" or "failed"
    req,                 \* the transfer under way
    done,                \* blocks of it that are behind us
    list_end,            \* one behind the last entry of pgs_reg written
    shared,              \* history: cids submitted right behind a slot passed over
    sq_doorbell, cq_doorbell,             \* the controller's registers
    dev_head, dev_tail, dev_phase,        \* where it is in the two queues
    running,             \* commands it has fetched
    executed,            \* cids of the commands it has finished
    errors,              \* cids of those that failed, since req began
    moved                \* <<disk block, memory block>> it has moved for req

driver == <<sq, sq_tail, cq_tail, phase, cid, slot, pc, req, done, list_end, shared, sq_doorbell, cq_doorbell>>
device == <<cq, dev_head, dev_tail, dev_phase, running, executed, errors, moved>>
vars == <<driver, device>>

\* A slot that was never written: memset left zeroes, a command that moves
\* nothing.
NoCmd == [cid |-> -1, blocks |-> {}]

NoReq == [lba |-> 0, buf |-> 0, nlb |-> 0]

TypeOK ==
    /\ sq_tail \in 0 .. SqCount - 1 /\ cq_tail \in 0 .. CqCount - 1 /\ slot \in 0 .. CqCount - 1
    /\ phase \in {0, 1} /\ dev_phase \in {0, 1} /\ cid \in Nat
    /\ sq_doorbell \in 0 .. SqCount - 1 /\ cq_doorbell \in 0 .. CqCount - 1
    /\ dev_head \in 0 .. SqCount - 1 /\ dev_tail \in 0 .. CqCount - 1
    /\ pc \in {"idle", "next", "wait", "ok", "failed"}

\* create_queues; the controller starts with a phase of 1.
Init ==
    /\ sq = [k \in 0 .. SqCount - 1 |-> NoCmd]
    /\ cq = [k \in 0 .. CqCount - 1 |-> [phase |-> 0, status |-> 0]]
    /\ sq_tail = 0 /\ cq_tail = 0 /\ phase = 1 /\ cid = 0 /\ slot = 0
    /\ pc = "idle" /\ req = NoReq /\ done = 0 /\ list_end = 0 /\ shared = {}
    /\ sq_doorbell = 0 /\ cq_doorbell = 0 /\ dev_head = 0 /\ dev_tail = 0 /\ dev_phase = 1
    /\ running = {} /\ executed = {} /\ errors = {} /\ moved = {}

-----------------------------------------------------------------------------
(* Queue *)

\* Mutant of will_loop: an off-by-one.
will_loop_late(tail, count) == tail + 1 > count

will_loop(tail, count) == tail + 1 >= count

\* Mutant of Allocated: the last slot is used, too.
Allocated_all(tail, count) == tail

\* allocate: the slot that is returned; the last one of the queue never is.
Allocated(tail, count) == IF will_loop(tail, count) THEN 0 ELSE tail

-----------------------------------------------------------------------------
(* read_write_ptr *)

read_write_ptr(r) ==
    /\ pc = "idle" /\ cid < MaxCid
    /\ pc' = "next" /\ req' = r /\ done' = 0
    /\ moved' = {} /\ errors' = {}
    /\ UNCHANGED <<sq, sq_tail, cq_tail, phase, cid, slot, list_end, shared, sq_doorbell, cq_doorbell>>
    /\ UNCHANGED <<cq, dev_head, dev_tail, dev_phase, running, executed>>

\* The next command: the blocks it moves, and where its memory begins
BlkCount == IF req.nlb - done < MaxNlb THEN req.nlb - done ELSE MaxNlb
Buffer == req.buf + done

Page == (Buffer \div BlocksPerPage) * BlocksPerPage
SpaceInFirstPage == BlocksPerPage - (Buffer % BlocksPerPage)
NeedList == BlkCount > SpaceInFirstPage + BlocksPerPage
PrpCount == (BlkCount - SpaceInFirstPage + BlocksPerPage - 1) \div BlocksPerPage

\* Where page j of the rest is: PRP2, or entry j of the list
Entry(j) == IF NeedList THEN Page + SpaceInFirstPage + j * BlocksPerPage ELSE Page + BlocksPerPage

\* The memory block in which the controller puts block i of the command
MemoryOf(i) ==
    IF i < SpaceInFirstPage THEN Buffer + i
    ELSE Entry((i - SpaceInFirstPage) \div BlocksPerPage) + ((i - SpaceInFirstPage) % BlocksPerPage)

\* Mutant of Blocks: a later command begins again at the first block.
Blocks_again == {<<req.lba + i, MemoryOf(i)>> : i \in 0 .. BlkCount - 1}

Blocks == {<<req.lba + done + i, MemoryOf(i)>> : i \in 0 .. BlkCount - 1}

\* The command is made, and nvme_await_submit puts it in the queue and rings.
\* (The test prp_count > max_phys_rpgs, which refuses a list, never succeeds:
\* BlkCount <= Rpgs * BlocksPerPage, and a block at least is in the first page.)
nvme_await_submit ==
    /\ pc = "next"
    /\ list_end' = IF NeedList THEN cid * Rpgs + PrpCount ELSE list_end
    /\ phase' = IF will_loop(cq_tail, CqCount) THEN 1 - phase ELSE phase
    /\ sq' = [sq EXCEPT ![Allocated(sq_tail, SqCount)] = [cid |-> cid, blocks |-> Blocks]]
    /\ slot' = Allocated(cq_tail, CqCount)
    /\ sq_tail' = (Allocated(sq_tail, SqCount) + 1) % SqCount
    /\ cq_tail' = (Allocated(cq_tail, CqCount) + 1) % CqCount
    /\ shared' = IF will_loop(cq_tail, CqCount) THEN shared \cup {cid} ELSE shared
    /\ cid' = cid + 1
    /\ sq_doorbell' = sq_tail'
    /\ pc' = "wait"
    /\ UNCHANGED <<req, done, cq_doorbell, device>>

\* The phase of the entry is the one that was waited for.
await_completed ==
    /\ pc = "wait" /\ cq[slot].phase = phase
    /\ cq_doorbell' = cq_tail
    /\ done' = done + BlkCount
    /\ pc' = IF cq[slot].status # 0 THEN "failed"
             ELSE IF done' < req.nlb THEN "next" ELSE "ok"
    /\ UNCHANGED <<sq, sq_tail, cq_tail, phase, cid, slot, req, list_end, shared, sq_doorbell, device>>

read_write_return ==
    /\ pc \in {"ok", "failed"}
    /\ pc' = "idle" /\ req' = NoReq /\ done' = 0
    /\ UNCHANGED <<sq, sq_tail, cq_tail, phase, cid, slot, list_end, shared, sq_doorbell, cq_doorbell, device>>

-----------------------------------------------------------------------------
(* The controller *)

\* It fetches the next slot, whatever is in it, ...
device_fetch ==
    /\ dev_head # sq_doorbell
    /\ running' = running \cup {sq[dev_head]}
    /\ dev_head' = (dev_head + 1) % SqCount
    /\ UNCHANGED <<driver, cq, dev_tail, dev_phase, executed, errors, moved>>

\* ... and finishes a command, with success or not.
device_complete(c, status) ==
    /\ c \in running
    /\ (dev_tail + 1) % CqCount # cq_doorbell
    /\ running' = running \ {c}
    /\ executed' = executed \cup {c.cid}
    /\ IF status = 0 THEN moved' = moved \cup c.blocks /\ errors' = errors
                     ELSE moved' = moved /\ errors' = errors \cup {c.cid}
    /\ cq' = [cq EXCEPT ![dev_tail] = [phase |-> dev_phase, status |-> status]]
    /\ dev_tail' = (dev_tail + 1) % CqCount
    /\ dev_phase' = IF dev_tail + 1 = CqCount THEN 1 - dev_phase ELSE dev_phase
    /\ UNCHANGED <<driver, dev_head>>

Completes == \E c \in running, status \in {0, 1} : device_complete(c, status)

-----------------------------------------------------------------------------
Next ==
    \/ \E r \in Requests : read_write_ptr(r)
    \/ nvme_await_submit \/ await_completed \/ read_write_return
    \/ device_fetch \/ Completes

\* The controller goes on working, and the driver is scheduled.
Fairness ==
    /\ WF_vars(device_fetch) /\ WF_vars(Completes)
    /\ WF_vars(nvme_await_submit) /\ WF_vars(await_completed)

Spec == Init /\ [][Next]_vars /\ Fairness

-----------------------------------------------------------------------------
(* Properties *)

\* nvme_await_submit returns only when the controller has finished the command,
\* although the same entries are used again and again, the last slot is passed
\* over and the controller executes what is in it.
NoEarlyReturn == pc # "wait" => 0 .. cid - 1 \subseteq executed

\* Every command of transfer r finds its memory in order: it needs no list, or
\* begins at the start of a page.  The entries of a list (controller.hpp:439)
\* count from the page of the buffer plus what is left in it, which is the next
\* page only then.
Regular(r) ==
    \/ r.nlb <= BlocksPerPage + 1
    \/ r.buf % BlocksPerPage = 0 /\ (r.nlb <= MaxNlb \/ MaxNlb % BlocksPerPage = 0)

\* A transfer that succeeds did so: no command of it failed, but perhaps one
\* right behind the slot that is passed over, which shares its two completion
\* entries with what the controller found in that slot, so that the driver may
\* read the other's status (line 239).  If none failed, every block of the disk
\* had its turn and no other, and if the memory is in order each is at its place
\* in the buffer, however the transfer was cut into commands.
Transferred == pc = "ok" =>
    /\ errors \subseteq {NoCmd.cid} \cup shared
    /\ errors \subseteq {NoCmd.cid} =>
          /\ {b[1] : b \in moved} = {req.lba + i : i \in 0 .. req.nlb - 1}
          /\ Regular(req) => moved = {<<req.lba + i, req.buf + i>> : i \in 0 .. req.nlb - 1}

\* Every command is answered in the end: the driver, which spins without a
\* limit, never waits for a phase or a slot the controller will not write.
SubmitReturns == pc = "wait" ~> pc # "wait"

\* "Bounds check: ensure we don't overflow the pgs_reg buffer"
\* (controller.hpp:429): a PRP list ends inside pgs_reg, which has
\* slots * max_phys_rpgs entries.
ListInBounds == list_end <= Slots * Rpgs
=============================================================================
