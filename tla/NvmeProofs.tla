----------------------------- MODULE NvmeProofs -----------------------------
(***************************************************************************)
(* Proofs about module Nvme, for queues of any size and any transfers.     *)
(*                                                                         *)
(* Driver and controller share no counter: the driver knows a completion   *)
(* by the phase of one entry.  The invariant says where the controller is  *)
(* for each position of the driver.  Between two commands it is at rest    *)
(* where the driver's tails are (AtRest).  During a command it is one slot *)
(* behind at most (Straight) or, when the driver passes over the last      *)
(* slot, two: that slot and the command, finished in either order (Around) *)
(* - and the entry the driver looks at is the second of the two.           *)
(***************************************************************************)
EXTENDS Nvme, TLAPS

\* The two queues have the same number of entries, and more than the one that is
\* never used.  The controller refuses queues with more than max_queue_entries + 1
\* entries, and Queue::create makes none with less than max_queue_entries, in whole
\* pages of 64 or 256: a pair that is accepted is alike.
QueuesAlike == SqCount = CqCount /\ SqCount > 1

N == SqCount
Slot == 0 .. N - 1

\* The command that was submitted last
Cmd == [cid |-> cid - 1, blocks |-> Blocks]

\* The entries before n have the phase that the driver waits for, the others have not.
Seen(n) == \A k \in Slot : cq[k].phase = IF k < n THEN phase ELSE 1 - phase

\* The driver turned to the next phase, and the last entry is still to be written.
Turning == \A k \in Slot : cq[k].phase = IF k < N - 1 THEN 1 - phase ELSE phase

\* The controller has finished the command ...
Finished == cid - 1 \in executed

\* ... when it has written as many entries as there were slots.
AtRest ==
    /\ dev_head = sq_tail /\ dev_tail = sq_tail /\ dev_phase = phase
    /\ running = {} /\ Seen(sq_tail)

Straight ==
    /\ slot < N - 1 /\ sq_tail = slot + 1 /\ dev_phase = phase
    /\ \/ dev_tail = slot /\ dev_head = slot /\ running = {} /\ Seen(slot)
       \/ dev_tail = slot /\ dev_head = slot + 1 /\ running = {Cmd} /\ Seen(slot)
       \/ dev_tail = slot + 1 /\ dev_head = slot + 1 /\ running = {} /\ Seen(slot + 1) /\ Finished

Around ==
    /\ slot = 0 /\ sq_tail = 1 /\ cid - 1 \in shared
    /\ \/ /\ dev_tail = N - 1 /\ dev_phase = 1 - phase /\ Turning
          /\ \/ dev_head = N - 1 /\ running = {}
             \/ dev_head = 0 /\ running = {NoCmd}
             \/ dev_head = 1 /\ running = {NoCmd, Cmd}
       \/ /\ dev_tail = 0 /\ dev_phase = phase /\ Seen(0)
          /\ \/ dev_head = 0 /\ running = {}
             \/ dev_head = 1 /\ running = {Cmd}
             \/ dev_head = 1 /\ running = {NoCmd} /\ Finished
       \/ /\ dev_tail = 1 /\ dev_phase = phase /\ Seen(1)
          /\ dev_head = 1 /\ running = {} /\ Finished

Types ==
    /\ phase \in {0, 1} /\ cid \in Nat /\ pc \in {"idle", "next", "wait", "ok", "failed"}
    /\ sq_tail \in Slot /\ cq_tail = sq_tail /\ sq_doorbell = sq_tail
    /\ slot \in Slot /\ cq_doorbell \in Slot
    /\ DOMAIN sq = Slot /\ sq[N - 1] = NoCmd
    /\ cq \in [Slot -> [phase : {0, 1}, status : {0, 1}]]
    /\ executed \subseteq -1 .. cid - 1 /\ shared \subseteq 0 .. cid - 1

\* The inductive invariant
RoundInv ==
    /\ Types
    /\ pc # "wait" => AtRest /\ 0 .. cid - 1 \subseteq executed
    /\ pc = "wait" => /\ cid > 0 /\ 0 .. cid - 2 \subseteq executed
                      /\ sq[slot] = Cmd /\ (Straight \/ Around)

-----------------------------------------------------------------------------
(* Positions *)

LEMMA Sizes ==
    ASSUME QueuesAlike
    PROVE  N \in Nat /\ N > 1 /\ CqCount = N /\ SqCount = N
  <1>1. SqCount \in Int
    BY NvmeAssumption DEF SqCount, Count
  <1> QED BY <1>1 DEF QueuesAlike, N

\* (x + 1) % N
LEMMA Advance ==
    ASSUME QueuesAlike, NEW x \in Slot
    PROVE  (x + 1) % N = IF x = N - 1 THEN 0 ELSE x + 1
  <1>1. N \in Nat /\ N > 1 /\ x \in Nat /\ x < N
    BY Sizes DEF Slot
  <1>2. CASE x = N - 1
    BY <1>1, <1>2
  <1>3. CASE x # N - 1
    BY <1>1, <1>3
  <1> QED BY <1>2, <1>3

LEMMA RoundInvInit == ASSUME QueuesAlike PROVE Init => RoundInv
  <1> SUFFICES ASSUME Init PROVE RoundInv
    OBVIOUS
  <1>1. N \in Nat /\ N > 1 /\ CqCount = N /\ SqCount = N
    BY Sizes
  <1>2. Types
    BY <1>1 DEF Init, Types, Slot
  <1>3. AtRest
    BY <1>1 DEF Init, AtRest, Seen, Slot
  <1> QED BY <1>2, <1>3 DEF Init, RoundInv

-----------------------------------------------------------------------------
(* Steps *)

\* nvme_await_submit ends where the driver waits: in the slot at its tail or,
\* when it turns, in slot 0.
LEMMA SubmitNext == ASSUME QueuesAlike, RoundInv, nvme_await_submit PROVE RoundInv'
  <1>1. N \in Nat /\ N > 1 /\ CqCount = N /\ SqCount = N
    BY Sizes
  <1>2. Types /\ AtRest /\ 0 .. cid - 1 \subseteq executed
    BY DEF RoundInv, nvme_await_submit
  <1>3. /\ sq' = [sq EXCEPT ![Allocated(sq_tail, N)] = [cid |-> cid, blocks |-> Blocks]]
        /\ slot' = Allocated(sq_tail, N)
        /\ sq_tail' = (Allocated(sq_tail, N) + 1) % N /\ cq_tail' = sq_tail'
        /\ sq_doorbell' = sq_tail'
        /\ phase' = IF will_loop(sq_tail, N) THEN 1 - phase ELSE phase
        /\ shared' = IF will_loop(sq_tail, N) THEN shared \cup {cid} ELSE shared
        /\ cid' = cid + 1 /\ pc' = "wait"
        /\ UNCHANGED <<req, done, cq_doorbell, cq, dev_head, dev_tail, dev_phase, running, executed>>
    BY <1>1, <1>2 DEF nvme_await_submit, Types, device
  <1> HIDE DEF nvme_await_submit
  <1>4. Allocated(sq_tail, N) = IF sq_tail = N - 1 THEN 0 ELSE sq_tail
    BY <1>1, <1>2 DEF Allocated, will_loop, Types, Slot
  <1>5. slot' \in Slot /\ slot' < N - 1 /\ sq_tail' = slot' + 1 /\ sq_tail' \in Slot
    <2>1. slot' \in Slot /\ slot' # N - 1 /\ slot' < N - 1 /\ slot' \in Nat
      BY <1>1, <1>2, <1>3, <1>4 DEF Types, Slot
    <2>2. \A s \in Nat : s < N - 1 => (s + 1) % N = s + 1 /\ s + 1 \in 0 .. N - 1
      BY <1>1
    <2> QED BY <1>3, <2>1, <2>2 DEF Slot
  <1>6. Blocks' = Blocks
    BY <1>3 DEF Blocks, BlkCount, MemoryOf, Entry, NeedList, Page, SpaceInFirstPage, Buffer
  <1>7. sq'[slot'] = Cmd' /\ DOMAIN sq' = Slot /\ sq'[N - 1] = NoCmd
    BY <1>1, <1>2, <1>3, <1>5, <1>6 DEF Types, Cmd, Slot
  <1>8. phase' \in {0, 1} /\ phase' = IF sq_tail = N - 1 THEN 1 - phase ELSE phase
    BY <1>1, <1>2, <1>3 DEF will_loop, Types, Slot
  <1>9. Types'
    <2>1. shared' \subseteq shared \cup {cid} /\ shared \subseteq 0 .. cid - 1 /\ cid \in Nat /\ cid' = cid + 1
      BY <1>2, <1>3 DEF Types
    <2>2. 0 .. cid - 1 \subseteq 0 .. cid' - 1 /\ cid \in 0 .. cid' - 1
      BY <2>1
    <2>3. shared' \subseteq 0 .. cid' - 1
      BY <2>1, <2>2
    <2> QED BY <1>1, <1>2, <1>3, <1>5, <1>7, <1>8, <2>3 DEF Types
  <1>10. cid' > 0 /\ 0 .. cid' - 2 \subseteq executed'
    BY <1>2, <1>3 DEF Types
  <1>11. CASE sq_tail = N - 1
    <2>1. Turning'
      BY <1>1, <1>2, <1>3, <1>8, <1>11 DEF AtRest, Seen, Turning, Types, Slot, N
    <2>2. cid' - 1 \in shared'
      BY <1>1, <1>2, <1>3, <1>11 DEF will_loop, Types
    <2>3. Around'
      BY <1>1, <1>2, <1>3, <1>4, <1>5, <1>8, <1>11, <2>1, <2>2 DEF AtRest, Around, Types, N
    <2> QED BY <1>3, <1>7, <1>9, <1>10, <2>3 DEF RoundInv
  <1>12. CASE sq_tail # N - 1
    <2>1. Seen(slot)'
      BY <1>2, <1>3, <1>4, <1>8, <1>12 DEF AtRest, Seen
    <2>2. Straight'
      BY <1>1, <1>2, <1>3, <1>4, <1>5, <1>8, <1>12, <2>1 DEF AtRest, Straight, N
    <2> QED BY <1>3, <1>7, <1>9, <1>10, <2>2 DEF RoundInv
  <1> QED BY <1>11, <1>12

\* While the command is not finished, the entry has the other phase.
LEMMA NotYet ==
    ASSUME QueuesAlike, RoundInv, pc = "wait", cq[slot].phase = phase
    PROVE  AtRest /\ Finished
  <1>1. N \in Nat /\ N > 1
    BY Sizes
  <1>2. Types /\ (Straight \/ Around)
    BY DEF RoundInv
  <1>3. 1 - phase # phase /\ slot \in Slot /\ slot \in Nat /\ 0 \in Slot
    BY <1>1, <1>2 DEF Types, Slot
  <1>4. ~ Seen(slot) /\ (slot = 0 => ~ Seen(0))
    BY <1>1, <1>3 DEF Seen
  <1>5. slot = 0 => ~ Turning
    BY <1>1, <1>3 DEF Turning
  <1>6. CASE Straight
    BY <1>4, <1>6 DEF Straight, AtRest
  <1>7. CASE Around
    BY <1>4, <1>5, <1>7 DEF Around, AtRest
  <1> QED BY <1>2, <1>6, <1>7

LEMMA CompletedNext == ASSUME QueuesAlike, RoundInv, await_completed PROVE RoundInv'
  <1>1. N \in Nat /\ N > 1 /\ CqCount = N /\ SqCount = N
    BY Sizes
  <1>2. pc = "wait" /\ cq[slot].phase = phase /\ Types /\ cid > 0 /\ 0 .. cid - 2 \subseteq executed
    BY DEF await_completed, RoundInv
  <1>3. AtRest /\ Finished
    BY <1>2, NotYet
  <1>4. /\ UNCHANGED <<sq, sq_tail, cq_tail, phase, cid, slot, shared, sq_doorbell, cq>>
        /\ UNCHANGED <<dev_head, dev_tail, dev_phase, running, executed>>
        /\ cq_doorbell' = cq_tail /\ pc' \in {"failed", "next", "ok"}
    BY DEF await_completed, device
  <1> HIDE DEF await_completed
  <1>5. Types'
    BY <1>2, <1>4 DEF Types, N, Slot
  <1>6. AtRest'
    BY <1>3, <1>4 DEF AtRest, Seen
  <1>7. 0 .. cid' - 1 \subseteq executed'
    BY <1>2, <1>3, <1>4 DEF Finished, Types
  <1> QED BY <1>4, <1>5, <1>6, <1>7 DEF RoundInv

\* Beginning and ending a transfer touch no queue.
LEMMA TransferNext ==
    ASSUME RoundInv, (\E r \in Requests : read_write_ptr(r)) \/ read_write_return
    PROVE  RoundInv'
  <1>1. /\ UNCHANGED <<sq, sq_tail, cq_tail, phase, cid, slot, shared, sq_doorbell, cq, cq_doorbell>>
        /\ UNCHANGED <<dev_head, dev_tail, dev_phase, running, executed>>
        /\ pc # "wait" /\ pc' \in {"idle", "next"}
    BY DEF read_write_ptr, read_write_return, device
  <1>2. Types /\ AtRest /\ 0 .. cid - 1 \subseteq executed
    BY <1>1 DEF RoundInv
  <1>3. Types'
    BY <1>1, <1>2 DEF Types, N, Slot
  <1>4. AtRest'
    BY <1>1, <1>2 DEF AtRest, Seen
  <1> QED BY <1>1, <1>2, <1>3, <1>4 DEF RoundInv

LEMMA FetchNext == ASSUME QueuesAlike, RoundInv, device_fetch PROVE RoundInv'
  <1>1. N \in Nat /\ N > 1 /\ CqCount = N /\ SqCount = N
    BY Sizes
  <1>2. /\ UNCHANGED <<sq, sq_tail, cq_tail, phase, cid, slot, pc, req, done, shared, sq_doorbell, cq_doorbell>>
        /\ UNCHANGED <<cq, dev_tail, dev_phase, executed>>
        /\ dev_head # sq_doorbell /\ dev_head' = (dev_head + 1) % N
        /\ running' = running \cup {sq[dev_head]}
    BY <1>1 DEF device_fetch, driver
  <1>3. Types
    BY DEF RoundInv
  <1>4. pc = "wait" /\ cid > 0 /\ 0 .. cid - 2 \subseteq executed /\ sq[slot] = Cmd
        /\ (Straight \/ Around)
    BY <1>2, <1>3 DEF RoundInv, AtRest, Types
  <1> HIDE DEF device_fetch, RoundInv
  <1>5. Types'
    BY <1>2, <1>3 DEF Types, N, Slot
  <1>6. Blocks' = Blocks /\ Cmd' = Cmd
    BY <1>2 DEF Cmd, Blocks, BlkCount, MemoryOf, Entry, NeedList, Page, SpaceInFirstPage, Buffer
  <1>7. Turning' = Turning /\ \A n \in Slot : Seen(n)' = Seen(n)
    BY <1>2 DEF Turning, Seen, N, Slot
  <1>8. CASE Straight
    <2>1. dev_head = slot /\ running = {} /\ dev_tail = slot /\ Seen(slot) /\ slot < N - 1
          /\ sq_tail = slot + 1 /\ dev_phase = phase
      BY <1>2, <1>3, <1>8 DEF Straight, Types
    <2>2. dev_head' = slot' + 1 /\ running' = {Cmd'}
      BY <1>1, <1>2, <1>3, <1>4, <1>6, <2>1, Advance DEF Types, Slot
    <2>3. Seen(slot)'
      BY <1>2, <2>1 DEF Seen
    <2>4. Straight'
      BY <1>2, <2>1, <2>2, <2>3 DEF Straight
    <2> QED BY <1>2, <1>4, <1>5, <1>6, <2>4 DEF RoundInv
  <1>9. CASE Around
    <2>1. /\ slot = 0 /\ sq_tail = 1 /\ cid - 1 \in shared
          /\ \/ /\ dev_tail = N - 1 /\ dev_phase = 1 - phase /\ Turning
                /\ \/ dev_head = N - 1 /\ running = {}
                   \/ dev_head = 0 /\ running = {NoCmd}
             \/ /\ dev_tail = 0 /\ dev_phase = phase /\ Seen(0)
                /\ dev_head = 0 /\ running = {}
      BY <1>2, <1>3, <1>9 DEF Around, Types
    <2>2. /\ dev_head = N - 1 => dev_head' = 0 /\ sq[dev_head] = NoCmd
          /\ dev_head = 0 => dev_head' = 1 /\ sq[dev_head] = Cmd
      BY <1>1, <1>2, <1>3, <1>4, <2>1, Advance DEF Types, Slot
    <2>3. Seen(0)' = Seen(0)
      BY <1>2 DEF Seen
    <2>4. Around'
      BY <1>1, <1>2, <1>6, <1>7, <2>1, <2>2, <2>3 DEF Around, N
    <2> QED BY <1>2, <1>4, <1>5, <1>6, <2>4 DEF RoundInv
  <1> QED BY <1>4, <1>8, <1>9

\* What the controller finishes: the command, or what it found in the last slot.
LEMMA CompleteNext ==
    ASSUME QueuesAlike, RoundInv, NEW c \in running, NEW status \in {0, 1}, device_complete(c, status)
    PROVE  RoundInv'
  <1>1. N \in Nat /\ N > 1 /\ CqCount = N /\ SqCount = N
    BY Sizes
  <1>2. /\ UNCHANGED <<sq, sq_tail, cq_tail, phase, cid, slot, pc, req, done, shared, sq_doorbell, cq_doorbell>>
        /\ UNCHANGED dev_head
        /\ running' = running \ {c} /\ executed' = executed \cup {c.cid}
        /\ cq' = [cq EXCEPT ![dev_tail] = [phase |-> dev_phase, status |-> status]]
        /\ dev_tail' = (dev_tail + 1) % N
        /\ dev_phase' = IF dev_tail + 1 = N THEN 1 - dev_phase ELSE dev_phase
    BY <1>1 DEF device_complete, driver
  <1>3. Types
    BY DEF RoundInv
  <1>4. pc = "wait" /\ cid > 0 /\ 0 .. cid - 2 \subseteq executed /\ sq[slot] = Cmd
        /\ (Straight \/ Around)
    BY DEF RoundInv, AtRest
  <1> HIDE DEF device_complete, RoundInv
  <1>5. c \in {NoCmd, Cmd} /\ dev_tail \in Slot /\ dev_phase \in {0, 1}
    BY <1>1, <1>3, <1>4 DEF Straight, Around, Types, Slot
  <1>6. NoCmd.cid = -1 /\ Cmd.cid = cid - 1 /\ NoCmd # Cmd
    BY <1>3, <1>4 DEF NoCmd, Cmd, Types
  <1>7. Blocks' = Blocks /\ Cmd' = Cmd
    BY <1>2 DEF Cmd, Blocks, BlkCount, MemoryOf, Entry, NeedList, Page, SpaceInFirstPage, Buffer
  <1>8. c.cid \in -1 .. cid - 1
    BY <1>3, <1>4, <1>5, <1>6 DEF Types
  <1>9. Types'
    <2>1. cq' \in [Slot -> [phase : {0, 1}, status : {0, 1}]]
      BY <1>2, <1>3, <1>5 DEF Types
    <2> QED BY <1>2, <1>3, <1>8, <2>1 DEF Types, N, Slot
  <1>10. \A k \in Slot : cq'[k].phase = IF k = dev_tail THEN dev_phase ELSE cq[k].phase
    BY <1>2, <1>3, <1>5 DEF Types
  <1>11. dev_tail' = IF dev_tail = N - 1 THEN 0 ELSE dev_tail + 1
    BY <1>2, <1>5, Advance
  <1>12. 0 .. cid' - 2 \subseteq executed' /\ (Finished => Finished')
    BY <1>2, <1>4 DEF Finished
  <1>13. CASE Straight
    <2>1. dev_tail = slot /\ dev_head = slot + 1 /\ running = {Cmd} /\ Seen(slot) /\ slot < N - 1
          /\ sq_tail = slot + 1 /\ dev_phase = phase
      BY <1>13 DEF Straight
    <2>2. c = Cmd /\ running' = {} /\ Finished'
      BY <1>2, <1>6, <2>1 DEF Finished
    <2>3. dev_tail' = slot + 1 /\ dev_phase' = phase
      BY <1>1, <1>2, <1>3, <1>11, <2>1 DEF Types, Slot
    <2>4. Seen(slot + 1)'
      BY <1>1, <1>2, <1>3, <1>10, <2>1 DEF Seen, Types, Slot, N
    <2>5. Straight'
      BY <1>2, <2>1, <2>2, <2>3, <2>4 DEF Straight, N
    <2> QED BY <1>2, <1>4, <1>7, <1>9, <1>12, <2>5 DEF RoundInv
  <1>14. CASE Around /\ dev_tail = N - 1
    <2>1. /\ slot = 0 /\ sq_tail = 1 /\ dev_phase = 1 - phase /\ Turning /\ cid - 1 \in shared
          /\ \/ dev_head = 0 /\ running = {NoCmd}
             \/ dev_head = 1 /\ running = {NoCmd, Cmd}
      BY <1>1, <1>14 DEF Around
    <2>2. dev_tail' = 0 /\ dev_phase' = phase
      BY <1>1, <1>2, <1>3, <1>11, <1>14, <2>1 DEF Types
    <2>3. Seen(0)'
      BY <1>1, <1>2, <1>3, <1>10, <1>14, <2>1 DEF Seen, Turning, Types, Slot, N
    <2>4. \/ dev_head' = 0 /\ running' = {}
          \/ dev_head' = 1 /\ running' = {Cmd'}
          \/ dev_head' = 1 /\ running' = {NoCmd} /\ Finished'
      BY <1>2, <1>5, <1>6, <1>7, <2>1 DEF Finished
    <2>5. Around'
      BY <1>2, <2>1, <2>2, <2>3, <2>4 DEF Around
    <2> QED BY <1>2, <1>4, <1>7, <1>9, <1>12, <2>5 DEF RoundInv
  <1>15. CASE Around /\ dev_tail # N - 1
    <2>1. /\ slot = 0 /\ sq_tail = 1 /\ dev_tail = 0 /\ dev_phase = phase /\ Seen(0)
          /\ dev_head = 1 /\ cid - 1 \in shared
          /\ running = {Cmd} \/ (running = {NoCmd} /\ Finished)
      BY <1>15 DEF Around
    <2>2. dev_tail' = 1 /\ dev_phase' = phase
      BY <1>1, <1>2, <1>11, <1>15, <2>1
    <2>3. Seen(1)'
      BY <1>1, <1>2, <1>3, <1>10, <2>1 DEF Seen, Types, Slot, N
    <2>4. running' = {} /\ Finished'
      BY <1>2, <1>6, <1>12, <2>1 DEF Finished
    <2>5. Around'
      BY <1>2, <2>1, <2>2, <2>3, <2>4 DEF Around
    <2> QED BY <1>2, <1>4, <1>7, <1>9, <1>12, <2>5 DEF RoundInv
  <1> QED BY <1>4, <1>13, <1>14, <1>15

LEMMA RoundInvNext == ASSUME QueuesAlike PROVE RoundInv /\ [Next]_vars => RoundInv'
  <1> SUFFICES ASSUME RoundInv, [Next]_vars PROVE RoundInv'
    OBVIOUS
  <1>1. CASE \E r \in Requests : read_write_ptr(r)
    BY <1>1, TransferNext
  <1>2. CASE nvme_await_submit
    BY <1>2, SubmitNext
  <1>3. CASE await_completed
    BY <1>3, CompletedNext
  <1>4. CASE read_write_return
    BY <1>4, TransferNext
  <1>5. CASE device_fetch
    BY <1>5, FetchNext
  <1>6. CASE Completes
    BY <1>6, CompleteNext DEF Completes
  <1>7. CASE UNCHANGED vars
    <2>1. Types' /\ Blocks' = Blocks
      BY <1>7 DEF RoundInv, Types, vars, driver, device, N, Slot, Blocks, BlkCount, MemoryOf,
                  Entry, NeedList, Page, SpaceInFirstPage, Buffer
    <2>2. Turning' = Turning /\ Straight' = Straight /\ AtRest' = AtRest
      BY <1>7, <2>1 DEF vars, driver, device, Turning, Straight, AtRest, Seen, Finished, Cmd
    <2>3. Around' = Around
      BY <1>7, <2>1, <2>2 DEF vars, driver, device, Around, Seen, Finished, Cmd
    <2>4. Cmd' = Cmd
      BY <1>7, <2>1 DEF vars, driver, device, Cmd
    <2> QED BY <1>7, <2>1, <2>2, <2>3, <2>4 DEF RoundInv, vars, driver, device
  <1> QED BY <1>1, <1>2, <1>3, <1>4, <1>5, <1>6, <1>7 DEF Next

-----------------------------------------------------------------------------
(* Blocks *)

\* The first n blocks of the transfer, on the disk and at their places
Disk(n) == {req.lba + i : i \in 0 .. n - 1}
Span(n) == {<<req.lba + i, req.buf + i>> : i \in 0 .. n - 1}
Moved(n) == errors \subseteq {NoCmd.cid} =>
    {b[1] : b \in moved} = Disk(n) /\ (Regular(req) => moved = Span(n))

\* The next command is in order.
InPlace == Buffer % BlocksPerPage = 0 \/ req.nlb <= BlocksPerPage + 1

\* How far the transfer is; the command counts when the controller has finished it.
ProgressInv ==
    /\ pc # "idle" => req \in Requests
    /\ pc \in {"next", "wait"} =>
           /\ done \in Nat /\ done < req.nlb
           /\ Regular(req) => InPlace
    /\ pc = "next" => Moved(done)
    /\ pc = "wait" => Moved(IF Finished THEN done + BlkCount ELSE done)
    /\ pc = "ok" => Moved(req.nlb)

\* Whose failure may have gone unnoticed; one that is noticed is still to be read.
Failed ==
    /\ pc \in {"next", "ok"} => errors \subseteq {NoCmd.cid} \cup shared
    /\ pc = "wait" =>
          /\ errors \subseteq {NoCmd.cid, cid - 1} \cup shared
          /\ cid - 1 \in errors \ shared =>
                cq[slot].status # 0 /\ running = {} /\ dev_head = sq_doorbell

LEMMA DivMod ==
    ASSUME NEW x \in Nat, NEW b \in Nat \ {0}
    PROVE  /\ x \div b \in Nat /\ x % b \in 0 .. b - 1 /\ (x \div b) * b \in Nat
           /\ x = (x \div b) * b + (x % b)
  <1>1. x \div b \in Nat /\ x % b \in 0 .. b - 1
    OBVIOUS
  <1>2. x = (x \div b) * b + (x % b)
    OBVIOUS
  <1> QED BY <1>1, <1>2

LEMMA SmallMod ==
    ASSUME NEW b \in Nat \ {0}, NEW x \in 0 .. b - 1
    PROVE  x % b = x
  OBVIOUS

LEMMA AddMod ==
    ASSUME NEW x \in Nat, NEW y \in Nat, NEW b \in Nat \ {0}, x % b = 0, y % b = 0
    PROVE  (x + y) % b = 0
  <1> DEFINE Multiple(z) == \E p \in Nat : z = p * b
  <1>1. ASSUME NEW z \in Nat, z % b = 0 PROVE Multiple(z)
    <2>1. z \div b \in Nat /\ (z \div b) * b \in Nat /\ z = (z \div b) * b + (z % b)
      BY DivMod
    <2>2. z = (z \div b) * b
      BY <1>1, <2>1
    <2> QED BY <2>1, <2>2
  <1>2. Multiple(x) /\ Multiple(y)
    BY <1>1
  <1>3. PICK p \in Nat, q \in Nat : x + y = (p + q) * b
    <2>1. PICK p \in Nat, q \in Nat : x = p * b /\ y = q * b
      BY <1>1, <1>2
    <2>2. (p + q) * b = p * b + q * b
      OBVIOUS
    <2> QED BY <2>1, <2>2
  <1>4. PICK z \in Nat, w \in 0 .. b - 1 : x + y = z * b + w /\ w = (x + y) % b
    <2>1. x + y \in Nat
      OBVIOUS
    <2> QED BY <2>1, DivMod
  <1>5. (p + q - z) * b = w
    BY <1>3, <1>4
  <1>6. p + q - z = 0
    <2>1. CASE p + q - z >= 1
      BY <1>5, <2>1
    <2>2. CASE p + q - z <= -1
      BY <1>5, <2>2
    <2> QED BY <2>1, <2>2
  <1> QED BY <1>4, <1>5, <1>6

\* What a command is about.
LEMMA CommandTypes ==
    ASSUME NEW r \in Requests, req = r, done \in Nat, done < r.nlb
    PROVE  /\ r.lba \in Nat /\ r.buf \in Nat /\ r.nlb \in Nat
           /\ MaxNlb \in Nat \ {0} /\ BlkCount \in Nat \ {0} /\ BlkCount <= r.nlb - done
           /\ BlkCount < r.nlb - done => BlkCount = MaxNlb
           /\ Buffer = r.buf + done /\ Buffer \in Nat
  <1>1. r.lba \in Nat /\ r.buf \in Nat /\ r.nlb \in Nat
    BY NvmeAssumption
  <1>2. Rpgs * BlocksPerPage \in Nat \ {0}
    BY NvmeAssumption
  <1>3. MaxNlb \in Nat \ {0}
    BY <1>2, NvmeAssumption DEF MaxNlb
  <1> QED BY <1>1, <1>3 DEF BlkCount, Buffer

\* The list and the two entries lead the controller through the buffer in order.
LEMMA MemoryInOrder ==
    ASSUME NEW r \in Requests, req = r, done \in Nat, done < r.nlb,
           InPlace,
           NEW i \in 0 .. BlkCount - 1
    PROVE  MemoryOf(i) = Buffer + i
  <1>1. /\ Buffer \in Nat /\ BlkCount \in Nat \ {0} /\ BlkCount <= r.nlb /\ BlocksPerPage \in Nat \ {0}
        /\ i \in Nat /\ i < BlkCount /\ r.nlb \in Nat
    BY CommandTypes, NvmeAssumption
  <1>0. Buffer % BlocksPerPage = 0 \/ r.nlb <= BlocksPerPage + 1
    BY DEF InPlace
  <1>2. PICK p \in Nat, o \in 0 .. BlocksPerPage - 1 :
          /\ p = (Buffer \div BlocksPerPage) * BlocksPerPage /\ o = Buffer % BlocksPerPage
          /\ Buffer = p + o
    <2>1. /\ (Buffer \div BlocksPerPage) * BlocksPerPage \in Nat /\ Buffer % BlocksPerPage \in 0 .. BlocksPerPage - 1
          /\ Buffer = (Buffer \div BlocksPerPage) * BlocksPerPage + (Buffer % BlocksPerPage)
      BY <1>1, DivMod
    <2> QED BY <2>1, Zenon
  <1>3. PICK s \in Nat : s = BlocksPerPage - o
    BY <1>1
  <1>4. Page = p /\ SpaceInFirstPage = s
    BY <1>2, <1>3 DEF Page, SpaceInFirstPage
  <1>5. CASE i < s
    BY <1>4, <1>5 DEF MemoryOf
  <1>6. CASE ~ (i < s)
    <2>1. PICK x \in Nat : x = i - s
      BY <1>1, <1>6
    <2>2. PICK d \in Nat, m \in 0 .. BlocksPerPage - 1 :
            /\ d = (x \div BlocksPerPage) * BlocksPerPage /\ m = x % BlocksPerPage
            /\ x = d + m
      <3>1. /\ (x \div BlocksPerPage) * BlocksPerPage \in Nat /\ x % BlocksPerPage \in 0 .. BlocksPerPage - 1
            /\ x = (x \div BlocksPerPage) * BlocksPerPage + (x % BlocksPerPage)
        BY <1>1, DivMod
      <3> QED BY <3>1, Zenon
    <2>3. MemoryOf(i) = Entry(x \div BlocksPerPage) + m
      BY <1>4, <1>6, <2>1, <2>2 DEF MemoryOf
    <2>4. CASE NeedList
      <3>1. o = 0
        BY <1>0, <1>1, <1>2, <1>3, <1>4, <2>4 DEF NeedList
      <3>2. Entry(x \div BlocksPerPage) = p + s + d
        BY <1>4, <2>2, <2>4 DEF Entry
      <3>3. p + s + d + m = Buffer + i
        BY <1>1, <1>2, <1>3, <2>1, <2>2, <3>1
      <3> QED BY <2>3, <3>2, <3>3
    <2>5. CASE ~ NeedList
      <3>1. x \in 0 .. BlocksPerPage - 1
        BY <1>1, <1>2, <1>3, <1>4, <2>1, <2>5 DEF NeedList
      <3>2. m = x
        BY <1>1, <2>2, <3>1, SmallMod
      <3>3. Entry(x \div BlocksPerPage) = p + BlocksPerPage
        BY <1>4, <2>5 DEF Entry
      <3>4. p + BlocksPerPage + x = Buffer + i
        BY <1>1, <1>2, <1>3, <2>1
      <3> QED BY <2>3, <3>2, <3>3, <3>4
    <2> QED BY <2>4, <2>5
  <1> QED BY <1>5, <1>6

\* A command adds its blocks to those before it.
LEMMA SpanGrows ==
    ASSUME NEW r \in Requests, req = r, done \in Nat, done < r.nlb, InPlace
    PROVE  /\ Span(done) \cup Blocks = Span(done + BlkCount)
           /\ Span(done + BlkCount) \cup Blocks = Span(done + BlkCount)
  <1>1. /\ r.lba \in Nat /\ r.buf \in Nat /\ BlkCount \in Nat /\ Buffer = r.buf + done
        /\ done \in Nat
    BY CommandTypes
  <1>2. Blocks = {<<r.lba + done + i, r.buf + done + i>> : i \in 0 .. BlkCount - 1}
    BY <1>1, MemoryInOrder DEF Blocks
  <1>3. PICK n \in Nat : n = done + BlkCount /\ done <= n
    BY <1>1
  <1>4. Blocks = {<<r.lba + k, r.buf + k>> : k \in done .. n - 1}
    <2>1. ASSUME NEW i \in 0 .. BlkCount - 1
          PROVE  /\ done + i \in done .. n - 1
                 /\ r.lba + done + i = r.lba + (done + i) /\ r.buf + done + i = r.buf + (done + i)
      BY <1>1, <1>3
    <2>2. ASSUME NEW k \in done .. n - 1
          PROVE  /\ k - done \in 0 .. BlkCount - 1
                 /\ r.lba + done + (k - done) = r.lba + k /\ r.buf + done + (k - done) = r.buf + k
      BY <1>1, <1>3
    <2> QED BY <1>2, <2>1, <2>2
  <1>5. /\ (0 .. done - 1) \cup (done .. n - 1) = 0 .. n - 1
        /\ done .. n - 1 \subseteq 0 .. n - 1
    BY <1>1, <1>3
  <1>6. Span(done) \cup Blocks = Span(n)
    BY <1>4, <1>5 DEF Span
  <1>7. Span(n) \cup Blocks = Span(n)
    BY <1>4, <1>5 DEF Span
  <1> QED BY <1>3, <1>6, <1>7

\* On the disk the command is in order in any case.
LEMMA DiskGrows ==
    ASSUME NEW r \in Requests, req = r, done \in Nat, done < r.nlb
    PROVE  /\ Disk(done) \cup {b[1] : b \in Blocks} = Disk(done + BlkCount)
           /\ Disk(done + BlkCount) \cup {b[1] : b \in Blocks} = Disk(done + BlkCount)
  <1>1. r.lba \in Nat /\ BlkCount \in Nat /\ done \in Nat
    BY CommandTypes
  <1>2. {b[1] : b \in Blocks} = {r.lba + done + i : i \in 0 .. BlkCount - 1}
    <2> DEFINE P(i) == <<r.lba + done + i, MemoryOf(i)>>
    <2>1. \A i : P(i)[1] = r.lba + done + i
      OBVIOUS
    <2>2. Blocks = {P(i) : i \in 0 .. BlkCount - 1}
      BY DEF Blocks
    <2> HIDE DEF P
    <2> QED BY <2>1, <2>2
  <1>3. PICK n \in Nat : n = done + BlkCount /\ done <= n
    BY <1>1
  <1>4. {r.lba + done + i : i \in 0 .. BlkCount - 1} = {r.lba + k : k \in done .. n - 1}
    <2>1. ASSUME NEW i \in 0 .. BlkCount - 1
          PROVE  done + i \in done .. n - 1 /\ r.lba + done + i = r.lba + (done + i)
      BY <1>1, <1>3
    <2>2. ASSUME NEW k \in done .. n - 1
          PROVE  k - done \in 0 .. BlkCount - 1 /\ r.lba + done + (k - done) = r.lba + k
      BY <1>1, <1>3
    <2> QED BY <2>1, <2>2
  <1>5. /\ (0 .. done - 1) \cup (done .. n - 1) = 0 .. n - 1
        /\ done .. n - 1 \subseteq 0 .. n - 1
    BY <1>1, <1>3
  <1>6. Disk(done) \cup {r.lba + k : k \in done .. n - 1} = Disk(n)
    BY <1>5 DEF Disk
  <1>7. Disk(n) \cup {r.lba + k : k \in done .. n - 1} = Disk(n)
    BY <1>5 DEF Disk
  <1> QED BY <1>2, <1>3, <1>4, <1>6, <1>7

LEMMA ProgressInit == Init => ProgressInv
  BY DEF Init, ProgressInv

LEMMA ProgressBegin ==
    ASSUME NEW r \in Requests, read_write_ptr(r)
    PROVE  ProgressInv'
  <1>1. r.nlb \in Nat \ {0} /\ r.buf \in Nat /\ r.lba \in Nat
    BY NvmeAssumption
  <1>2. pc' = "next" /\ req' = r /\ done' = 0 /\ moved' = {} /\ errors' = {}
    BY DEF read_write_ptr
  <1>3. Buffer' = r.buf
    BY <1>1, <1>2 DEF Buffer
  <1>4. Moved(done)'
    BY <1>2 DEF Moved, Span, Disk
  <1>5. Regular(req)' => InPlace'
    BY <1>1, <1>2, <1>3 DEF Regular, InPlace
  <1> QED BY <1>1, <1>2, <1>4, <1>5 DEF ProgressInv

LEMMA ProgressSubmit ==
    ASSUME RoundInv, ProgressInv, nvme_await_submit
    PROVE  ProgressInv'
  <1>1. pc = "next" /\ pc' = "wait" /\ cid' = cid + 1 /\ UNCHANGED <<req, done, executed, errors, moved>>
    BY DEF nvme_await_submit, device
  <1>2. ~ Finished'
    BY <1>1 DEF RoundInv, Types, Finished
  <1>3. Moved(done)'
    BY <1>1 DEF ProgressInv, Moved, Span, Disk, Regular
  <1> QED BY <1>1, <1>2, <1>3 DEF ProgressInv, Buffer, InPlace, Regular

\* The command is finished: its blocks are behind us.
LEMMA ProgressCompleted ==
    ASSUME QueuesAlike, RoundInv, ProgressInv, await_completed
    PROVE  ProgressInv'
  <1>1. PICK r \in Requests : req = r
    BY DEF ProgressInv, await_completed
  <1>2. done \in Nat /\ done < r.nlb /\ (Regular(r) => InPlace)
    BY <1>1 DEF ProgressInv, await_completed
  <1>3. Finished
    BY NotYet DEF await_completed
  <1>4. PICK n \in Nat : n = done + BlkCount
    BY <1>1, <1>2, CommandTypes
  <1>5. Moved(n)
    BY <1>3, <1>4 DEF ProgressInv, await_completed
  <1>6. /\ done' = n /\ req' = r /\ UNCHANGED <<errors, moved>>
        /\ pc' = "failed" \/ (pc' = "next" /\ n < r.nlb) \/ (pc' = "ok" /\ ~ (n < r.nlb))
    BY <1>1, <1>4 DEF await_completed, device
  <1> HIDE DEF await_completed
  <1>7. Moved(n)'
    BY <1>1, <1>5, <1>6 DEF Moved, Span, Disk, Regular
  <1>8. r.nlb \in Nat /\ n <= r.nlb /\ r.buf \in Nat /\ Buffer \in Nat /\ Buffer = r.buf + done
        /\ BlkCount \in Nat /\ MaxNlb \in Nat /\ (n < r.nlb => BlkCount = MaxNlb)
    BY <1>1, <1>2, <1>4, CommandTypes
  <1>9. n < r.nlb /\ Regular(r) => InPlace'
    <2>1. Buffer' = Buffer + BlkCount
      <3>1. Buffer' = r.buf + n
        BY <1>6 DEF Buffer
      <3>2. r.buf + (done + BlkCount) = r.buf + done + BlkCount
        BY <1>2, <1>8
      <3> QED BY <1>4, <1>8, <3>1, <3>2
    <2>2. ASSUME n < r.nlb, Regular(r), ~ (r.nlb <= BlocksPerPage + 1)
          PROVE  (Buffer + BlkCount) % BlocksPerPage = 0
      <3>1. Buffer % BlocksPerPage = 0
        BY <1>1, <1>2, <2>2 DEF InPlace
      <3>2. BlkCount % BlocksPerPage = 0
        BY <1>2, <1>4, <1>8, <2>2 DEF Regular
      <3> QED BY <1>8, <3>1, <3>2, AddMod, NvmeAssumption
    <2> QED BY <1>6, <2>1, <2>2 DEF InPlace
  <1>10. pc' = "ok" => Moved(req.nlb)'
    BY <1>6, <1>7, <1>8
  <1>11. pc' = "next" => Moved(done)'
    BY <1>6, <1>7
  <1>12. Regular(req)' = Regular(r)
    BY <1>6 DEF Regular
  <1> QED BY <1>6, <1>9, <1>10, <1>11, <1>12 DEF ProgressInv

LEMMA ProgressComplete ==
    ASSUME QueuesAlike, RoundInv, ProgressInv, NEW c \in running, NEW status \in {0, 1},
           device_complete(c, status)
    PROVE  ProgressInv'
  <1>1. /\ UNCHANGED <<cid, pc, req, done>> /\ executed' = executed \cup {c.cid}
        /\ IF status = 0 THEN moved' = moved \cup c.blocks /\ errors' = errors
                         ELSE moved' = moved /\ errors' = errors \cup {c.cid}
    BY DEF device_complete, driver
  <1>2. pc = "wait" /\ (Straight \/ Around) /\ cid \in Nat /\ cid > 0
    BY DEF RoundInv, AtRest, Types
  <1> HIDE DEF device_complete
  <1>3. c \in {NoCmd, Cmd}
    BY <1>2 DEF Straight, Around
  <1>4. PICK r \in Requests : req = r
    BY <1>2 DEF ProgressInv
  <1>5. /\ done \in Nat /\ done < r.nlb /\ (Regular(r) => InPlace)
        /\ Moved(IF Finished THEN done + BlkCount ELSE done)
    BY <1>2, <1>4 DEF ProgressInv
  <1>6. /\ BlkCount' = BlkCount /\ InPlace' = InPlace /\ Regular(req)' = Regular(r)
        /\ \A n : Span(n)' = Span(n) /\ Disk(n)' = Disk(n)
    BY <1>1, <1>4 DEF BlkCount, Buffer, InPlace, Regular, Span, Disk
  <1>7. Moved(IF Finished THEN done + BlkCount ELSE done)'
    <2>1. CASE c = NoCmd
      <3>1. Finished' = Finished /\ NoCmd.blocks = {} /\ NoCmd.cid = -1
        BY <1>1, <1>2, <2>1 DEF Finished, NoCmd
      <3>2. moved' = moved /\ (errors' \subseteq {NoCmd.cid} => errors \subseteq {NoCmd.cid})
        BY <1>1, <2>1, <3>1
      <3> QED BY <1>1, <1>4, <1>5, <1>6, <3>1, <3>2 DEF Moved
    <2>2. CASE c = Cmd
      <3>1. Finished' /\ c.blocks = Blocks /\ c.cid # NoCmd.cid
        BY <1>1, <1>2, <2>2 DEF Finished, Cmd, NoCmd
      <3>2. CASE status = 0
        <4>1. /\ moved' = moved \cup Blocks /\ errors' = errors
              /\ {b[1] : b \in moved'} = {b[1] : b \in moved} \cup {b[1] : b \in Blocks}
          BY <1>1, <3>1, <3>2
        <4>2. errors \subseteq {NoCmd.cid} => {b[1] : b \in moved'} = Disk(done + BlkCount)
          BY <1>4, <1>5, <4>1, DiskGrows DEF Moved
        <4>3. errors \subseteq {NoCmd.cid} /\ Regular(r) => moved' = Span(done + BlkCount)
          BY <1>4, <1>5, <4>1, SpanGrows DEF Moved
        <4>4. Moved(done + BlkCount)'
          BY <1>1, <1>4, <1>6, <4>1, <4>2, <4>3 DEF Moved
        <4> QED BY <3>1, <4>4
      <3>3. CASE status # 0
        BY <1>1, <3>1, <3>3 DEF Moved
      <3> QED BY <3>2, <3>3
    <2> QED BY <1>3, <2>1, <2>2
  <1> QED BY <1>1, <1>2, <1>4, <1>5, <1>6, <1>7 DEF ProgressInv

LEMMA ProgressNext ==
    ASSUME QueuesAlike
    PROVE  RoundInv /\ ProgressInv /\ [Next]_vars => ProgressInv'
  <1> SUFFICES ASSUME RoundInv, ProgressInv, [Next]_vars PROVE ProgressInv'
    OBVIOUS
  <1>1. CASE \E r \in Requests : read_write_ptr(r)
    BY <1>1, ProgressBegin
  <1>2. CASE nvme_await_submit
    BY <1>2, ProgressSubmit
  <1>3. CASE await_completed
    BY <1>3, ProgressCompleted
  <1>4. CASE read_write_return
    BY <1>4 DEF read_write_return, ProgressInv
  <1>5. CASE device_fetch \/ UNCHANGED vars
    <2>1. UNCHANGED <<cid, pc, req, done, executed, errors, moved>>
      BY <1>5 DEF device_fetch, driver, device, vars
    <2>2. /\ BlkCount' = BlkCount /\ InPlace' = InPlace /\ Finished' = Finished
          /\ Regular(req)' = Regular(req)
      BY <2>1 DEF BlkCount, Buffer, InPlace, Regular, Finished
    <2>3. Moved(IF Finished THEN done + BlkCount ELSE done)' = Moved(IF Finished THEN done + BlkCount ELSE done)
      BY <2>1, <2>2 DEF Moved, Span, Disk
    <2>4. Moved(done)' = Moved(done) /\ Moved(req.nlb)' = Moved(req.nlb)
      BY <2>1, <2>2 DEF Moved, Span, Disk
    <2> QED BY <2>1, <2>2, <2>3, <2>4 DEF ProgressInv
  <1>6. CASE Completes
    BY <1>6, ProgressComplete DEF Completes
  <1> QED BY <1>1, <1>2, <1>3, <1>4, <1>5, <1>6 DEF Next

\* A command that shares no completion entry writes the one the driver reads.
LEMMA FailedNext ==
    ASSUME QueuesAlike
    PROVE  RoundInv /\ Failed /\ [Next]_vars => Failed'
  <1> SUFFICES ASSUME RoundInv, Failed, [Next]_vars PROVE Failed'
    OBVIOUS
  <1>0. Types /\ NoCmd.cid = -1
    BY DEF RoundInv, NoCmd
  <1>1. CASE \E r \in Requests : read_write_ptr(r)
    BY <1>1 DEF read_write_ptr, Failed
  <1>2. CASE nvme_await_submit
    <2>1. pc = "next" /\ pc' = "wait" /\ cid' = cid + 1 /\ errors' = errors /\ shared \subseteq shared'
      BY <1>2 DEF nvme_await_submit, device
    <2>2. errors \subseteq {-1} \cup shared
      BY <1>0, <2>1 DEF Failed
    <2>3. cid' - 1 \notin errors'
      BY <1>0, <2>1, <2>2 DEF Types
    <2> QED BY <1>0, <2>1, <2>2, <2>3 DEF Failed
  <1>3. CASE await_completed
    BY <1>0, <1>3 DEF await_completed, device, Failed
  <1>4. CASE read_write_return
    BY <1>4 DEF read_write_return, Failed
  <1>5. CASE device_fetch
    BY <1>5 DEF device_fetch, driver, Failed
  <1>6. CASE Completes
    <2>1. PICK c \in running, status \in {0, 1} : device_complete(c, status)
      BY <1>6 DEF Completes
    <2>2. /\ UNCHANGED <<pc, cid, shared, slot, dev_head, sq_doorbell>> /\ running' = running \ {c}
          /\ cq' = [cq EXCEPT ![dev_tail] = [phase |-> dev_phase, status |-> status]]
          /\ errors' = IF status = 0 THEN errors ELSE errors \cup {c.cid}
      BY <2>1 DEF device_complete, driver
    <2>3. pc = "wait" /\ (Straight \/ Around) /\ cid > 0 /\ cid \in Nat
      BY <1>0 DEF RoundInv, AtRest, Types
    <2>4. c \in {NoCmd, Cmd} /\ Cmd.cid = cid - 1
      BY <2>3 DEF Straight, Around, Cmd
    <2>5. errors' \subseteq {NoCmd.cid, cid - 1} \cup shared
      BY <2>2, <2>3, <2>4 DEF Failed
    <2>6. ASSUME cid - 1 \in errors' \ shared
          PROVE  cq'[slot].status # 0 /\ running' = {} /\ dev_head = sq_doorbell
      <3>1. Straight
        BY <2>3, <2>6 DEF Around
      <3>2. c = Cmd /\ running = {Cmd} /\ dev_tail = slot /\ dev_head = sq_doorbell
        BY <1>0, <3>1 DEF Straight, Types
      <3>3. cid - 1 \notin errors
        BY <2>3, <2>6, <3>2 DEF Failed
      <3>4. status # 0
        BY <2>2, <2>6, <3>3
      <3> QED BY <1>0, <2>2, <3>2, <3>4 DEF Types
    <2> QED BY <2>2, <2>3, <2>5, <2>6 DEF Failed
  <1>7. CASE UNCHANGED vars
    BY <1>7 DEF vars, driver, device, Failed
  <1> QED BY <1>1, <1>2, <1>3, <1>4, <1>5, <1>6, <1>7 DEF Next

-----------------------------------------------------------------------------
(* Theorems *)

\* In every state of every run, whatever the size of the queues, the controller is
\* at rest between commands and behind the driver by the command (and the slot
\* that was passed over) during one.
THEOREM RoundInvariant == ASSUME QueuesAlike PROVE Spec => []RoundInv
  <1>1. Init => RoundInv
    BY RoundInvInit
  <1>2. RoundInv /\ [Next]_vars => RoundInv'
    BY RoundInvNext
  <1> QED BY <1>1, <1>2, PTL DEF Spec

\* Tails, doorbells and the controller's positions stay inside the queues.
THEOREM TypeCorrect == ASSUME QueuesAlike PROVE Spec => []TypeOK
  <1>1. RoundInv => TypeOK
    <2> SUFFICES ASSUME RoundInv PROVE TypeOK
      OBVIOUS
    <2>1. N \in Nat /\ N > 1 /\ CqCount = N /\ SqCount = N
      BY Sizes
    <2>2. Types /\ (AtRest \/ Straight \/ Around)
      BY DEF RoundInv
    <2>3. dev_head \in Slot /\ dev_tail \in Slot /\ dev_phase \in {0, 1}
      <3>1. CASE AtRest
        BY <2>2, <3>1 DEF AtRest, Types
      <3>2. CASE Straight
        BY <2>1, <2>2, <3>2 DEF Straight, Types, Slot
      <3>3. CASE Around
        BY <2>1, <2>2, <3>3 DEF Around, Types, Slot
      <3> QED BY <2>2, <3>1, <3>2, <3>3
    <2> QED BY <2>1, <2>2, <2>3 DEF Types, TypeOK, Slot
  <1> QED BY <1>1, RoundInvariant, PTL

\* For queues of any size: nvme_await_submit does not return before the controller
\* has finished the command, in whatever order it finishes what it has fetched.
THEOREM ReturnsNotEarly == ASSUME QueuesAlike PROVE Spec => []NoEarlyReturn
  <1>1. RoundInv => NoEarlyReturn
    BY DEF RoundInv, NoEarlyReturn
  <1> QED BY <1>1, RoundInvariant, PTL

\* For queues and pages of any size and any transfers: one that succeeds had no
\* failure but perhaps behind the slot that is passed over, and without one it
\* has moved every block, to its place if its memory is in order.
THEOREM BlocksTransferred ==
    ASSUME QueuesAlike
    PROVE  Spec => []Transferred
  <1>1. RoundInv /\ ProgressInv /\ [Next]_vars => ProgressInv'
    BY ProgressNext
  <1>2. RoundInv /\ Failed /\ [Next]_vars => Failed'
    BY FailedNext
  <1>3. Init => Failed
    BY DEF Init, Failed
  <1>4. ProgressInv /\ Failed => Transferred
    BY DEF ProgressInv, Failed, Transferred, Moved, Span, Disk
  <1> QED BY <1>1, <1>2, <1>3, <1>4, ProgressInit, RoundInvariant, PTL DEF Spec
=============================================================================
