----------------------------- MODULE IpcProofs -----------------------------
(***************************************************************************)
(* Proofs about module Ipc, for any number of clients, servers and         *)
(* signals: the two rings of an endpoint and their ticks implement one     *)
(* queue, and every client that waits in ipc_send is unblocked by exactly  *)
(* one party.                                                              *)
(***************************************************************************)
EXTENDS Ipc, TLAPS

(***************************************************************************)
(* The inductive invariant.  The ticks in each ring increase, no tick is   *)
(* in both, none is still to come, and HeadsKnown.                         *)
(***************************************************************************)
Increasing(f, n) == \A i, j \in 1 .. n : i < j => f[i] < f[j]
Image(f, n) == {f[i] : i \in 1 .. n}

SyncTicks == [i \in 1 .. Len(sync_queue) |-> sync_queue[i].tick]
AsyncSet == Image(async_queue, Len(async_queue))
SyncSet == Image(SyncTicks, Len(sync_queue))

RingTypes ==
    /\ tick \in Nat /\ async_queue \in Seq(Nat) /\ sync_queue \in Seq(Entries)
    /\ last_async \in Nat /\ last_sync \in Nat

Sorted == Increasing(async_queue, Len(async_queue)) /\ Increasing(SyncTicks, Len(sync_queue))

Past == \A m \in AsyncSet \cup SyncSet : m \in Nat /\ m < tick

Apart == AsyncSet \cap SyncSet = {}

QueueInv == RingTypes /\ Sorted /\ Past /\ Apart /\ HeadsKnown

(***************************************************************************)
(* What a step may do to the rings.                                        *)
(***************************************************************************)
PushAsync ==
    /\ async_queue' = Append(async_queue, tick) /\ sync_queue' = sync_queue
    /\ update_msg_ticks /\ tick' = tick + 1

PushSync == \E e \in Entries :
    /\ e.tick = tick
    /\ sync_queue' = Append(sync_queue, e) /\ async_queue' = async_queue
    /\ update_msg_ticks /\ tick' = tick + 1

PopAsync ==
    /\ async_queue # <<>> /\ take_async
    /\ async_queue' = Tail(async_queue)
    /\ last_async' = IF async_queue' # <<>> THEN Head(async_queue') ELSE last_async
    /\ UNCHANGED <<tick, sync_queue, last_sync>>

PopSync ==
    /\ sync_queue # <<>> /\ ~ async_first
    /\ sync_queue' = Tail(sync_queue)
    /\ last_sync' = IF sync_queue' # <<>> THEN Head(sync_queue').tick ELSE last_sync
    /\ UNCHANGED <<tick, async_queue, last_async>>

QueueStep == PushAsync \/ PushSync \/ PopAsync \/ PopSync \/ UNCHANGED queue

-----------------------------------------------------------------------------
\* Every step of the system, of whatever context, is one of those on the rings.
LEMMA StepOnRings == ASSUME tick \in Nat, [Next]_vars PROVE QueueStep
<1>1. CASE UNCHANGED vars
  BY <1>1 DEF vars, QueueStep
<1>2. ASSUME NEW c \in Clients, Send(c) PROVE QueueStep
  <2>1. ASSUME NEW k \in {"send", "call"}, ipc_send(c, k) PROVE QueueStep
    <3> DEFINE e == [callee |-> c, is_call |-> (k = "call"), tick |-> tick]
    <3>1. e \in Entries /\ e.tick = tick
      BY DEF Entries
    <3>2. sync_queue' = Append(sync_queue, e) /\ async_queue' = async_queue
          /\ update_msg_ticks /\ tick' = tick + 1
      BY <2>1 DEF ipc_send
    <3> HIDE DEF e
    <3> QED BY <3>1, <3>2 DEF QueueStep, PushSync
  <2>2. CASE ipc_send_async(c)
    BY <2>2 DEF ipc_send_async, QueueStep, PushAsync
  <2>3. CASE ipc_send_unmapped(c) \/ send_block(c) \/ send_wake(c) \/ send_unlock(c)
             \/ send_return(c)
    BY <2>3 DEF ipc_send_unmapped, send_block, send_wake, send_unlock, send_return,
                QueueStep
  <2> QED BY <1>2, <2>1, <2>2, <2>3 DEF Send
<1>3. ASSUME NEW s \in Servers, Receive(s) PROVE QueueStep
  <2>1. CASE receive_async_message(s)
    BY <2>1 DEF receive_async_message, pop_async, QueueStep, PopAsync
  <2>2. CASE poll_async_message(s)
    BY <2>2 DEF poll_async_message, pop_async, async_first, take_async, QueueStep, PopAsync
  <2>3. CASE receive_sync_message(s)
    BY <2>3 DEF receive_sync_message, pop_sync, take_async, QueueStep, PopSync
  <2>4. CASE poll_sync_message(s)
    BY <2>4 DEF poll_sync_message, pop_sync, QueueStep, PopSync
  <2>5. CASE ipc_receive(s) \/ receive_check(s) \/ receive_block(s) \/ receive_wake(s)
             \/ receive_interrupted(s) \/ receive_nothing(s) \/ receive_copy(s)
             \/ receive_unlock(s)
    BY <2>5 DEF ipc_receive, receive_check, receive_block, receive_wake,
                receive_interrupted, receive_nothing, receive_copy, receive_unlock, QueueStep
  <2>6. CASE ipc_receive_async(s) \/ poll_nothing(s) \/ poll_empty_ring(s)
    BY <2>6 DEF ipc_receive_async, poll_nothing, poll_empty_ring, QueueStep
  <2> QED BY <1>3, <2>1, <2>2, <2>3, <2>4, <2>5, <2>6 DEF Receive
<1>4. ASSUME NEW s \in Servers, Reply(s) PROVE QueueStep
  BY <1>4 DEF Reply, reply_look_up, ipc_reply, reply_release, QueueStep
<1>5. ASSUME NEW t \in Attached, signal_trigger(t) PROVE QueueStep
  BY <1>5 DEF signal_trigger, QueueStep
<1>6. ASSUME NEW x \in Contexts,
             mutex_release_try(x) \/ mutex_release(x) \/ mutex_release_unlocked(x)
      PROVE  QueueStep
  BY <1>6 DEF mutex_release_try, mutex_release, mutex_release_unlocked, QueueStep
<1>7. ASSUME NEW t \in Tasks, resolve_test(t) PROVE QueueStep
  BY <1>7 DEF resolve_test, QueueStep
<1>8. CASE resolve_reset
  BY <1>8 DEF resolve_reset, QueueStep
<1> QED BY <1>1, <1>2, <1>3, <1>4, <1>5, <1>6, <1>7, <1>8 DEF Next

-----------------------------------------------------------------------------
\* What pushing and popping do to a sequence, ...
LEMMA PushPop ==
  ASSUME NEW S, NEW q \in Seq(S), NEW e \in S
  PROVE  /\ Len(q) \in Nat /\ \A i \in 1 .. Len(q) : q[i] \in S
         /\ Append(q, e) \in Seq(S) /\ Len(Append(q, e)) = Len(q) + 1
         /\ \A i \in 1 .. Len(q) : Append(q, e)[i] = q[i]
         /\ Append(q, e)[Len(q) + 1] = e /\ Append(q, e) # <<>>
  OBVIOUS

LEMMA PopFacts ==
  ASSUME NEW S, NEW q \in Seq(S), q # <<>>
  PROVE  /\ Len(q) \in Nat /\ Len(q) > 0 /\ Head(q) = q[1] /\ Head(q) \in S
         /\ \A i \in 1 .. Len(q) : q[i] \in S
         /\ Tail(q) \in Seq(S) /\ Len(Tail(q)) = Len(q) - 1
         /\ \A i \in 1 .. Len(q) - 1 : Tail(q)[i] = q[i + 1]
  OBVIOUS

\* ... and to its set of ticks: a push at the end adds a tick, ...
LEMMA Pushed ==
  ASSUME NEW n \in Nat, NEW t \in Nat, NEW f, NEW g,
         \A i \in 1 .. n : f[i] \in Nat /\ f[i] < t /\ g[i] = f[i],
         g[n + 1] = t, Increasing(f, n)
  PROVE  Increasing(g, n + 1) /\ Image(g, n + 1) = Image(f, n) \cup {t}
<1>1. \A i \in 1 .. n + 1 : i \in 1 .. n \/ i = n + 1
  OBVIOUS
<1>2. Increasing(g, n + 1)
  BY <1>1 DEF Increasing
<1>3. Image(g, n + 1) = Image(f, n) \cup {t}
  BY <1>1 DEF Image
<1> QED BY <1>2, <1>3

\* ... a pop takes the first one, which is the least.
LEMMA Popped ==
  ASSUME NEW n \in Nat, NEW f, NEW g,
         \A i \in 1 .. n + 1 : f[i] \in Nat,
         \A i \in 1 .. n : g[i] = f[i + 1],
         Increasing(f, n + 1)
  PROVE  /\ Increasing(g, n)
         /\ Image(g, n) = Image(f, n + 1) \ {f[1]}
         /\ f[1] \in Image(f, n + 1)
         /\ \A m \in Image(f, n + 1) : f[1] <= m
<1>1. \A i \in 1 .. n : i + 1 \in 1 .. n + 1 /\ 1 < i + 1
  OBVIOUS
<1>2. \A i \in 1 .. n + 1 : i = 1 \/ (i - 1 \in 1 .. n /\ f[i] = g[i - 1] /\ f[1] < f[i])
  BY DEF Increasing
<1>3. Increasing(g, n)
  <2> SUFFICES ASSUME NEW i \in 1 .. n, NEW j \in 1 .. n, i < j PROVE g[i] < g[j]
    BY DEF Increasing
  <2> QED BY <1>1 DEF Increasing
<1>4. \A i \in 1 .. n : g[i] \in Image(f, n + 1) /\ g[i] # f[1]
  BY <1>1 DEF Increasing, Image
<1>5. Image(g, n) = Image(f, n + 1) \ {f[1]}
  BY <1>2, <1>4 DEF Image
<1>6. 1 \in 1 .. n + 1
  OBVIOUS
<1>7. f[1] \in Image(f, n + 1)
  BY <1>6 DEF Image
<1>8. \A m \in Image(f, n + 1) : f[1] <= m
  BY <1>2, <1>6 DEF Image
<1> QED BY <1>3, <1>5, <1>7, <1>8

\* The ring of synchronous entries seen as its ticks.
LEMMA HeadTick == \A q \in Seq(Entries) : q # <<>> => Head(q).tick \in Nat
<1> SUFFICES ASSUME NEW q \in Seq(Entries), q # <<>> PROVE Head(q).tick \in Nat
  OBVIOUS
<1>1. Head(q) \in Entries
  OBVIOUS
<1> QED BY <1>1 DEF Entries

LEMMA SyncTicksFacts ==
  ASSUME sync_queue \in Seq(Entries)
  PROVE  /\ Len(sync_queue) \in Nat
         /\ \A i \in 1 .. Len(sync_queue) :
               SyncTicks[i] = sync_queue[i].tick /\ SyncTicks[i] \in Nat
         /\ sync_queue # <<>> => Head(sync_queue).tick = SyncTicks[1]
<1>1. \A e \in Entries : e.tick \in Nat
  BY DEF Entries
<1>2. \A i \in 1 .. Len(sync_queue) : sync_queue[i] \in Entries
  OBVIOUS
<1> QED BY <1>1, <1>2 DEF SyncTicks

-----------------------------------------------------------------------------
(* The effect of each action on the rings *)

\* A number handed out must be a least one of both rings: what Queue!HandOut
\* asks for.
Least(m) == m \in AsyncSet \cup SyncSet /\ \A n \in AsyncSet \cup SyncSet : m <= n

LEMMA PushAsyncEffect ==
  ASSUME QueueInv, PushAsync
  PROVE  /\ Sorted' /\ RingTypes' /\ HeadsKnown'
         /\ AsyncSet' = AsyncSet \cup {tick} /\ SyncSet' = SyncSet
<1> DEFINE f == async_queue  g == async_queue'  n == Len(f)
<1>1. f \in Seq(Nat) /\ tick \in Nat /\ g = Append(f, tick) /\ tick' = tick + 1
      /\ sync_queue' = sync_queue /\ sync_queue \in Seq(Entries)
  BY DEF QueueInv, RingTypes, PushAsync
<1>2. /\ n \in Nat /\ \A i \in 1 .. n : f[i] \in Nat /\ g[i] = f[i]
      /\ g \in Seq(Nat) /\ g # <<>> /\ Len(g) = n + 1 /\ g[n + 1] = tick
  BY <1>1, PushPop
<1>3. \A i \in 1 .. n : f[i] < tick
  BY DEF QueueInv, Past, AsyncSet, Image
<1>4. Increasing(f, n)
  BY DEF QueueInv, Sorted
<1>5. Increasing(g, n + 1) /\ Image(g, n + 1) = Image(f, n) \cup {tick}
  <2>1. \A i \in 1 .. n : f[i] \in Nat /\ f[i] < tick /\ g[i] = f[i]
    BY <1>2, <1>3
  <2>2. n \in Nat /\ tick \in Nat /\ g[n + 1] = tick
    BY <1>1, <1>2
  <2> HIDE DEF f, g, n
  <2> QED BY <1>4, <2>1, <2>2, Pushed, SMTT(30)
<1>6. SyncTicks' = SyncTicks
  BY <1>1 DEF SyncTicks
<1>7. Sorted' /\ AsyncSet' = AsyncSet \cup {tick} /\ SyncSet' = SyncSet
  BY <1>1, <1>2, <1>5, <1>6 DEF Sorted, AsyncSet, SyncSet, QueueInv
<1>8. Head(g) \in Nat /\ (sync_queue # <<>> => Head(sync_queue).tick \in Nat)
  <2>1. \A q \in Seq(Entries) : q # <<>> => Head(q).tick \in Nat
    BY HeadTick
  <2>2. \A q \in Seq(Nat) : q # <<>> => Head(q) \in Nat
    OBVIOUS
  <2> QED BY <1>1, <1>2, <2>1, <2>2
<1>9. RingTypes' /\ HeadsKnown'
  BY <1>1, <1>2, <1>8, TickAssumption DEF RingTypes, HeadsKnown, PushAsync, update_msg_ticks
<1> QED BY <1>7, <1>9

LEMMA PushSyncEffect ==
  ASSUME QueueInv, PushSync
  PROVE  /\ Sorted' /\ RingTypes' /\ HeadsKnown'
         /\ AsyncSet' = AsyncSet /\ SyncSet' = SyncSet \cup {tick}
<1> PICK e \in Entries : /\ e.tick = tick /\ sync_queue' = Append(sync_queue, e)
                         /\ async_queue' = async_queue
                         /\ update_msg_ticks /\ tick' = tick + 1
  BY DEF PushSync
<1> DEFINE f == SyncTicks  g == SyncTicks'  n == Len(sync_queue)
<1>1. sync_queue \in Seq(Entries) /\ tick \in Nat /\ async_queue \in Seq(Nat)
  BY DEF QueueInv, RingTypes
<1>2. /\ n \in Nat /\ \A i \in 1 .. n : sync_queue'[i] = sync_queue[i]
      /\ sync_queue' \in Seq(Entries) /\ sync_queue' # <<>> /\ Len(sync_queue') = n + 1
      /\ sync_queue'[n + 1] = e
  BY <1>1, PushPop
<1>3. /\ \A i \in 1 .. n : f[i] = sync_queue[i].tick /\ f[i] \in Nat
      /\ \A i \in 1 .. n + 1 : g[i] = sync_queue'[i].tick
  BY <1>1, <1>2, SyncTicksFacts DEF SyncTicks
<1>4. n + 1 \in 1 .. n + 1 /\ \A i \in 1 .. n : i \in 1 .. n + 1
  BY <1>2
<1>5. g[n + 1] = tick /\ \A i \in 1 .. n : f[i] \in Nat /\ f[i] < tick /\ g[i] = f[i]
  BY <1>2, <1>3, <1>4 DEF QueueInv, Past, SyncSet, Image
<1>6. Increasing(f, n)
  BY DEF QueueInv, Sorted
<1>7. Increasing(g, n + 1) /\ Image(g, n + 1) = Image(f, n) \cup {tick}
  <2>1. n \in Nat /\ tick \in Nat
    BY <1>1, <1>2
  <2> HIDE DEF f, g, n
  <2> QED BY <1>5, <1>6, <2>1, Pushed, ZenonT(40)
<1>8. Sorted' /\ AsyncSet' = AsyncSet /\ SyncSet' = SyncSet \cup {tick}
  BY <1>2, <1>7 DEF Sorted, AsyncSet, SyncSet, QueueInv
<1>9. Head(sync_queue').tick \in Nat /\ (async_queue # <<>> => Head(async_queue) \in Nat)
  <2>1. \A q \in Seq(Entries) : q # <<>> => Head(q).tick \in Nat
    BY HeadTick
  <2>2. \A q \in Seq(Nat) : q # <<>> => Head(q) \in Nat
    OBVIOUS
  <2> QED BY <1>1, <1>2, <2>1, <2>2
<1>10. RingTypes' /\ HeadsKnown'
  BY <1>1, <1>2, <1>9, TickAssumption DEF RingTypes, HeadsKnown, update_msg_ticks
<1> QED BY <1>8, <1>10

LEMMA PopAsyncEffect ==
  ASSUME QueueInv, PopAsync
  PROVE  /\ Sorted' /\ RingTypes' /\ HeadsKnown' /\ tick' = tick
         /\ \E m \in AsyncSet :
               Least(m) /\ AsyncSet' = AsyncSet \ {m} /\ SyncSet' = SyncSet
<1> DEFINE f == async_queue  g == async_queue'  n == Len(f) - 1
<1>1. /\ f \in Seq(Nat) /\ g = Tail(f) /\ f # <<>> /\ sync_queue \in Seq(Entries)
      /\ UNCHANGED <<tick, sync_queue, last_sync>>
  BY DEF QueueInv, RingTypes, PopAsync
<1>2. /\ n \in Nat /\ Len(f) = n + 1 /\ \A i \in 1 .. n + 1 : f[i] \in Nat
      /\ g \in Seq(Nat) /\ Len(g) = n /\ \A i \in 1 .. n : g[i] = f[i + 1]
      /\ Head(f) = f[1]
  BY <1>1, PopFacts
<1>3. Increasing(f, n + 1)
  BY <1>2 DEF QueueInv, Sorted
<1>4. /\ Increasing(g, n) /\ Image(g, n) = Image(f, n + 1) \ {f[1]}
      /\ f[1] \in Image(f, n + 1) /\ \A m \in Image(f, n + 1) : f[1] <= m
  <2>1. n \in Nat
    BY <1>2
  <2>2. (\A i \in 1 .. n + 1 : f[i] \in Nat) /\ (\A i \in 1 .. n : g[i] = f[i + 1])
    BY <1>2
  <2> HIDE DEF f, g, n
  <2> QED BY <1>3, <2>1, <2>2, Popped, Zenon
<1>5. SyncTicks' = SyncTicks
  BY <1>1 DEF SyncTicks
<1>6. Sorted' /\ AsyncSet' = AsyncSet \ {f[1]} /\ SyncSet' = SyncSet /\ f[1] \in AsyncSet
  BY <1>1, <1>2, <1>4, <1>5 DEF Sorted, AsyncSet, SyncSet, QueueInv
<1>7. \A m \in SyncSet : f[1] <= m
  <2> SUFFICES ASSUME NEW m \in SyncSet PROVE f[1] <= m
    OBVIOUS
  <2>1. sync_queue # <<>>
    BY <1>1, SyncTicksFacts DEF SyncSet, Image
  <2>2. f[1] < SyncTicks[1]
    BY <1>1, <1>2, <2>1, SyncTicksFacts
       DEF PopAsync, take_async, async_first, QueueInv, HeadsKnown
  <2>3. PICK i \in 1 .. Len(sync_queue) : m = SyncTicks[i]
    BY DEF SyncSet, Image
  <2>4. i = 1 \/ SyncTicks[1] < SyncTicks[i]
    BY <1>1, SyncTicksFacts DEF QueueInv, Sorted, Increasing
  <2>5. 1 \in 1 .. Len(sync_queue) /\ 1 \in 1 .. n + 1
    BY <1>1, <1>2, SyncTicksFacts
  <2>6. SyncTicks[1] \in Nat /\ SyncTicks[i] \in Nat /\ f[1] \in Nat
    BY <1>1, <1>2, <2>5, SyncTicksFacts
  <2> HIDE DEF f, n
  <2> QED BY <2>2, <2>3, <2>4, <2>6
<1>8. Least(f[1])
  BY <1>2, <1>4, <1>6, <1>7 DEF Least, AsyncSet
<1>9. g # <<>> => Head(g) \in Nat
  BY <1>2, PopFacts
<1>10. RingTypes' /\ HeadsKnown'
  BY <1>1, <1>2, <1>9 DEF QueueInv, RingTypes, HeadsKnown, PopAsync
<1> QED BY <1>1, <1>6, <1>8, <1>10

LEMMA PopSyncEffect ==
  ASSUME QueueInv, PopSync
  PROVE  /\ Sorted' /\ RingTypes' /\ HeadsKnown' /\ tick' = tick
         /\ \E m \in SyncSet :
               Least(m) /\ AsyncSet' = AsyncSet /\ SyncSet' = SyncSet \ {m}
<1> DEFINE f == SyncTicks  g == SyncTicks'  n == Len(sync_queue) - 1
<1>1. /\ sync_queue \in Seq(Entries) /\ sync_queue' = Tail(sync_queue) /\ sync_queue # <<>>
      /\ async_queue \in Seq(Nat) /\ UNCHANGED <<tick, async_queue, last_async>>
  BY DEF QueueInv, RingTypes, PopSync
<1>2. /\ n \in Nat /\ Len(sync_queue) = n + 1
      /\ sync_queue' \in Seq(Entries) /\ Len(sync_queue') = n
      /\ \A i \in 1 .. n : sync_queue'[i] = sync_queue[i + 1]
  BY <1>1, PopFacts
<1>3. /\ \A i \in 1 .. n + 1 : f[i] = sync_queue[i].tick /\ f[i] \in Nat
      /\ \A i \in 1 .. n : g[i] = sync_queue'[i].tick
      /\ Head(sync_queue).tick = f[1]
  BY <1>1, <1>2, SyncTicksFacts DEF SyncTicks
<1>4. \A i \in 1 .. n : i + 1 \in 1 .. n + 1
  BY <1>2
<1>5. \A i \in 1 .. n : g[i] = f[i + 1]
  BY <1>2, <1>3, <1>4
<1>6. Increasing(f, n + 1)
  BY <1>2 DEF QueueInv, Sorted
<1>7. /\ Increasing(g, n) /\ Image(g, n) = Image(f, n + 1) \ {f[1]}
      /\ f[1] \in Image(f, n + 1) /\ \A m \in Image(f, n + 1) : f[1] <= m
  <2> HIDE DEF f, g, n
  <2> QED BY <1>2, <1>3, <1>5, <1>6, Popped
<1>8. Sorted' /\ SyncSet' = SyncSet \ {f[1]} /\ AsyncSet' = AsyncSet /\ f[1] \in SyncSet
  BY <1>1, <1>2, <1>7 DEF Sorted, AsyncSet, SyncSet, QueueInv
<1>9. \A m \in AsyncSet : f[1] <= m
  <2> SUFFICES ASSUME NEW m \in AsyncSet PROVE f[1] <= m
    OBVIOUS
  <2>1. PICK i \in 1 .. Len(async_queue) : m = async_queue[i]
    BY DEF AsyncSet, Image
  <2>2. async_queue # <<>>
    BY <1>1, <2>1
  <2>3. /\ Head(async_queue) = async_queue[1] /\ 1 \in 1 .. Len(async_queue)
        /\ async_queue[1] \in Nat /\ async_queue[i] \in Nat
    BY <1>1, <2>2, PopFacts
  <2>4. ~ (async_queue[1] < f[1])
    BY <1>1, <1>3, <2>2, <2>3 DEF PopSync, async_first, QueueInv, HeadsKnown
  <2>5. i = 1 \/ async_queue[1] < async_queue[i]
    BY <2>3 DEF QueueInv, Sorted, Increasing
  <2>6. f[1] \in Nat
    BY <1>2, <1>3
  <2> HIDE DEF f
  <2> QED BY <2>1, <2>3, <2>4, <2>5, <2>6
<1>10. Least(f[1])
  BY <1>2, <1>7, <1>8, <1>9 DEF Least, SyncSet
<1>11. sync_queue' # <<>> => Head(sync_queue').tick \in Nat
  BY <1>2, HeadTick
<1>12. RingTypes' /\ HeadsKnown'
  BY <1>1, <1>2, <1>11 DEF QueueInv, RingTypes, HeadsKnown, PopSync
<1> QED BY <1>1, <1>8, <1>10, <1>12

-----------------------------------------------------------------------------
LEMMA InitQueueInv == Init => QueueInv
<1> SUFFICES ASSUME Init PROVE QueueInv
  OBVIOUS
<1>1. async_queue = <<>> /\ sync_queue = <<>> /\ tick = 1 /\ last_async = LONG_MAX
      /\ last_sync = LONG_MAX
  BY DEF Init
<1>2. RingTypes
  BY <1>1, TickAssumption DEF RingTypes
<1>3. AsyncSet = {} /\ SyncSet = {}
  BY <1>1 DEF AsyncSet, SyncSet, Image
<1>4. Sorted /\ HeadsKnown
  BY <1>1 DEF Sorted, Increasing, HeadsKnown
<1> QED BY <1>2, <1>3, <1>4 DEF QueueInv, Past, Apart

\* Every action on the rings keeps them sorted, apart and their heads known.
LEMMA QueueStepKeepsInv ==
  ASSUME QueueInv, QueueStep PROVE QueueInv'
<1>0. Past /\ Apart /\ tick \in Nat
  BY DEF QueueInv, RingTypes
<1>1. CASE PushAsync
  <2>1. AsyncSet' = AsyncSet \cup {tick} /\ SyncSet' = SyncSet /\ tick' = tick + 1
    BY <1>1, PushAsyncEffect DEF PushAsync
  <2>2. Past' /\ Apart'
    BY <1>0, <2>1 DEF Past, Apart
  <2> QED BY <1>1, <2>2, PushAsyncEffect DEF QueueInv
<1>2. CASE PushSync
  <2>1. AsyncSet' = AsyncSet /\ SyncSet' = SyncSet \cup {tick} /\ tick' = tick + 1
    BY <1>2, PushSyncEffect DEF PushSync
  <2>2. Past' /\ Apart'
    BY <1>0, <2>1 DEF Past, Apart
  <2> QED BY <1>2, <2>2, PushSyncEffect DEF QueueInv
<1>3. CASE PopAsync
  <2>1. PICK m : AsyncSet' = AsyncSet \ {m} /\ SyncSet' = SyncSet /\ tick' = tick
    BY <1>3, PopAsyncEffect
  <2>2. Past' /\ Apart'
    BY <1>0, <2>1 DEF Past, Apart
  <2> QED BY <1>3, <2>2, PopAsyncEffect DEF QueueInv
<1>4. CASE PopSync
  <2>1. PICK m : AsyncSet' = AsyncSet /\ SyncSet' = SyncSet \ {m} /\ tick' = tick
    BY <1>4, PopSyncEffect
  <2>2. Past' /\ Apart'
    BY <1>0, <2>1 DEF Past, Apart
  <2> QED BY <1>4, <2>2, PopSyncEffect DEF QueueInv
<1>5. CASE UNCHANGED queue
  BY <1>5 DEF queue, QueueInv, RingTypes, Sorted, Past, Apart, HeadsKnown, AsyncSet, SyncSet,
              SyncTicks
<1> QED BY <1>1, <1>2, <1>3, <1>4, <1>5 DEF QueueStep

\* The rings stay sorted and disjoint and their recorded heads exact, through
\* every interleaving of ipc_send, ipc_send_async, ipc_receive and
\* ipc_receive_async.
THEOREM RingsSorted == Spec => []QueueInv
<1>1. QueueInv /\ [Next]_vars => QueueInv'
  BY StepOnRings, QueueStepKeepsInv DEF QueueInv, RingTypes
<1> QED BY InitQueueInv, <1>1, PTL DEF Spec

\* last_async_msg_tick and last_sync_msg_tick are the ticks of the heads
\* whenever a ring is not empty, however the pops and sends interleave.
THEOREM HeadsAlwaysKnown == Spec => []HeadsKnown
<1>1. QueueInv => HeadsKnown
  BY DEF QueueInv
<1> QED BY RingsSorted, <1>1, PTL

-----------------------------------------------------------------------------
Pending == {async_queue[i] : i \in DOMAIN async_queue} \cup Ticks(sync_queue)

\* What the refinement mapping takes for pending are the ticks in the two rings.
LEMMA PendingSets ==
  ASSUME NEW a \in Seq(Nat), NEW b \in Seq(Entries)
  PROVE  {a[i] : i \in DOMAIN a} \cup Ticks(b)
           = Image(a, Len(a)) \cup Image([i \in 1 .. Len(b) |-> b[i].tick], Len(b))
<1>1. DOMAIN a = 1 .. Len(a) /\ DOMAIN b = 1 .. Len(b)
  OBVIOUS
<1> QED BY <1>1 DEF Ticks, Image

\* Every step on the rings is a step of the single queue.
LEMMA QueueSimulation ==
  ASSUME QueueInv, QueueStep
  PROVE  Queue!Next \/ UNCHANGED <<Pending, tick>>
<1>0. Pending = AsyncSet \cup SyncSet /\ Pending' = AsyncSet' \cup SyncSet'
  <2>1. /\ async_queue \in Seq(Nat) /\ sync_queue \in Seq(Entries)
        /\ async_queue' \in Seq(Nat) /\ sync_queue' \in Seq(Entries)
    BY QueueStepKeepsInv DEF QueueInv, RingTypes
  <2> QED BY <2>1, PendingSets, Zenon DEF Pending, AsyncSet, SyncSet, SyncTicks
<1>1. CASE PushAsync \/ PushSync
  <2>1. Pending' = Pending \cup {tick} /\ tick' = tick + 1
    BY <1>0, <1>1, PushAsyncEffect, PushSyncEffect DEF PushAsync, PushSync
  <2> QED BY <2>1 DEF Queue!Next, Queue!Accept, Pending
<1>2. CASE PopAsync \/ PopSync
  <2>1. PICK m \in AsyncSet \cup SyncSet :
             /\ Least(m) /\ tick' = tick
             /\ AsyncSet' \cup SyncSet' = (AsyncSet \cup SyncSet) \ {m}
    BY <1>2, PopAsyncEffect, PopSyncEffect DEF QueueInv, Apart
  <2>2. m \in Pending /\ (\A n \in Pending : m <= n) /\ Pending' = Pending \ {m}
    BY <1>0, <2>1 DEF Least
  <2> QED BY <2>1, <2>2 DEF Queue!Next, Queue!HandOut, Pending
<1>3. CASE UNCHANGED queue
  BY <1>3 DEF queue, Pending, Ticks
<1> QED BY <1>1, <1>2, <1>3 DEF QueueStep

\* The endpoint implements the single queue of IpcQueueSpec: each accepted
\* message is handed out once and in order of acceptance, although ipc_send
\* and ipc_send_async use different rings and ipc_receive and
\* ipc_receive_async choose between them by recorded ticks.
THEOREM DeliveredInOrder == Spec => InOrder
<1>1. Init => Queue!Init
  BY DEF Init, Queue!Init, Ticks
<1>2. QueueInv /\ [Next]_vars => [Queue!Next]_<<Pending, tick>>
  BY StepOnRings, QueueSimulation DEF QueueInv, RingTypes
<1> QED BY RingsSorted, <1>1, <1>2, PTL DEF Spec, InOrder, Queue!Spec, Pending

-----------------------------------------------------------------------------
(***************************************************************************)
(* Blocking and unblocking.  Each client that waits in ipc_send is         *)
(* somebody's duty: its entry is in the ring, or a server is taking it     *)
(* (Taking), or it is owed a reply (Owes).  The duties exclude each other, *)
(* so that each wait is ended once.  What is said of a client holds if it  *)
(* is not disturbed: a signal unblocks a task whatever it waits for, and   *)
(* so does the second of two servers that answer one call.                 *)
(***************************************************************************)
\* The entries in the ring of synchronous messages
Held == {sync_queue[i] : i \in DOMAIN sync_queue}

\* The call e has a return task, and its caller was not unblocked yet.
Owes(e) == e \in owed /\ ~ \E s \in Servers : pc[s] = "p_release" /\ entry[s] = e

\* Client c has blocked itself in ipc_send and was not unblocked.
Waits(c) ==
    /\ kind[c] # "async" /\ mutex[c]
    /\ pc[c] \in {"s_wake", "s_try", "s_rel", "s_unlock", "s_sleep", "release_unreachable"}

TaskTypes ==
    /\ awaiting_server \in Servers \cup {NoTask} /\ elock \in Tasks \cup {NoTask}
    /\ mutex \in [Tasks -> BOOLEAN] /\ signaled \in [Tasks -> BOOLEAN]
    /\ buf \in [Clients -> Nat]
    /\ pc \in [Contexts -> Points]
    /\ kind \in [Clients -> {"send", "call", "async"}]
    /\ entry \in [Servers -> Entries \cup {NoTask}]
    /\ wakee \in [Contexts -> Tasks \cup {NoTask}]
    /\ owed \subseteq Entries /\ twice \subseteq Clients
    /\ resolving \in Tasks \cup {NoTask}

\* Where a context is
SendPoints == {"s_block", "s_wake", "s_try", "s_rel", "s_unlock", "s_sleep"}
TakePoints == {"r_copy", "r_try", "r_rel"}
LockPoints == (SendPoints \ {"s_sleep"}) \cup TakePoints \cup {"r_unlock"}
AwaitPoints == {"r_check", "r_block", "r_sleep", "r_take"}

\* A send is made by a client, a receive and a reply by a server, and only the
\* handler triggers signals.
Roles == \A x \in Contexts :
    /\ pc[x] \in SendPoints => x \in Clients
    /\ pc[x] \in AwaitPoints \cup TakePoints \cup Replies \cup {"r_unlock", "a_take"}
          => x \in Servers
    /\ pc[x] \in {"g_try", "g_rel"} => x = Irq /\ wakee[x] \in Attached

\* Who is between endpoint.lock() and endpoint.unlock() has the lock.
Owner == \A x \in Contexts : pc[x] \in LockPoints => elock = x

\* awaiting_server is a server inside ipc_receive, and a sender wakes that one.
Awaits ==
    /\ awaiting_server # NoTask => pc[awaiting_server] \in AwaitPoints
    /\ \A c \in Clients : pc[c] \in {"s_try", "s_rel"} =>
          wakee[c] = awaiting_server /\ awaiting_server # NoTask

\* A server wakes the client whose entry it took, or one that is owed a reply.
DutyKnown == \A s \in Servers :
    /\ pc[s] \in TakePoints \cup Replies => entry[s] \in Entries
    /\ pc[s] \in {"r_try", "r_rel", "p_try", "p_rel", "p_release"} =>
          wakee[s] = entry[s].callee
    /\ pc[s] \in Replies /\ entry[s].callee \notin Disturbed => entry[s] \in owed

\* Two servers that answer one call disturb its caller.
RepliesOnce == \A s, t \in Servers :
    pc[s] \in Replies /\ pc[t] \in Replies /\ entry[s] = entry[t]
    /\ entry[s].callee \notin Disturbed => s = t

\* The duties for a client exclude each other: ...
OneEntry == \A e, f \in Held : e.callee = f.callee /\ e.callee \notin Disturbed => e = f

QueuedOnly == \A e \in Held :
    e.callee \notin Disturbed =>
        /\ \A s \in Servers : ~ Taking(s, e.callee)
        /\ \A f \in owed : f.callee = e.callee => ~ Owes(f)

TakenOnly == \A s \in Servers, f \in owed :
    f.callee \notin Disturbed /\ Taking(s, f.callee) => ~ Owes(f)

OwedOnce == \A e, f \in owed :
    e.callee = f.callee /\ e.callee \notin Disturbed /\ Owes(e) /\ Owes(f) => e = f

\* ... and whoever is a duty waits, its buffer untouched.
QueuedWaits == \A e \in Held :
    e.callee \notin Disturbed =>
        buf[e.callee] = e.tick /\ (pc[e.callee] = "s_block" \/ Waits(e.callee))

TakenWaits == \A c \in Clients \ Disturbed, s \in Servers :
    Taking(s, c) => Waits(c) /\ (pc[s] = "r_copy" => buf[c] = entry[s].tick)

OwedWaits == \A e \in owed : e.callee \notin Disturbed /\ Owes(e) => Waits(e.callee)

\* A client that waits is a duty.
SendersQueued == \A c \in Clients \ Disturbed :
    /\ pc[c] \in {"s_block", "s_sleep"} => kind[c] # "async"
    /\ pc[c] \in SendPoints \ {"s_sleep"} /\ kind[c] # "async" => \E e \in Held : e.callee = c

SleepersServed == \A c \in Clients \ Disturbed :
    pc[c] = "s_sleep" /\ mutex[c] =>
        \/ \E e \in Held : e.callee = c
        \/ \E s \in Servers : Taking(s, c)
        \/ \E e \in owed : e.callee = c /\ Owes(e)

\* A mutex that is about to be released is locked.
Released == \A x \in Contexts :
    /\ pc[x] \in {"s_rel", "r_rel", "p_rel"} /\ wakee[x] \notin Disturbed => mutex[wakee[x]]
    /\ pc[x] = "release_unreachable" => wakee[x] \in Disturbed

\* The scheduler resets the mutex of a task that sleeps, that no sender is
\* about to unblock, and that is not blocked again.
Resets == resolving # NoTask =>
    /\ \A c \in Clients : ~ Disables(c)
    /\ pc[resolving] \in {"s_sleep", "r_sleep"}
    /\ pc[resolving] = "s_sleep" /\ resolving \notin Disturbed => ~ mutex[resolving]

\* The inductive invariant
DutyInv == /\ TaskTypes /\ Roles /\ Owner /\ Awaits /\ DutyKnown /\ RepliesOnce
           /\ OneEntry /\ QueuedOnly /\ TakenOnly /\ OwedOnce
           /\ QueuedWaits /\ TakenWaits /\ OwedWaits /\ SendersQueued /\ SleepersServed
           /\ Released /\ Resets

\* An entry has its tick to itself: the one that a server is copying is no
\* longer in the ring and has no return task yet.
Fresh ==
    /\ \A e \in owed : e.tick < tick /\ e \notin Held
    /\ \A s \in Servers : pc[s] = "r_copy" =>
          entry[s].tick < tick /\ entry[s] \notin owed \cup Held

-----------------------------------------------------------------------------
(* What a step may do to the duties *)

\* The points of a server that has no message or reply in hand
Aside == AwaitPoints \cup {"idle", "a_take"}

\* Server s moves between such points.
Quiet(s) ==
    /\ pc[s] \in Aside
    /\ \E p \in Aside \cup {"pop_unreachable"} :
          /\ pc' = [pc EXCEPT ![s] = p]
          /\ \/ awaiting_server' = awaiting_server /\ (pc[s] \in AwaitPoints => p \in AwaitPoints)
             \/ Unlocked /\ awaiting_server' = NoTask
             \/ Unlocked /\ awaiting_server' = s /\ p \in AwaitPoints
    /\ elock' = elock \/ (Unlocked /\ elock' = s)
    /\ mutex' = mutex \/ mutex' = [mutex EXCEPT ![s] = TRUE]
    /\ signaled' \in [Tasks -> BOOLEAN]
    /\ UNCHANGED <<buf, local, resolving>>
    /\ pc[s] = "r_sleep" => resolving # s

\* Server s takes the first synchronous message.
Take(s) ==
    /\ pc[s] \in {"r_take", "a_take"} /\ pc' = [pc EXCEPT ![s] = "r_copy"]
    /\ Unlocked /\ elock' = s
    /\ awaiting_server' = NoTask \/ (pc[s] = "a_take" /\ awaiting_server' = awaiting_server)
    /\ Head(sync_queue) \in Held
    /\ entry' = [entry EXCEPT ![s] = Head(sync_queue)]
    /\ UNCHANGED <<mutex, signaled, buf, kind, wakee, owed, twice, resolving>>

\* Updates of a Boolean function
LEMMA BooleanFunctions ==
  ASSUME NEW S, NEW f \in [S -> BOOLEAN], NEW x, NEW b \in BOOLEAN
  PROVE  [f EXCEPT ![x] = b] \in [S -> BOOLEAN]
  OBVIOUS

\* What a push and a pop mean for the set of entries: an entry is in the ring
\* once, as its tick is.
LEMMA HeldEntries == ASSUME sync_queue \in Seq(Entries) PROVE Held \subseteq Entries
<1>1. /\ DOMAIN sync_queue = 1 .. Len(sync_queue)
      /\ \A i \in 1 .. Len(sync_queue) : sync_queue[i] \in Entries
  OBVIOUS
<1> QED BY <1>1 DEF Held

LEMMA HeldPush ==
  ASSUME sync_queue \in Seq(Entries), NEW e \in Entries, sync_queue' = Append(sync_queue, e)
  PROVE  Held' = Held \cup {e}
<1> DEFINE n == Len(sync_queue)
<1>1. /\ n \in Nat /\ sync_queue' \in Seq(Entries) /\ Len(sync_queue') = n + 1
      /\ \A i \in 1 .. n : sync_queue'[i] = sync_queue[i]
      /\ sync_queue'[n + 1] = e
  BY PushPop
<1>2. DOMAIN sync_queue = 1 .. n /\ DOMAIN sync_queue' = 1 .. n + 1
  BY <1>1
<1>3. \A i \in 1 .. n + 1 : i \in 1 .. n \/ i = n + 1
  BY <1>1
<1> HIDE DEF n
<1>4. \A x \in Held : x \in Held'
  BY <1>1, <1>2 DEF Held
<1>5. e \in Held' /\ \A x \in Held' : x \in Held \cup {e}
  BY <1>1, <1>2, <1>3 DEF Held
<1> QED BY <1>4, <1>5

LEMMA HeldPop ==
  ASSUME QueueInv, sync_queue # <<>>, sync_queue' = Tail(sync_queue)
  PROVE  Head(sync_queue) \in Held /\ Held' = Held \ {Head(sync_queue)}
<1> DEFINE n == Len(sync_queue) - 1
<1>1. sync_queue \in Seq(Entries)
  BY DEF QueueInv, RingTypes
<1>2. /\ n \in Nat /\ Len(sync_queue) = n + 1 /\ Head(sync_queue) = sync_queue[1]
      /\ sync_queue' \in Seq(Entries) /\ Len(sync_queue') = n
      /\ \A i \in 1 .. n : sync_queue'[i] = sync_queue[i + 1]
  BY <1>1, PopFacts
<1>3. DOMAIN sync_queue = 1 .. n + 1 /\ DOMAIN sync_queue' = 1 .. n
  BY <1>1, <1>2
<1>4. \A i \in 1 .. n + 1 : i = 1 \/ (i - 1 \in 1 .. n /\ sync_queue[i] = sync_queue'[i - 1])
  BY <1>2
<1>5. \A i \in 1 .. n : i + 1 \in 1 .. n + 1 /\ sync_queue[i + 1] # sync_queue[1]
  <2> SUFFICES ASSUME NEW i \in 1 .. n
               PROVE  i + 1 \in 1 .. n + 1 /\ sync_queue[i + 1] # sync_queue[1]
    OBVIOUS
  <2>1. i + 1 \in 1 .. n + 1 /\ 1 \in 1 .. n + 1 /\ 1 < i + 1
    BY <1>2
  <2>2. SyncTicks[1] < SyncTicks[i + 1]
    BY <1>2, <2>1 DEF QueueInv, Sorted, Increasing
  <2>3. /\ SyncTicks[1] = sync_queue[1].tick /\ SyncTicks[i + 1] = sync_queue[i + 1].tick
        /\ SyncTicks[1] \in Nat
    BY <1>1, <1>2, <2>1, SyncTicksFacts
  <2> QED BY <2>1, <2>2, <2>3
<1>6. 1 \in 1 .. n + 1
  BY <1>2
<1> HIDE DEF n
<1>7. Head(sync_queue) \in Held
  BY <1>2, <1>3, <1>6 DEF Held
<1>8. \A x \in Held : x = Head(sync_queue) \/ x \in Held'
  <2> SUFFICES ASSUME NEW i \in 1 .. n + 1, sync_queue[i] # Head(sync_queue)
               PROVE  sync_queue[i] \in Held'
    BY <1>3 DEF Held
  <2>1. i - 1 \in DOMAIN sync_queue' /\ sync_queue[i] = sync_queue'[i - 1]
    BY <1>2, <1>3, <1>4
  <2> QED BY <2>1 DEF Held
<1>9. \A x \in Held' : x \in Held /\ x # Head(sync_queue)
  BY <1>2, <1>3, <1>5 DEF Held
<1> QED BY <1>7, <1>8, <1>9

\* The server that is about to unblock a client has the only duty for it.
LEMMA Copying ==
  ASSUME DutyInv, NEW s \in Servers, pc[s] \in TakePoints, entry[s].callee \notin Disturbed
  PROVE  /\ entry[s].callee \in Clients /\ Taking(s, entry[s].callee) /\ Waits(entry[s].callee)
         /\ \A t \in Servers : Taking(t, entry[s].callee) => t = s
<1>1. entry[s] \in Entries
  BY DEF DutyInv, DutyKnown
<1>2. entry[s].callee \in Clients /\ Taking(s, entry[s].callee)
  BY <1>1 DEF Entries, Taking, TakePoints
<1>3. \A t \in Servers : pc[t] \in TakePoints => t = s
  BY ContextAssumption DEF DutyInv, Owner, LockPoints, Contexts, Tasks
<1> QED BY <1>2, <1>3 DEF DutyInv, TakenWaits, Taking, TakePoints

LEMMA Answering ==
  ASSUME DutyInv, NEW s \in Servers, pc[s] \in {"p_write", "p_try", "p_rel"},
         entry[s].callee \notin Disturbed
  PROVE  /\ entry[s].callee \in Clients /\ entry[s] \in owed /\ Owes(entry[s])
         /\ Waits(entry[s].callee)
<1>1. entry[s] \in Entries /\ entry[s] \in owed
  BY DEF DutyInv, DutyKnown, Replies
<1>2. Owes(entry[s])
  BY <1>1 DEF DutyInv, RepliesOnce, Replies, Owes
<1> QED BY <1>1, <1>2 DEF DutyInv, OwedWaits, Entries

-----------------------------------------------------------------------------
(* Each kind of step keeps the duties *)

\* A server that is not taking a message or answering one moves on.
LEMMA QuietKeeps ==
  ASSUME tick \in Nat, Held \subseteq Entries, DutyInv,
         NEW s \in Servers, Quiet(s), Held' = Held
  PROVE  DutyInv'
<1> USE ContextAssumption DEF DutyInv, TaskTypes, Tasks, Contexts, Points, SendPoints,
      TakePoints, Replies, Disturbed, LockPoints, AwaitPoints, Quiet, local, Unlocked, Aside, Entries
<1>1. TaskTypes'
  <2>1. mutex' \in [Tasks -> BOOLEAN]
    <3>1. /\ mutex \in [Tasks -> BOOLEAN]
          /\ mutex' = mutex \/ mutex' = [mutex EXCEPT ![s] = TRUE]
      OBVIOUS
    <3> HIDE DEF DutyInv, TaskTypes, Tasks, Quiet
    <3> QED BY <3>1, BooleanFunctions
  <2>2. pc' \in [Contexts -> Points]
    OBVIOUS
  <2>3. awaiting_server' \in Servers \cup {NoTask} /\ elock' \in Tasks \cup {NoTask}
    OBVIOUS
  <2>4. UNCHANGED <<buf, kind, entry, wakee, owed>> /\ signaled' \in [Tasks -> BOOLEAN]
    OBVIOUS
  <2> QED BY <2>1, <2>2, <2>3, <2>4
<1>2. Roles' /\ Owner' /\ Awaits' /\ DutyKnown' /\ RepliesOnce'
  BY DEF Roles, Owner, Awaits, DutyKnown, RepliesOnce
<1>3. OneEntry' /\ QueuedOnly' /\ TakenOnly' /\ OwedOnce'
  BY DEF OneEntry, QueuedOnly, TakenOnly, OwedOnce, Taking, Owes
<1>4. QueuedWaits' /\ TakenWaits' /\ OwedWaits'
  BY DEF QueuedWaits, TakenWaits, OwedWaits, Taking, Owes, Waits
<1>5. SendersQueued'
  BY DEF SendersQueued
<1>6. SleepersServed'
  BY DEF SleepersServed, Taking, Owes
<1>7. Released'
  BY SMTT(30) DEF Roles, Owner, Awaits, DutyKnown, Released
<1>8. Resets'
  BY DEF Resets, Disables
<1> QED BY <1>1, <1>2, <1>3, <1>4, <1>5, <1>6, <1>7, <1>8

\* A send that fails at once only keeps the lock.
LEMMA IpcSendUnmappedKeeps ==
  ASSUME tick \in Nat, Held \subseteq Entries, DutyInv,
         NEW c \in Clients, ipc_send_unmapped(c), Held' = Held
  PROVE  DutyInv'
<1> USE ContextAssumption DEF DutyInv, TaskTypes, Tasks, Contexts, Points, SendPoints,
      TakePoints, Replies, Disturbed, LockPoints, AwaitPoints, ipc_send_unmapped, queue, local,
      Unlocked, Entries
<1>1. TaskTypes'
  OBVIOUS
<1>2. Roles' /\ Owner' /\ Awaits' /\ DutyKnown' /\ RepliesOnce'
  BY DEF Roles, Owner, Awaits, DutyKnown, RepliesOnce
<1>3. OneEntry' /\ QueuedOnly' /\ TakenOnly' /\ OwedOnce'
  BY DEF OneEntry, QueuedOnly, TakenOnly, OwedOnce, Taking, Owes
<1>4. QueuedWaits' /\ TakenWaits' /\ OwedWaits'
  BY DEF QueuedWaits, TakenWaits, OwedWaits, Taking, Owes, Waits
<1>5. SendersQueued'
  BY DEF SendersQueued
<1>6. SleepersServed'
  BY DEF SleepersServed, Taking, Owes
<1>7. Released'
  BY DEF Released
<1>8. Resets'
  BY DEF Resets, Disables
<1> QED BY <1>1, <1>2, <1>3, <1>4, <1>5, <1>6, <1>7, <1>8

\* An asynchronous sender is nobody's duty.
LEMMA IpcSendAsyncKeeps ==
  ASSUME tick \in Nat, Held \subseteq Entries, DutyInv,
         NEW c \in Clients, ipc_send_async(c), Held' = Held
  PROVE  DutyInv'
<1> USE ContextAssumption DEF DutyInv, TaskTypes, Tasks, Contexts, Points, SendPoints,
      TakePoints, Replies, Disturbed, LockPoints, AwaitPoints, ipc_send_async, Goto, Unlocked, Entries
<1>1. TaskTypes'
  OBVIOUS
<1>2. Roles' /\ Owner' /\ Awaits' /\ DutyKnown' /\ RepliesOnce'
  BY DEF Roles, Owner, Awaits, DutyKnown, RepliesOnce
<1>3. OneEntry' /\ QueuedOnly' /\ TakenOnly' /\ OwedOnce'
  <2>1. \A e : Owes(e)' = Owes(e)
    BY DEF Owes
  <2>2. OneEntry' /\ QueuedOnly'
    BY <2>1 DEF OneEntry, QueuedOnly, Taking
  <2>3. TakenOnly' /\ OwedOnce'
    BY <2>1 DEF TakenOnly, OwedOnce, Taking
  <2> QED BY <2>2, <2>3
<1>4. QueuedWaits' /\ TakenWaits' /\ OwedWaits'
  BY DEF QueuedWaits, TakenWaits, OwedWaits, Taking, Owes, Waits
<1>5. SendersQueued'
  BY DEF SendersQueued
<1>6. SleepersServed'
  BY DEF Roles, Owner, DutyKnown, SleepersServed, Taking, Owes
<1>7. Released'
  BY DEF Released
<1>8. Resets'
  BY DEF Resets, Disables
<1> QED BY <1>1, <1>2, <1>3, <1>4, <1>5, <1>6, <1>7, <1>8

\* A sender blocks itself before anybody can take its message: it has the lock.
LEMMA SendBlockKeeps ==
  ASSUME tick \in Nat, Held \subseteq Entries, DutyInv,
         NEW c \in Clients, send_block(c), Held' = Held
  PROVE  DutyInv'
<1> USE ContextAssumption DEF DutyInv, TaskTypes, Tasks, Contexts, Points, SendPoints,
      TakePoints, Replies, Disturbed, LockPoints, AwaitPoints, send_block, Goto, queue, local,
      mutex_acquire, Entries
<1>1. TaskTypes'
  OBVIOUS
<1>2. Roles' /\ Owner' /\ Awaits' /\ DutyKnown' /\ RepliesOnce'
  BY DEF Roles, Owner, Awaits, DutyKnown, RepliesOnce
<1>3. OneEntry' /\ QueuedOnly' /\ TakenOnly' /\ OwedOnce'
  BY DEF OneEntry, QueuedOnly, TakenOnly, OwedOnce, Taking, Owes
<1>4. QueuedWaits' /\ TakenWaits' /\ OwedWaits'
  BY SMTT(30) DEF Roles, Owner, QueuedWaits, TakenWaits, OwedWaits, SendersQueued, Taking, Owes,
    Waits
<1>5. SendersQueued'
  BY DEF SendersQueued
<1>6. SleepersServed'
  BY DEF SleepersServed, Taking, Owes
<1>7. Released'
  BY DEF Released
<1>8. Resets'
  BY DEF Resets, Disables
<1> QED BY <1>1, <1>2, <1>3, <1>4, <1>5, <1>6, <1>7, <1>8

\* The server to wake is the one that awaits a message.
LEMMA SendWakeKeeps ==
  ASSUME tick \in Nat, Held \subseteq Entries, DutyInv,
         NEW c \in Clients, send_wake(c), Held' = Held
  PROVE  DutyInv'
<1> USE ContextAssumption DEF DutyInv, TaskTypes, Tasks, Contexts, Points, SendPoints,
      TakePoints, Replies, Disturbed, LockPoints, AwaitPoints, send_wake, Goto, queue, Entries
<1>1. TaskTypes'
  OBVIOUS
<1>2. Roles' /\ Owner' /\ Awaits' /\ DutyKnown' /\ RepliesOnce'
  BY DEF Roles, Owner, Awaits, DutyKnown, RepliesOnce
<1>3. OneEntry' /\ QueuedOnly' /\ TakenOnly' /\ OwedOnce'
  BY DEF OneEntry, QueuedOnly, TakenOnly, OwedOnce, Taking, Owes
<1>4. QueuedWaits' /\ TakenWaits' /\ OwedWaits'
  BY DEF QueuedWaits, TakenWaits, OwedWaits, Taking, Owes, Waits
<1>5. SendersQueued'
  BY DEF SendersQueued
<1>6. SleepersServed'
  BY DEF SleepersServed, Taking, Owes
<1>7. Released'
  BY DEF Released
<1>8. Resets'
  BY DEF Resets, Disables
<1> QED BY <1>1, <1>2, <1>3, <1>4, <1>5, <1>6, <1>7, <1>8

\* The sender goes to sleep with its message in the ring.
LEMMA SendUnlockKeeps ==
  ASSUME tick \in Nat, Held \subseteq Entries, DutyInv,
         NEW c \in Clients, send_unlock(c), Held' = Held
  PROVE  DutyInv'
<1> USE ContextAssumption DEF DutyInv, TaskTypes, Tasks, Contexts, Points, SendPoints,
      TakePoints, Replies, Disturbed, LockPoints, AwaitPoints, send_unlock, Goto, queue, Entries
<1>1. TaskTypes'
  OBVIOUS
<1>2. Roles' /\ Owner' /\ Awaits' /\ DutyKnown' /\ RepliesOnce'
  BY DEF Roles, Owner, Awaits, DutyKnown, RepliesOnce
<1>3. OneEntry' /\ QueuedOnly' /\ TakenOnly' /\ OwedOnce'
  BY DEF OneEntry, QueuedOnly, TakenOnly, OwedOnce, Taking, Owes
<1>4. QueuedWaits' /\ TakenWaits' /\ OwedWaits'
  BY DEF QueuedWaits, TakenWaits, OwedWaits, Taking, Owes, Waits
<1>5. SendersQueued'
  BY DEF SendersQueued
<1>6. SleepersServed'
  BY SMTT(30) DEF Roles, Owner, QueuedWaits, SendersQueued, SleepersServed, Taking, Owes, Waits
<1>7. Released'
  BY DEF Released
<1>8. Resets'
  BY DEF Resets, Disables
<1> QED BY <1>1, <1>2, <1>3, <1>4, <1>5, <1>6, <1>7, <1>8

\* Only a sender whom nobody has to serve returns: its mutex is free.
LEMMA SendReturnKeeps ==
  ASSUME tick \in Nat, Held \subseteq Entries, DutyInv,
         NEW c \in Clients, send_return(c), Held' = Held
  PROVE  DutyInv'
<1> USE ContextAssumption DEF DutyInv, TaskTypes, Tasks, Contexts, Points, SendPoints,
      TakePoints, Replies, Disturbed, LockPoints, AwaitPoints, send_return, Goto, queue, Entries
<1>1. TaskTypes'
  OBVIOUS
<1>2. Roles' /\ Owner' /\ Awaits' /\ DutyKnown' /\ RepliesOnce'
  BY DEF Roles, Owner, Awaits, DutyKnown, RepliesOnce
<1>3. OneEntry' /\ QueuedOnly' /\ TakenOnly' /\ OwedOnce'
  BY DEF OneEntry, QueuedOnly, TakenOnly, OwedOnce, Taking, Owes
<1>4. QueuedWaits' /\ TakenWaits' /\ OwedWaits'
  BY DEF QueuedWaits, TakenWaits, OwedWaits, Taking, Owes, Waits
<1>5. SendersQueued'
  BY DEF SendersQueued
<1>6. SleepersServed'
  BY DEF SleepersServed, Taking, Owes
<1>7. Released'
  BY DEF Released
<1>8. Resets'
  BY DEF Resets, Disables
<1> QED BY <1>1, <1>2, <1>3, <1>4, <1>5, <1>6, <1>7, <1>8

\* Whoever takes a call owes the reply; a sender remains to be unblocked.
LEMMA ReceiveCopyKeeps ==
  ASSUME tick \in Nat, Held \subseteq Entries, DutyInv, Fresh,
         NEW s \in Servers, receive_copy(s), Held' = Held
  PROVE  DutyInv'
<1> USE ContextAssumption DEF DutyInv, TaskTypes, Tasks, Contexts, Points, SendPoints,
      TakePoints, Replies, Disturbed, LockPoints, AwaitPoints, receive_copy, Goto, queue, Entries
<1>1. TaskTypes'
  BY DEF Roles, Owner, DutyKnown
<1>2. Roles' /\ Owner' /\ Awaits' /\ DutyKnown' /\ RepliesOnce'
  BY DEF Roles, Owner, Awaits, DutyKnown, RepliesOnce
<1>3. OneEntry' /\ QueuedOnly' /\ TakenOnly' /\ OwedOnce'
  BY DEF Roles, Owner, DutyKnown, OneEntry, QueuedOnly, TakenOnly, OwedOnce, Taking, Owes
<1>4. QueuedWaits' /\ TakenWaits' /\ OwedWaits'
  <2>1. entry[s] \in Entries /\ Taking(s, entry[s].callee)
    BY DEF DutyKnown, Taking
  <2>2. QueuedWaits' /\ TakenWaits'
    BY DEF QueuedWaits, TakenWaits, Taking, Waits
  <2>3. \A e \in owed' : e = entry[s] \/ (e \in owed /\ Owes(e)' = Owes(e))
    BY DEF Owes
  <2>4. OwedWaits'
    BY <2>1, <2>3 DEF TakenWaits, OwedWaits, Waits
  <2> QED BY <2>2, <2>4
<1>5. SendersQueued'
  BY DEF SendersQueued
<1>6. SleepersServed'
  <2>1. entry[s] \in Entries /\ entry[s] \notin owed
    BY DEF DutyKnown, Fresh
  <2>2. entry[s].callee \notin Disturbed =>
           \A t \in Servers : ~ (pc[t] = "p_release" /\ entry[t] = entry[s])
    BY <2>1 DEF DutyKnown
  <2>3. entry[s].is_call /\ entry[s].callee \notin Disturbed =>
           entry[s] \in owed' /\ Owes(entry[s])'
    BY <2>1, <2>2 DEF Owes
  <2>4. \A e \in owed : e \in owed' /\ Owes(e)' = Owes(e)
    BY DEF Owes
  <2>5. \A t \in Servers, c \in Clients : Taking(t, c) =>
           Taking(t, c)' \/ (t = s /\ entry[s].is_call /\ entry[s].callee = c)
    BY DEF Taking
  <2> QED BY <2>1, <2>3, <2>4, <2>5 DEF SleepersServed
<1>7. Released'
  BY DEF Released
<1>8. Resets'
  BY DEF Resets, Disables
<1> QED BY <1>1, <1>2, <1>3, <1>4, <1>5, <1>6, <1>7, <1>8

\* The lock is released when the message has been dealt with.
LEMMA ReceiveUnlockKeeps ==
  ASSUME tick \in Nat, Held \subseteq Entries, DutyInv,
         NEW s \in Servers, receive_unlock(s), Held' = Held
  PROVE  DutyInv'
<1> USE ContextAssumption DEF DutyInv, TaskTypes, Tasks, Contexts, Points, SendPoints,
      TakePoints, Replies, Disturbed, LockPoints, AwaitPoints, receive_unlock, Goto, queue, Entries
<1>1. TaskTypes'
  OBVIOUS
<1>2. Roles' /\ Owner' /\ Awaits' /\ DutyKnown' /\ RepliesOnce'
  BY DEF Roles, Owner, Awaits, DutyKnown, RepliesOnce
<1>3. OneEntry' /\ QueuedOnly' /\ TakenOnly' /\ OwedOnce'
  BY DEF OneEntry, QueuedOnly, TakenOnly, OwedOnce, Taking, Owes
<1>4. QueuedWaits' /\ TakenWaits' /\ OwedWaits'
  BY DEF QueuedWaits, TakenWaits, OwedWaits, Taking, Owes, Waits
<1>5. SendersQueued'
  BY DEF SendersQueued
<1>6. SleepersServed'
  BY DEF SleepersServed, Taking, Owes
<1>7. Released'
  BY DEF Released
<1>8. Resets'
  BY DEF Resets, Disables
<1> QED BY <1>1, <1>2, <1>3, <1>4, <1>5, <1>6, <1>7, <1>8

\* The return task goes after its caller was unblocked.
LEMMA ReplyReleaseKeeps ==
  ASSUME tick \in Nat, Held \subseteq Entries, DutyInv,
         NEW s \in Servers, reply_release(s), Held' = Held
  PROVE  DutyInv'
<1> USE ContextAssumption DEF DutyInv, TaskTypes, Tasks, Contexts, Points, SendPoints,
      TakePoints, Replies, Disturbed, LockPoints, AwaitPoints, reply_release, Goto, queue, Entries
<1>1. TaskTypes'
  OBVIOUS
<1>2. Roles' /\ Owner' /\ Awaits' /\ DutyKnown' /\ RepliesOnce'
  BY DEF Roles, Owner, Awaits, DutyKnown, RepliesOnce
<1>3. OneEntry' /\ QueuedOnly' /\ TakenOnly' /\ OwedOnce'
  BY DEF OneEntry, QueuedOnly, TakenOnly, OwedOnce, Taking, Owes
<1>4. QueuedWaits' /\ TakenWaits' /\ OwedWaits'
  BY DEF QueuedWaits, TakenWaits, OwedWaits, Taking, Owes, Waits
<1>5. SendersQueued'
  BY DEF SendersQueued
<1>6. SleepersServed'
  BY DEF SleepersServed, Taking, Owes
<1>7. Released'
  BY DEF Released
<1>8. Resets'
  BY DEF Resets, Disables
<1> QED BY <1>1, <1>2, <1>3, <1>4, <1>5, <1>6, <1>7, <1>8

\* A signal concerns attached tasks.
LEMMA SignalTriggerKeeps ==
  ASSUME tick \in Nat, Held \subseteq Entries, DutyInv,
         NEW t \in Attached, signal_trigger(t), Held' = Held
  PROVE  DutyInv'
<1> USE ContextAssumption DEF DutyInv, TaskTypes, Tasks, Contexts, Points, SendPoints,
      TakePoints, Replies, Disturbed, LockPoints, AwaitPoints, signal_trigger, Goto, queue, Entries
<1>1. TaskTypes'
  OBVIOUS
<1>2. Roles' /\ Owner' /\ Awaits' /\ DutyKnown' /\ RepliesOnce'
  BY DEF Roles, Owner, Awaits, DutyKnown, RepliesOnce
<1>3. OneEntry' /\ QueuedOnly' /\ TakenOnly' /\ OwedOnce'
  BY DEF OneEntry, QueuedOnly, TakenOnly, OwedOnce, Taking, Owes
<1>4. QueuedWaits' /\ TakenWaits' /\ OwedWaits'
  BY DEF QueuedWaits, TakenWaits, OwedWaits, Taking, Owes, Waits
<1>5. SendersQueued'
  BY DEF SendersQueued
<1>6. SleepersServed'
  BY DEF SleepersServed, Taking, Owes
<1>7. Released'
  BY DEF Released
<1>8. Resets'
  BY DEF Resets, Disables
<1> QED BY <1>1, <1>2, <1>3, <1>4, <1>5, <1>6, <1>7, <1>8

\* The try_lock of mutex_release only ever locks.
LEMMA MutexReleaseTryKeeps ==
  ASSUME tick \in Nat, Held \subseteq Entries, DutyInv,
         NEW x \in Contexts, mutex_release_try(x), Held' = Held
  PROVE  DutyInv'
<1> USE ContextAssumption DEF DutyInv, TaskTypes, Tasks, Contexts, Points, SendPoints,
      TakePoints, Replies, Disturbed, LockPoints, AwaitPoints, mutex_release_try, Goto, queue, local,
      Entries
<1>1. TaskTypes'
  BY SMTT(30) DEF Roles, Owner, Awaits, DutyKnown, Released
<1>2. Roles' /\ Owner' /\ Awaits' /\ DutyKnown' /\ RepliesOnce'
  BY DEF Roles, Owner, Awaits, DutyKnown, RepliesOnce
<1>3. OneEntry' /\ QueuedOnly' /\ TakenOnly' /\ OwedOnce'
  BY DEF OneEntry, QueuedOnly, TakenOnly, OwedOnce, Taking, Owes
<1>4. QueuedWaits' /\ TakenWaits' /\ OwedWaits'
  BY DEF QueuedWaits, TakenWaits, OwedWaits, Taking, Owes, Waits
<1>5. SendersQueued'
  BY DEF SendersQueued
<1>6. SleepersServed'
  <2> DEFINE w == wakee[x]
  <2>1. pc[x] = "s_try" => w = awaiting_server /\ w \in Servers /\ pc[w] \in AwaitPoints
    BY DEF Roles, Awaits
  <2>2. x \in Servers /\ pc[x] = "r_try" /\ w \notin Disturbed => Taking(x, w) /\ Waits(w)
    BY Copying DEF DutyKnown
  <2>3. x \in Servers /\ pc[x] = "p_try" /\ w \notin Disturbed =>
           entry[x] \in owed /\ entry[x].callee = w /\ Owes(entry[x]) /\ Waits(w)
    BY Answering DEF DutyKnown
  <2>4. pc[x] = "g_try" => w \in Attached
    BY DEF Roles
  <2>5. pc[x] \in {"r_try", "p_try"} => x \in Servers
    BY DEF Roles
  <2>6. \A c \in Clients \ Disturbed : pc'[c] = "s_sleep" /\ mutex'[c] =>
           pc[c] = "s_sleep" /\ (mutex[c] \/ c = w)
    OBVIOUS
  <2>7. \A c \in Clients \ Disturbed : pc[c] = "s_sleep" /\ c = w => mutex[c]
    BY <2>1, <2>2, <2>3, <2>4, <2>5 DEF Waits
  <2>8. \A e : Owes(e)' = Owes(e)
    BY DEF Owes
  <2>9. \A s \in Servers, c \in Clients : Taking(s, c) => Taking(s, c)'
    BY DEF Taking
  <2> QED BY <2>6, <2>7, <2>8, <2>9 DEF SleepersServed
<1>7. Released'
  BY SMTT(30) DEF Roles, Owner, Awaits, DutyKnown, Released
<1>8. Resets'
  <2> DEFINE w == wakee[x]
  <2>1. pc[x] = "s_try" => w = awaiting_server /\ w \in Servers /\ pc[w] \in AwaitPoints
    BY DEF Roles, Awaits
  <2>2. x \in Servers /\ pc[x] = "r_try" /\ w \notin Disturbed => Taking(x, w) /\ Waits(w)
    BY Copying DEF DutyKnown
  <2>3. x \in Servers /\ pc[x] = "p_try" /\ w \notin Disturbed =>
           entry[x] \in owed /\ entry[x].callee = w /\ Owes(entry[x]) /\ Waits(w)
    BY Answering DEF DutyKnown
  <2>4. pc[x] = "g_try" => w \in Attached
    BY DEF Roles
  <2>5. pc[x] \in {"r_try", "p_try"} => x \in Servers
    BY DEF Roles
  <2>6. resolving # NoTask => pc[x] # "s_try" /\ pc'[resolving] = pc[resolving]
    BY DEF Roles, Resets, Disables
  <2>7. resolving = w /\ pc[w] = "s_sleep" /\ w \notin Disturbed /\ resolving # NoTask => mutex[w]
    BY <2>2, <2>3, <2>4, <2>5, <2>6 DEF Waits
  <2>8. \A c \in Clients : Disables(c)' => Disables(c)
    BY DEF Disables
  <2> QED BY <2>6, <2>7, <2>8 DEF Resets
<1> QED BY <1>1, <1>2, <1>3, <1>4, <1>5, <1>6, <1>7, <1>8

\* Releasing a mutex ends the one duty that was for its task.
LEMMA MutexReleaseKeeps ==
  ASSUME tick \in Nat, Held \subseteq Entries, DutyInv,
         NEW x \in Contexts, mutex_release(x), Held' = Held
  PROVE  DutyInv'
<1> USE ContextAssumption DEF DutyInv, TaskTypes, Tasks, Contexts, Points, SendPoints,
      TakePoints, Replies, Disturbed, LockPoints, AwaitPoints, mutex_release, Goto, queue, local,
      Entries
<1>1. TaskTypes'
  BY SMTT(30) DEF Roles, Owner, Awaits, DutyKnown, Released
<1>2. Roles' /\ Owner' /\ Awaits' /\ DutyKnown' /\ RepliesOnce'
  BY DEF Roles, Owner, Awaits, DutyKnown, RepliesOnce
<1>3. OneEntry' /\ QueuedOnly' /\ TakenOnly' /\ OwedOnce'
  BY DEF OneEntry, QueuedOnly, TakenOnly, OwedOnce, Taking, Owes
<1>4. QueuedWaits' /\ TakenWaits' /\ OwedWaits'
  <2> DEFINE w == wakee[x]
  <2>1. pc[x] = "s_rel" => w = awaiting_server /\ w \in Servers /\ pc[w] \in AwaitPoints
    BY DEF Roles, Awaits
  <2>2. x \in Servers /\ pc[x] = "r_rel" /\ w \notin Disturbed => Taking(x, w) /\ Waits(w)
    BY Copying DEF DutyKnown
  <2>3. x \in Servers /\ pc[x] = "p_rel" /\ w \notin Disturbed =>
           entry[x] \in owed /\ entry[x].callee = w /\ Owes(entry[x]) /\ Waits(w)
    BY Answering DEF DutyKnown
  <2>4. pc[x] = "g_rel" => w \in Attached
    BY DEF Roles
  <2>5. pc[x] \in {"r_rel", "p_rel"} => x \in Servers
    BY DEF Roles
  <2>6. \A e : Owes(e)' => Owes(e)
    BY DEF Owes
  <2>7. pc[x] = "p_rel" => ~ Owes(entry[x])'
    BY <2>5 DEF Owes
  <2>8. \A s \in Servers, c \in Clients : Taking(s, c)' => Taking(s, c) /\ s # x
    BY DEF Taking
  <2>9. \A c \in Clients : Waits(c) /\ c # w => Waits(c)'
    BY DEF Waits
  <2>10. \A c \in Clients : Waits(c) => pc[c] \notin AwaitPoints
    BY DEF Waits
  <2>11. QueuedWaits'
    BY <2>1, <2>2, <2>3, <2>4, <2>5, <2>9, <2>10 DEF QueuedOnly, QueuedWaits
  <2>12. \A s \in Servers : pc[x] = "r_rel" /\ Taking(s, w) /\ w \notin Disturbed => s = x
    BY <2>5, Copying DEF DutyKnown
  <2>13. TakenWaits'
    BY <2>1, <2>2, <2>3, <2>4, <2>5, <2>8, <2>9, <2>10, <2>12 DEF TakenOnly, TakenWaits, Taking
  <2>14. OwedWaits'
    BY <2>1, <2>2, <2>3, <2>4, <2>5, <2>6, <2>7, <2>9, <2>10 DEF TakenOnly, OwedOnce, OwedWaits
  <2> QED BY <2>11, <2>13, <2>14
<1>5. SendersQueued'
  BY DEF SendersQueued
<1>6. SleepersServed'
  BY DEF Roles, Owner, DutyKnown, SleepersServed, Taking, Owes
<1>7. Released'
  <2> DEFINE w == wakee[x]
  <2>1. pc[x] = "s_rel" => w = awaiting_server /\ w \in Servers /\ pc[w] \in AwaitPoints
    BY DEF Roles, Awaits
  <2>2. x \in Servers /\ pc[x] = "r_rel" /\ w \notin Disturbed => Taking(x, w) /\ Waits(w)
    BY Copying DEF DutyKnown
  <2>3. x \in Servers /\ pc[x] = "p_rel" /\ w \notin Disturbed =>
           entry[x] \in owed /\ entry[x].callee = w /\ Owes(entry[x]) /\ Waits(w)
    BY Answering DEF DutyKnown
  <2>4. pc[x] = "g_rel" => w \in Attached
    BY DEF Roles
  <2>5. pc[x] \in {"r_rel", "p_rel"} => x \in Servers
    BY DEF Roles
  <2> SUFFICES ASSUME NEW y \in Contexts, y # x, wakee[y] = w, w \notin Disturbed
               PROVE  pc[y] \notin {"s_rel", "r_rel", "p_rel"}
    BY DEF Released
  <2>6. pc[y] = "s_rel" => w = awaiting_server /\ w \in Servers /\ pc[w] \in AwaitPoints
    BY DEF Roles, Awaits
  <2>7. pc[y] = "r_rel" => y \in Servers /\ Taking(y, w) /\ Waits(w)
    BY Copying DEF DutyKnown, Roles
  <2>8. pc[y] = "p_rel" => y \in Servers /\ entry[y] \in owed /\ entry[y].callee = w
                          /\ Owes(entry[y]) /\ Waits(w)
    BY Answering DEF DutyKnown, Roles
  <2>9. Waits(w) => pc[w] \notin AwaitPoints
    BY DEF Waits
  <2>10. pc[x] \in {"s_rel", "r_rel"} => pc[y] \notin {"s_rel", "r_rel"}
    BY DEF Owner
  <2>11. pc[x] = "p_rel" /\ pc[y] = "p_rel" => FALSE
    BY <2>3, <2>5, <2>8 DEF OwedOnce, RepliesOnce
  <2>12. pc[x] = "p_rel" => pc[y] # "r_rel"
    BY <2>3, <2>5, <2>7 DEF TakenOnly
  <2>13. pc[x] = "r_rel" => pc[y] # "p_rel"
    BY <2>2, <2>5, <2>8 DEF TakenOnly
  <2>14. pc[x] # "g_rel"
    BY <2>4
  <2> QED BY <2>1, <2>2, <2>3, <2>5, <2>6, <2>7, <2>8, <2>9, <2>10, <2>11, <2>12, <2>13, <2>14
<1>8. Resets'
  BY DEF Resets, Disables
<1> QED BY <1>1, <1>2, <1>3, <1>4, <1>5, <1>6, <1>7, <1>8

\* A release finds the mutex of a disturbed task free, and of no other.
LEMMA MutexReleaseUnlockedKeeps ==
  ASSUME tick \in Nat, Held \subseteq Entries, DutyInv,
         NEW x \in Contexts, mutex_release_unlocked(x), Held' = Held
  PROVE  DutyInv'
<1> USE ContextAssumption DEF DutyInv, TaskTypes, Tasks, Contexts, Points, SendPoints,
      TakePoints, Replies, Disturbed, LockPoints, AwaitPoints, mutex_release_unlocked, queue, local,
      Entries
<1>1. TaskTypes'
  OBVIOUS
<1>2. Roles' /\ Owner' /\ Awaits' /\ DutyKnown' /\ RepliesOnce'
  BY DEF Roles, Owner, Awaits, DutyKnown, RepliesOnce
<1>3. OneEntry' /\ QueuedOnly' /\ TakenOnly' /\ OwedOnce'
  BY DEF OneEntry, QueuedOnly, TakenOnly, OwedOnce, Taking, Owes
<1>4. QueuedWaits' /\ TakenWaits' /\ OwedWaits'
  BY DEF QueuedWaits, TakenWaits, OwedWaits, Taking, Owes, Waits
<1>5. SendersQueued'
  BY DEF SendersQueued
<1>6. SleepersServed'
  BY DEF Roles, Owner, DutyKnown, SleepersServed, Taking, Owes
<1>7. Released'
  BY DEF Roles, Owner, DutyKnown, Released
<1>8. Resets'
  BY DEF Resets, Disables
<1> QED BY <1>1, <1>2, <1>3, <1>4, <1>5, <1>6, <1>7, <1>8

\* A client that sends was idle: no duty for it was left.
LEMMA IpcSendKeeps ==
  ASSUME tick \in Nat, Held \subseteq Entries, DutyInv,
         NEW c \in Clients, NEW k \in {"send", "call"}, NEW e \in Entries, ipc_send(c, k),
         e.callee = c, e.tick = tick, Held' = Held \cup {e}
  PROVE  DutyInv'
<1> USE ContextAssumption DEF DutyInv, TaskTypes, Tasks, Contexts, Points, SendPoints,
      TakePoints, Replies, Disturbed, LockPoints, AwaitPoints, ipc_send, Goto, Unlocked, Entries
<1>1. TaskTypes'
  OBVIOUS
<1>2. Roles' /\ Owner' /\ Awaits' /\ DutyKnown' /\ RepliesOnce'
  BY DEF Roles, Owner, Awaits, DutyKnown, RepliesOnce
<1>3. OneEntry' /\ QueuedOnly' /\ TakenOnly' /\ OwedOnce'
  <2>1. c \in Disturbed \/ \A f \in Held : f.callee # c
    BY DEF QueuedWaits, Waits
  <2>2. c \in Disturbed \/ /\ \A s \in Servers : ~ Taking(s, c)
                           /\ \A f \in owed : f.callee = c => ~ Owes(f)
    BY DEF TakenWaits, OwedWaits, Waits, Taking
  <2>3. OneEntry'
    BY <2>1 DEF OneEntry
  <2>4. QueuedOnly'
    BY <2>2 DEF QueuedOnly, Taking, Owes
  <2>5. TakenOnly' /\ OwedOnce'
    <3>1. \A f : Owes(f)' = Owes(f)
      BY DEF Owes
    <3> QED BY <3>1 DEF TakenOnly, OwedOnce, Taking
  <2> QED BY <2>3, <2>4, <2>5
<1>4. QueuedWaits' /\ TakenWaits' /\ OwedWaits'
  BY DEF QueuedWaits, TakenWaits, OwedWaits, Taking, Owes, Waits
<1>5. SendersQueued'
  BY DEF SendersQueued
<1>6. SleepersServed'
  BY SMTT(30) DEF Roles, Owner, Awaits, DutyKnown, SleepersServed, Released, Taking, Owes
<1>7. Released'
  BY DEF Released
<1>8. Resets'
  BY DEF Resets, Disables
<1> QED BY <1>1, <1>2, <1>3, <1>4, <1>5, <1>6, <1>7, <1>8

\* A server takes a message: the duty passes from the ring to the server.
LEMMA TakeKeeps ==
  ASSUME tick \in Nat, Held \subseteq Entries, DutyInv,
         NEW s \in Servers, Take(s), Held' = Held \ {Head(sync_queue)}
  PROVE  DutyInv'
<1> USE ContextAssumption DEF DutyInv, TaskTypes, Tasks, Contexts, Points, SendPoints,
      TakePoints, Replies, Disturbed, LockPoints, AwaitPoints, Take, local, Unlocked, Entries
<1>1. TaskTypes'
  OBVIOUS
<1>2. Roles' /\ Owner' /\ Awaits' /\ DutyKnown' /\ RepliesOnce'
  BY DEF Roles, Owner, Awaits, DutyKnown, RepliesOnce
<1>3. OneEntry' /\ QueuedOnly' /\ TakenOnly' /\ OwedOnce'
  <2>1. \A e : Owes(e)' = Owes(e)
    BY DEF Owes
  <2>2. OneEntry' /\ QueuedOnly'
    BY <2>1 DEF OneEntry, QueuedOnly, Taking
  <2>3. TakenOnly' /\ OwedOnce'
    BY <2>1 DEF QueuedOnly, TakenOnly, OwedOnce, Taking
  <2> QED BY <2>2, <2>3
<1>4. QueuedWaits' /\ TakenWaits' /\ OwedWaits'
  BY DEF Roles, Owner, DutyKnown, QueuedWaits, TakenWaits, OwedWaits, Taking, Owes, Waits
<1>5. SendersQueued'
  BY DEF Roles, Owner, DutyKnown, SendersQueued
<1>6. SleepersServed'
  BY DEF SleepersServed, Taking, Owes
<1>7. Released'
  BY DEF Released
<1>8. Resets'
  BY DEF Resets, Disables
<1> QED BY <1>1, <1>2, <1>3, <1>4, <1>5, <1>6, <1>7, <1>8

\* A second server that finds the return task disturbs the caller.
LEMMA ReplyLookUpKeeps ==
  ASSUME tick \in Nat, Held \subseteq Entries, DutyInv,
         NEW s \in Servers, NEW e \in owed, reply_look_up(s, e), Held' = Held
  PROVE  DutyInv'
<1> USE ContextAssumption DEF DutyInv, TaskTypes, Tasks, Contexts, Points, SendPoints,
      TakePoints, Replies, Disturbed, LockPoints, AwaitPoints, reply_look_up, Goto, queue, local, Entries
<1>1. TaskTypes'
  OBVIOUS
<1>2. Roles' /\ Owner' /\ Awaits' /\ DutyKnown' /\ RepliesOnce'
  BY DEF Roles, Owner, Awaits, DutyKnown, RepliesOnce
<1>3. OneEntry' /\ QueuedOnly' /\ TakenOnly' /\ OwedOnce'
  BY DEF OneEntry, QueuedOnly, TakenOnly, OwedOnce, Taking, Owes
<1>4. QueuedWaits' /\ TakenWaits' /\ OwedWaits'
  BY DEF QueuedWaits, TakenWaits, OwedWaits, Taking, Owes, Waits
<1>5. SendersQueued'
  BY DEF SendersQueued
<1>6. SleepersServed'
  BY DEF SleepersServed, Taking, Owes
<1>7. Released'
  BY DEF Released
<1>8. Resets'
  BY DEF Resets, Disables
<1> QED BY <1>1, <1>2, <1>3, <1>4, <1>5, <1>6, <1>7, <1>8

\* Only the server that owes a reply writes the caller's buffer.
LEMMA IpcReplyKeeps ==
  ASSUME tick \in Nat, Held \subseteq Entries, DutyInv,
         NEW s \in Servers, ipc_reply(s), Held' = Held
  PROVE  DutyInv'
<1> USE ContextAssumption DEF DutyInv, TaskTypes, Tasks, Contexts, Points, SendPoints,
      TakePoints, Replies, Disturbed, LockPoints, AwaitPoints, ipc_reply, Goto, queue, Entries
<1>1. TaskTypes'
  BY DEF NoMsg, DutyKnown
<1>2. Roles' /\ Owner' /\ Awaits' /\ DutyKnown' /\ RepliesOnce'
  BY DEF Roles, Owner, Awaits, DutyKnown, RepliesOnce
<1>3. OneEntry' /\ QueuedOnly' /\ TakenOnly' /\ OwedOnce'
  BY DEF OneEntry, QueuedOnly, TakenOnly, OwedOnce, Taking, Owes
<1>4. QueuedWaits' /\ TakenWaits' /\ OwedWaits'
  <2> DEFINE c == entry[s].callee
  <2>1. c \notin Disturbed => c \in Clients /\ entry[s] \in owed /\ Owes(entry[s])
    BY Answering
  <2>2. \A e : Owes(e)' = Owes(e)
    BY DEF Owes
  <2>3. \A d \in Clients : Waits(d)' = Waits(d)
    BY DEF Waits
  <2>4. \A d \in Clients : d # c => buf'[d] = buf[d]
    OBVIOUS
  <2>5. c \notin Disturbed => (\A e \in Held : e.callee # c) /\ \A t \in Servers : ~ Taking(t, c)
    BY <2>1 DEF QueuedOnly, TakenOnly
  <2>6. \A t \in Servers, d \in Clients : Taking(t, d)' => Taking(t, d)
    BY DEF Taking
  <2> HIDE DEF c
  <2>7. QueuedWaits'
    BY <2>3, <2>4, <2>5 DEF QueuedWaits
  <2>8. TakenWaits'
    BY <2>3, <2>4, <2>5, <2>6 DEF TakenWaits
  <2>9. OwedWaits'
    BY <2>2, <2>3 DEF OwedWaits
  <2> QED BY <2>7, <2>8, <2>9
<1>5. SendersQueued'
  BY DEF SendersQueued
<1>6. SleepersServed'
  BY DEF SleepersServed, Taking, Owes
<1>7. Released'
  BY DEF Released
<1>8. Resets'
  BY DEF Resets, Disables
<1> QED BY <1>1, <1>2, <1>3, <1>4, <1>5, <1>6, <1>7, <1>8

\* The scheduler finds a mutex free while no sender has scheduler_lock.
LEMMA ResolveTestKeeps ==
  ASSUME tick \in Nat, Held \subseteq Entries, DutyInv,
         NEW t \in Tasks, resolve_test(t), Held' = Held
  PROVE  DutyInv'
<1> USE ContextAssumption DEF DutyInv, TaskTypes, Tasks, Contexts, Points, SendPoints,
      TakePoints, Replies, Disturbed, LockPoints, AwaitPoints, resolve_test, queue, local, Entries
<1>1. TaskTypes'
  OBVIOUS
<1>2. Roles' /\ Owner' /\ Awaits' /\ DutyKnown' /\ RepliesOnce'
  BY DEF Roles, Owner, Awaits, DutyKnown, RepliesOnce
<1>3. OneEntry' /\ QueuedOnly' /\ TakenOnly' /\ OwedOnce'
  BY DEF OneEntry, QueuedOnly, TakenOnly, OwedOnce, Taking, Owes
<1>4. QueuedWaits' /\ TakenWaits' /\ OwedWaits'
  BY DEF QueuedWaits, TakenWaits, OwedWaits, Taking, Owes, Waits
<1>5. SendersQueued'
  BY DEF SendersQueued
<1>6. SleepersServed'
  BY DEF SleepersServed, Taking, Owes
<1>7. Released'
  BY DEF Released
<1>8. Resets'
  BY DEF Resets, Disables
<1> QED BY <1>1, <1>2, <1>3, <1>4, <1>5, <1>6, <1>7, <1>8

\* The mutex that is reset is nobody's to release.
LEMMA ResolveResetKeeps ==
  ASSUME tick \in Nat, Held \subseteq Entries, DutyInv,
         resolve_reset, Held' = Held
  PROVE  DutyInv'
<1> USE ContextAssumption DEF DutyInv, TaskTypes, Tasks, Contexts, Points, SendPoints,
      TakePoints, Replies, Disturbed, LockPoints, AwaitPoints, resolve_reset, queue, local, Entries
<1>1. TaskTypes'
  OBVIOUS
<1>2. Roles' /\ Owner' /\ Awaits' /\ DutyKnown' /\ RepliesOnce'
  BY DEF Roles, Owner, Awaits, DutyKnown, RepliesOnce
<1>3. OneEntry' /\ QueuedOnly' /\ TakenOnly' /\ OwedOnce'
  BY DEF OneEntry, QueuedOnly, TakenOnly, OwedOnce, Taking, Owes
<1>4. QueuedWaits' /\ TakenWaits' /\ OwedWaits'
  BY DEF QueuedWaits, TakenWaits, OwedWaits, Taking, Owes, Waits, Resets
<1>5. SendersQueued'
  BY DEF SendersQueued
<1>6. SleepersServed'
  BY DEF SleepersServed, Taking, Owes
<1>7. Released'
  BY SMTT(40) DEF Roles, Owner, Awaits, DutyKnown, RepliesOnce, TakenWaits, OwedWaits, Resets, Disables,
    Released, Taking, Owes, Waits
<1>8. Resets'
  BY DEF Resets, Disables
<1> QED BY <1>1, <1>2, <1>3, <1>4, <1>5, <1>6, <1>7, <1>8

-----------------------------------------------------------------------------
\* At the start nobody waits.
LEMMA InitDutyInv == Init => DutyInv
<1> SUFFICES ASSUME Init PROVE DutyInv
  OBVIOUS
<1>1. Held = {}
  BY DEF Init, Held
<1>2. TaskTypes
  BY ContextAssumption DEF Init, TaskTypes, Tasks, Contexts, Points, NoMsg
<1>3. /\ Roles /\ Owner /\ Awaits /\ DutyKnown /\ RepliesOnce /\ Resets
      /\ SendersQueued /\ SleepersServed /\ Released
  BY DEF Init, Roles, Owner, Awaits, DutyKnown, RepliesOnce, Resets, SendersQueued, SleepersServed, Released, Tasks,
         Contexts, SendPoints, TakePoints, Replies, Disturbed, LockPoints, AwaitPoints
<1>4. /\ OneEntry /\ QueuedOnly /\ TakenOnly /\ OwedOnce
      /\ QueuedWaits /\ TakenWaits /\ OwedWaits
  BY <1>1 DEF Init, OneEntry, QueuedOnly, TakenOnly, OwedOnce, QueuedWaits, TakenWaits, OwedWaits,
         Taking, Owes, Tasks, Contexts
<1> QED BY <1>2, <1>3, <1>4 DEF DutyInv

\* The steps of a client
LEMMA SendKeepsDuty ==
  ASSUME QueueInv, DutyInv, NEW c \in Clients, Send(c) PROVE DutyInv'
<1>0. tick \in Nat /\ sync_queue \in Seq(Entries) /\ Held \subseteq Entries
  BY HeldEntries DEF QueueInv, RingTypes
<1>1. ASSUME NEW k \in {"send", "call"}, ipc_send(c, k) PROVE DutyInv'
  <2> DEFINE e == [callee |-> c, is_call |-> (k = "call"), tick |-> tick]
  <2>1. e \in Entries /\ e.callee = c /\ e.tick = tick
    BY <1>0 DEF Entries
  <2>2. sync_queue' = Append(sync_queue, e)
    BY <1>1 DEF ipc_send
  <2> HIDE DEF e
  <2>3. Held' = Held \cup {e}
    BY <1>0, <2>1, <2>2, HeldPush
  <2> QED BY <1>0, <1>1, <2>1, <2>3, IpcSendKeeps
<1>2. CASE ipc_send_unmapped(c)
  BY <1>0, <1>2, IpcSendUnmappedKeeps DEF ipc_send_unmapped, queue, Held
<1>3. CASE ipc_send_async(c)
  BY <1>0, <1>3, IpcSendAsyncKeeps DEF ipc_send_async, Held
<1>4. CASE send_block(c)
  BY <1>0, <1>4, SendBlockKeeps DEF send_block, queue, Held
<1>5. CASE send_wake(c)
  BY <1>0, <1>5, SendWakeKeeps DEF send_wake, queue, Held
<1>6. CASE send_unlock(c)
  BY <1>0, <1>6, SendUnlockKeeps DEF send_unlock, queue, Held
<1>7. CASE send_return(c)
  BY <1>0, <1>7, SendReturnKeeps DEF send_return, queue, Held
<1> QED BY <1>1, <1>2, <1>3, <1>4, <1>5, <1>6, <1>7 DEF Send

\* The steps of a server
LEMMA ReceiveKeepsDuty ==
  ASSUME QueueInv, DutyInv, Fresh, NEW s \in Servers, Receive(s) PROVE DutyInv'
<1>0. tick \in Nat /\ sync_queue \in Seq(Entries) /\ Held \subseteq Entries
  BY HeldEntries DEF QueueInv, RingTypes
<1>1. CASE \/ ipc_receive(s) \/ receive_check(s) \/ receive_block(s) \/ receive_wake(s)
           \/ receive_nothing(s) \/ ipc_receive_async(s) \/ poll_nothing(s) \/ poll_empty_ring(s)
  <2>1. Quiet(s) /\ Held' = Held
    BY <1>1 DEF ipc_receive, receive_check, receive_block, receive_wake, receive_nothing,
       ipc_receive_async, poll_nothing, poll_empty_ring, mutex_acquire, queue, local, Goto, Held,
       Quiet, Aside, AwaitPoints, DutyInv, TaskTypes
  <2> QED BY <1>0, <2>1, QuietKeeps
<1>2. CASE receive_interrupted(s) \/ receive_async_message(s) \/ poll_async_message(s)
  <2>1. signaled' \in [Tasks -> BOOLEAN]
    BY <1>2, BooleanFunctions DEF receive_interrupted, receive_async_message, poll_async_message,
       DutyInv, TaskTypes
  <2>2. Quiet(s) /\ Held' = Held
    BY <1>2, <2>1 DEF receive_interrupted, receive_async_message, poll_async_message, pop_async,
       queue, local, Goto, Held, Quiet, Aside, AwaitPoints
  <2> QED BY <1>0, <2>2, QuietKeeps
<1>3. CASE receive_sync_message(s) \/ poll_sync_message(s)
  <2>1. sync_queue # <<>> /\ sync_queue' = Tail(sync_queue)
    BY <1>3 DEF receive_sync_message, poll_sync_message, pop_sync, take_async
  <2>2. Head(sync_queue) \in Held /\ Held' = Held \ {Head(sync_queue)}
    BY <2>1, HeldPop
  <2>3. Take(s)
    BY <1>3, <2>2 DEF receive_sync_message, poll_sync_message, pop_sync, Goto, Take
  <2> QED BY <1>0, <2>2, <2>3, TakeKeeps
<1>4. CASE receive_copy(s)
  BY <1>0, <1>4, ReceiveCopyKeeps DEF receive_copy, queue, Held
<1>5. CASE receive_unlock(s)
  BY <1>0, <1>5, ReceiveUnlockKeeps DEF receive_unlock, queue, Held
<1> QED BY <1>1, <1>2, <1>3, <1>4, <1>5 DEF Receive, Zenon

\* All steps
LEMMA DutyInvNext == QueueInv /\ DutyInv /\ Fresh /\ [Next]_vars => DutyInv'
<1> SUFFICES ASSUME QueueInv, DutyInv, Fresh, [Next]_vars PROVE DutyInv'
  OBVIOUS
<1>0. tick \in Nat /\ sync_queue \in Seq(Entries) /\ Held \subseteq Entries
  BY HeldEntries DEF QueueInv, RingTypes
<1>1. ASSUME NEW s \in Servers, Reply(s) PROVE DutyInv'
  <2>1. CASE ipc_reply(s)
    BY <1>0, <2>1, IpcReplyKeeps DEF ipc_reply, queue, Held
  <2>2. CASE reply_release(s)
    BY <1>0, <2>2, ReplyReleaseKeeps DEF reply_release, queue, Held
  <2>3. ASSUME NEW e \in owed, reply_look_up(s, e) PROVE DutyInv'
    BY <1>0, <2>3, ReplyLookUpKeeps DEF reply_look_up, queue, Held
  <2> QED BY <1>1, <2>1, <2>2, <2>3 DEF Reply
<1>2. ASSUME NEW t \in Attached, signal_trigger(t) PROVE DutyInv'
  BY <1>0, <1>2, SignalTriggerKeeps DEF signal_trigger, queue, Held
<1>3. ASSUME NEW x \in Contexts,
             mutex_release_try(x) \/ mutex_release(x) \/ mutex_release_unlocked(x)
      PROVE  DutyInv'
  <2>1. Held' = Held
    BY <1>3 DEF mutex_release_try, mutex_release, mutex_release_unlocked, queue, Held
  <2> QED BY <1>0, <1>3, <2>1, MutexReleaseTryKeeps, MutexReleaseKeeps, MutexReleaseUnlockedKeeps
<1>4. CASE UNCHANGED vars
  BY <1>4 DEF vars, queue, local, Held, DutyInv, TaskTypes, Roles, Owner, Awaits, DutyKnown,
     OneEntry, QueuedOnly, TakenOnly, OwedOnce, QueuedWaits, TakenWaits, OwedWaits, SendersQueued,
     SleepersServed, Released, RepliesOnce, Resets, Disables, Disturbed, Taking, Owes, Waits
<1>5. ASSUME NEW t \in Tasks, resolve_test(t) PROVE DutyInv'
  BY <1>0, <1>5, ResolveTestKeeps DEF resolve_test, queue, Held
<1>6. CASE resolve_reset
  BY <1>0, <1>6, ResolveResetKeeps DEF resolve_reset, queue, Held
<1> QED BY <1>1, <1>2, <1>3, <1>4, <1>5, <1>6, SendKeepsDuty, ReceiveKeepsDuty DEF Next

\* An entry is new when it is queued, and moves from the ring to the server that
\* copies it and on to the return tasks.
LEMMA FreshNext == QueueInv /\ DutyInv /\ Fresh /\ [Next]_vars => Fresh'
<1> SUFFICES ASSUME QueueInv, DutyInv, Fresh, [Next]_vars PROVE Fresh'
  OBVIOUS
<1>0. /\ tick \in Nat /\ sync_queue \in Seq(Entries) /\ Held \subseteq Entries /\ owed \subseteq Entries
      /\ pc \in [Contexts -> Points] /\ Servers \subseteq Contexts
      /\ entry \in [Servers -> Entries \cup {NoTask}]
      /\ \A e \in Entries : e.tick \in Nat
      /\ \A s \in Servers : pc[s] = "r_copy" => entry[s] \in Entries
  BY HeldEntries DEF QueueInv, RingTypes, DutyInv, TaskTypes, DutyKnown, TakePoints, Contexts, Tasks,
     Entries
<1>1. \A e \in Held : e.tick < tick
  <2>1. DOMAIN sync_queue = 1 .. Len(sync_queue)
    BY <1>0
  <2> QED BY <1>0, <2>1, SyncTicksFacts DEF QueueInv, Past, SyncSet, Image, Held
<1>2. ASSUME NEW c \in Clients, NEW k \in {"send", "call"}, ipc_send(c, k) PROVE Fresh'
  <2> DEFINE e == [callee |-> c, is_call |-> (k = "call"), tick |-> tick]
  <2>1. e \in Entries /\ e.tick = tick
    BY <1>0 DEF Entries
  <2>2. sync_queue' = Append(sync_queue, e)
    BY <1>2 DEF ipc_send
  <2> HIDE DEF e
  <2>3. Held' = Held \cup {e}
    BY <1>0, <2>1, <2>2, HeldPush
  <2>4. UNCHANGED <<owed, entry>> /\ tick' = tick + 1 /\ pc' = [pc EXCEPT ![c] = "s_block"]
    BY <1>2 DEF ipc_send, Goto
  <2> QED BY <1>0, <2>1, <2>3, <2>4 DEF Fresh
<1>3. ASSUME NEW s \in Servers, receive_sync_message(s) \/ poll_sync_message(s) PROVE Fresh'
  <2>1. sync_queue # <<>> /\ sync_queue' = Tail(sync_queue)
    BY <1>3 DEF receive_sync_message, poll_sync_message, pop_sync, take_async
  <2>2. Head(sync_queue) \in Held /\ Held' = Held \ {Head(sync_queue)}
    BY <2>1, HeldPop
  <2>3. /\ UNCHANGED <<owed, tick>> /\ pc' = [pc EXCEPT ![s] = "r_copy"]
        /\ entry' = [entry EXCEPT ![s] = Head(sync_queue)]
    BY <1>3 DEF receive_sync_message, poll_sync_message, pop_sync, Goto
  <2> QED BY <1>0, <1>1, <2>2, <2>3 DEF Fresh
<1>4. ASSUME NEW s \in Servers, receive_copy(s) PROVE Fresh'
  <2>1. Held' = Held /\ UNCHANGED <<tick, entry>>
    BY <1>4 DEF receive_copy, queue, Held
  <2>2. \A t \in Servers : pc[t] = "r_copy" => t = s
    BY <1>0, <1>4 DEF receive_copy, Goto, DutyInv, Owner, LockPoints, TakePoints
  <2>3. \A t \in Servers : pc'[t] # "r_copy"
    BY <1>0, <1>4, <2>2 DEF receive_copy, Goto
  <2>4. owed' \subseteq owed \cup {entry[s]} /\ pc[s] = "r_copy"
    BY <1>4 DEF receive_copy, Goto
  <2> QED BY <1>0, <2>1, <2>3, <2>4 DEF Fresh
<1>5. ASSUME Held' = Held, tick' = tick \/ tick' = tick + 1, owed' \subseteq owed,
             \A s \in Servers : pc'[s] = "r_copy" => pc[s] = "r_copy" /\ entry'[s] = entry[s]
      PROVE  Fresh'
  BY <1>0, <1>5 DEF Fresh
<1>6. ASSUME NEW c \in Clients, Send(c) PROVE Fresh'
  <2>1. CASE \E k \in {"send", "call"} : ipc_send(c, k)
    BY <1>2, <2>1
  <2>2. CASE \/ ipc_send_unmapped(c) \/ ipc_send_async(c) \/ send_block(c) \/ send_wake(c)
             \/ send_unlock(c) \/ send_return(c)
    BY <1>0, <1>5, <2>2 DEF ipc_send_unmapped, ipc_send_async, send_block, send_wake,
       send_unlock, send_return, Goto, queue, local, Held
  <2> QED BY <1>6, <2>1, <2>2 DEF Send
<1>7. ASSUME NEW s \in Servers, Receive(s) \/ Reply(s) PROVE Fresh'
  <2>1. CASE \/ ipc_receive(s) \/ receive_check(s) \/ receive_block(s) \/ receive_wake(s)
             \/ receive_interrupted(s) \/ receive_async_message(s) \/ receive_nothing(s)
    BY <1>0, <1>5, <2>1 DEF ipc_receive, receive_check, receive_block, receive_wake, pop_async,
       receive_interrupted, receive_async_message, receive_nothing, Goto, queue, local, Held
  <2>2. CASE \/ receive_unlock(s) \/ ipc_receive_async(s) \/ poll_async_message(s)
             \/ poll_nothing(s) \/ poll_empty_ring(s)
    BY <1>0, <1>5, <2>2 DEF receive_unlock, ipc_receive_async, poll_async_message, pop_async,
       poll_nothing, poll_empty_ring, Goto, queue, local, Held
  <2>3. CASE (\E e \in owed : reply_look_up(s, e)) \/ ipc_reply(s) \/ reply_release(s)
    BY <1>0, <1>5, <2>3 DEF reply_look_up, ipc_reply, reply_release, Goto, queue, local, Held
  <2> QED BY <1>3, <1>4, <1>7, <2>1, <2>2, <2>3 DEF Receive, Reply
<1>8. ASSUME NEW x \in Contexts,
             mutex_release_try(x) \/ mutex_release(x) \/ mutex_release_unlocked(x)
      PROVE  Fresh'
  BY <1>0, <1>5, <1>8 DEF mutex_release_try, mutex_release, mutex_release_unlocked, Goto, queue,
     local, Held
<1>9. CASE (\E t \in Attached : signal_trigger(t)) \/ (\E t \in Tasks : resolve_test(t))
           \/ resolve_reset \/ UNCHANGED vars
  BY <1>0, <1>5, <1>9 DEF signal_trigger, resolve_test, resolve_reset, Goto, vars, queue, local, Held
<1> QED BY <1>6, <1>7, <1>8, <1>9 DEF Next

\* Every client blocked in ipc_send is the duty of exactly one party, for any
\* numbers of clients, servers and signals, as long as neither a signal nor a
\* second reply meddles with it; and the scheduler's reset of a mutex meets no
\* other duty.
THEOREM DutyInvariant == Spec => [](DutyInv /\ Fresh)
<1>1. Init => Fresh
  BY DEF Init, Fresh, Contexts, Tasks
<1>2. Init /\ [][Next]_vars /\ []QueueInv => [](DutyInv /\ Fresh)
  BY InitDutyInv, DutyInvNext, FreshNext, <1>1, PTL
<1> QED BY <1>2, RingsSorted, PTL DEF Spec

\* Type correctness of the endpoint and its tasks.
THEOREM TypeCorrect == Spec => []TypeOK
<1>1. QueueInv /\ DutyInv => TypeOK
  BY DEF QueueInv, RingTypes, DutyInv, TaskTypes, TypeOK
<1> QED BY <1>1, RingsSorted, DutyInvariant, PTL

\* The clients of the entries
LEMMA QueuedHeld == Queued = {e.callee : e \in Held}
  BY DEF Queued, Held

\* A client asleep in ipc_send that is not disturbed can count on somebody who
\* will unblock it, however many servers receive, poll and reply at once.
THEOREM SendersNotLost == Spec => []NoLostSender
<1>1. DutyInv => NoLostSender
  BY QueuedHeld DEF DutyInv, SleepersServed, NoLostSender, Owes
<1> QED BY <1>1, DutyInvariant, PTL

\* The client's buffer, of which the endpoint only keeps the address, holds the
\* message of an undisturbed client until the server has copied it.
THEOREM BuffersAreStable == Spec => []BuffersStable
<1>1. QueueInv /\ DutyInv => BuffersStable
  <2> SUFFICES ASSUME QueueInv, DutyInv PROVE BuffersStable
    OBVIOUS
  <2>1. ASSUME NEW i \in DOMAIN sync_queue, sync_queue[i].callee \notin Disturbed
        PROVE  /\ buf[sync_queue[i].callee] = sync_queue[i].tick
               /\ pc[sync_queue[i].callee] \in {"s_block", "s_wake", "s_try", "s_rel", "s_unlock",
                                                "s_sleep", "release_unreachable"}
    BY <2>1 DEF DutyInv, QueuedWaits, Held, Waits
  <2>2. ASSUME NEW s \in Servers, pc[s] = "r_copy", entry[s].callee \notin Disturbed
        PROVE  /\ buf[entry[s].callee] = entry[s].tick
               /\ pc[entry[s].callee] \in {"s_block", "s_wake", "s_try", "s_rel", "s_unlock",
                                           "s_sleep", "release_unreachable"}
    <3>1. entry[s].callee \in Clients \ Disturbed /\ Taking(s, entry[s].callee)
      BY <2>2 DEF DutyInv, DutyKnown, TakePoints, Entries, Taking
    <3> QED BY <2>2, <3>1 DEF DutyInv, TakenWaits, Waits
  <2> QED BY <2>1, <2>2 DEF BuffersStable
<1> QED BY <1>1, RingsSorted, DutyInvariant, PTL

\* "If we are here, the call responded / was acquired": ipc_send does not return
\* to an undisturbed client before, with any number of servers.
THEOREM CallsAnswered == Spec => []Answered
<1>1. DutyInv => Answered
  BY QueuedHeld DEF DutyInv, QueuedWaits, OwedWaits, Answered, Owes, Waits
<1> QED BY <1>1, DutyInvariant, PTL

\* mutex_release finds the mutex locked after its own try_lock, in spite of the
\* reset in resolve_blocked_tasks_scheduler, unless a signal or the second of two
\* replies to one call unblocks the same task.
THEOREM ReleasesAreLocked == Spec => []ReleasesLocked
<1>1. DutyInv => ReleasesLocked
  BY DEF DutyInv, Released, ReleasesLocked
<1> QED BY <1>1, DutyInvariant, PTL

=============================================================================
