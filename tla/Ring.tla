-------------------------------- MODULE Ring --------------------------------
(***************************************************************************)
(* fc::Ring (src/src/libcore/ds/ring.hpp), the queue behind an IPC         *)
(* endpoint: an array in which the elements go round, and that grows.  The *)
(* elements of sync_queue (IpcSyncMsgEntry) own a reference to a task,     *)
(* which AssetRef's move assignment releases when it writes over one       *)
(* (asset_types.hpp:189-211).  The ring's owner holds the endpoint's lock, *)
(* so one call follows another.                                            *)
(***************************************************************************)
EXTENDS Integers, Sequences, FiniteSets

CONSTANTS Items,   \* what is pushed
          None,    \* a slot that holds no reference: destroyed or moved from
          Junk,    \* bound: what fresh memory may look like
          Owning,  \* an element owns a reference
          MaxLen   \* bound: nothing is pushed beyond this length

ASSUME RingAssumption ==
    None \notin Items /\ Junk \subseteq Items \cup {None} /\ Owning \in BOOLEAN /\ MaxLen \in Nat

VARIABLES
    data,              \* _data, a function on 0 .. capacity - 1
    head, tail, capacity, len,
    out,               \* what the last pop, head or back returned
    refs               \* the references that pushed elements still own

vars == <<data, head, tail, capacity, len, out, refs>>

Slots == Items \cup {None}

TypeOK ==
    /\ capacity \in Nat /\ data \in [0 .. capacity - 1 -> Slots]
    /\ head \in Nat /\ tail \in Nat /\ len \in Nat
    /\ out \in Slots /\ refs \in [Items -> Int]

Init ==
    /\ capacity = 0 /\ data = [j \in 0 .. -1 |-> None]
    /\ head = 0 /\ tail = 0 /\ len = 0
    /\ out = None /\ refs = [x \in Items |-> 0]

\* The capacity push asks resize for
Wanted == (len + 2) + (len + 2) \div 2

\* Mutant of wrapped: the elements count as wrapped only in a full ring.
wrapped_full == capacity # 0 /\ head = tail

\* resize has to make space between the end and the beginning.
wrapped == capacity # 0 /\ ~ (head < tail)

\* The array after resize(c): realloc leaves v in the new slots, and the loop,
\* which goes from the top down and so reads a slot before it writes over it,
\* moves what is at head or above to the end.
Grown(c, v) ==
    [j \in 0 .. c - 1 |->
        IF wrapped /\ j >= head + c - capacity THEN data[j - (c - capacity)]
        ELSE IF wrapped /\ head <= j /\ j < capacity THEN None
        ELSE IF j < capacity THEN data[j] ELSE v]

\* The new slots that the loop assigns to: they were never constructed.
Assigned(c) == IF wrapped THEN {j \in capacity .. c - 1 : j >= head + c - capacity} ELSE {}

\* push without resize, ...
push(x) ==
    /\ len + 1 < capacity /\ len < MaxLen
    /\ data' = [data EXCEPT ![tail] = x]
    /\ tail' = (tail + 1) % capacity
    /\ len' = len + 1
    /\ refs' = [refs EXCEPT ![x] = @ + 1]
    /\ UNCHANGED <<head, capacity, out>>

\* ... and with it; the assignments of the loop release what the fresh memory
\* seems to refer to.
push_resized(x, v) ==
    /\ len + 1 >= capacity /\ len < MaxLen
    /\ capacity' = Wanted
    /\ head' = IF wrapped THEN Wanted - capacity + head ELSE head
    /\ data' = [Grown(Wanted, v) EXCEPT ![tail] = x]
    /\ tail' = (tail + 1) % Wanted
    /\ len' = len + 1
    /\ refs' = [y \in Items |->
                    refs[y] + (IF y = x THEN 1 ELSE 0)
                            - (IF Owning /\ y = v THEN Cardinality(Assigned(Wanted)) ELSE 0)]
    /\ out' = out

\* pop of an empty ring is called unreachable, and IPC asks for len first.
\* The reference goes to the caller, and the slot is destroyed.
pop ==
    /\ len # 0
    /\ out' = data[head]
    /\ data' = [data EXCEPT ![head] = None]
    /\ head' = (head + 1) % capacity
    /\ len' = len - 1
    /\ refs' = [refs EXCEPT ![data[head]] = @ - 1]
    /\ UNCHANGED <<tail, capacity>>

peek_head ==
    /\ len # 0
    /\ out' = data[head]
    /\ UNCHANGED <<data, head, tail, capacity, len, refs>>

peek_back ==
    /\ len # 0
    /\ out' = data[(tail - 1 + capacity) % capacity]
    /\ UNCHANGED <<data, head, tail, capacity, len, refs>>

Next ==
    \/ \E x \in Items : push(x) \/ \E v \in Junk : push_resized(x, v)
    \/ pop \/ peek_head \/ peek_back

Spec == Init /\ [][Next]_vars

-----------------------------------------------------------------------------
(* Properties *)

\* The slot of the k-th element, counted from 0
SlotOf(h, c, k) == IF h + k < c THEN h + k ELSE h + k - c

\* The elements, the oldest first
Content == [k \in 1 .. len |-> data[SlotOf(head, capacity, k - 1)]]

\* The array with its two indices is a queue without a limit: nothing is lost,
\* doubled or reordered when the indices go round and when the array grows.
Fifo == INSTANCE RingSpec WITH queue <- Content
Refines == Fifo!Spec

\* "the returned AssetRef owns a reference" (asset_types.hpp:238): every
\* element in the ring owns one, and no other call gives it up.
Owned == \A x \in Items : refs[x] = Cardinality({k \in 1 .. len : Content[k] = x})
=============================================================================
