------------------------------- MODULE Assets -------------------------------
(***************************************************************************)
(* Assets and the spaces that hold them (src/src/kernel/generic/asset.cpp, *)
(* asset_types.hpp, space.hpp): handles, reference counts, the locks of    *)
(* assets and spaces, and the system calls that create, look up, copy,     *)
(* move, map and release assets (syscalls.cpp, ipc.cpp).                   *)
(*                                                                         *)
(* A context in Ctx is a task inside a system call.  It works in a space   *)
(* it has a raw pointer to and holds at most two AssetRefs, ref and tmp,   *)
(* that it dereferences when it returns (tmp first).  A critical section   *)
(* of a space's lock is one step unless another lock is taken inside it.   *)
(* A space allocates handles from 16 + 10000 * its id on: a handle here is *)
(* a pair of the space and a number, so that a handle of one space is none *)
(* of another.  The entry a space has for itself (selfSpace) is nobody's   *)
(* to release and counts as a pin.                                         *)
(***************************************************************************)
EXTENDS Integers, FiniteSets

CONSTANTS Ctx, Spaces, Memories, Mappings, Endpoints, Connections,
          Root,          \* the root space
          Address,       \* where each space is in memory
          MaxHandle,     \* bound on the handles a space allocates
          None

Assets == Spaces \cup Memories \cup Mappings \cup Endpoints \cup Connections
Handles == Spaces \X (1 .. MaxHandle)

ASSUME AssetAssumption ==
    /\ IsFiniteSet(Ctx) /\ IsFiniteSet(Assets) /\ None \notin Assets \cup Ctx \cup Handles
    /\ Spaces \cap (Memories \cup Mappings \cup Endpoints \cup Connections) = {}
    /\ Memories \cap (Mappings \cup Endpoints \cup Connections) = {}
    /\ Mappings \cap (Endpoints \cup Connections) = {} /\ Endpoints \cap Connections = {}
    /\ Address \in [Spaces -> Nat] /\ \A s, t \in Spaces : Address[s] = Address[t] => s = t
    /\ Root \in Spaces /\ MaxHandle \in Nat /\ Cardinality(Spaces) <= MaxHandle + 1

VARIABLES
    table,      \* Space::assets of all spaces
    alloc_uid,  \* Space::alloc_uid
    count,      \* Asset::ref_count
    life,       \* "fresh": not created yet, "live", "freed"
    state,      \* whether the creator is done: "pending", "ready", "failed"
    lock,       \* Asset::lock: its owner
    inner,      \* the AssetRef inside an asset: physical_mem, connection_to, target_message_space
    via,        \* the handle in physical_mem
    pinned,     \* the assets with a reference that is never returned (Asset::own, selfSpace)
    registered, \* the endpoints in registered_servers
    pc, sp, dst, hnd, ref, tmp, hnd2, victim, failed  \* of every context

heap   == <<count, life, state, inner, via, pinned, registered>>
names  == <<table, alloc_uid>>
place  == <<sp, dst>>
vars   == <<heap, names, lock, pc, place, hnd, ref, tmp, hnd2, victim, failed>>

Points == {"idle", "init", "publish", "kind", "undo", "release", "remove", "move", "move_in",
           "copy", "copy_in", "map", "map_alloc", "map_init", "connect", "port",
           "drop", "destroy", "stopped", "unreachable"}

TypeOK ==
    /\ table \in [Handles -> Assets \cup {None}] /\ alloc_uid \in [Spaces -> 0 .. MaxHandle]
    /\ count \in [Assets -> Nat] /\ life \in [Assets -> {"fresh", "live", "freed"}]
    /\ state \in [Assets -> {"pending", "ready", "failed"}]
    /\ lock \in [Assets -> Ctx \cup {None}]
    /\ inner \in [Assets -> Assets \cup {None}] /\ via \in [Assets -> Handles \cup {None}]
    /\ pinned \subseteq Assets /\ registered \subseteq Endpoints
    /\ pc \in [Ctx -> Points] /\ sp \in [Ctx -> Spaces] /\ dst \in [Ctx -> Spaces]
    /\ hnd \in [Ctx -> Handles \cup {None}] /\ hnd2 \in [Ctx -> Handles \cup {None}]
    /\ ref \in [Ctx -> Assets \cup {None}] /\ tmp \in [Ctx -> Assets \cup {None}]
    /\ victim \in [Ctx -> Assets \cup {None}] /\ failed \in [Ctx -> BOOLEAN]

\* The table after create_space for all spaces but the root, in the order f: the
\* root space has a handle for each.
create_space(f) == [h \in Handles |->
    IF h[1] = Root /\ h[2] \in DOMAIN f THEN f[h[2]] ELSE None]

\* create_root and then create_space
Init ==
    /\ \E f \in [1 .. Cardinality(Spaces) - 1 -> Spaces \ {Root}] :
          /\ \A i, j \in DOMAIN f : f[i] = f[j] => i = j
          /\ table = create_space(f)
    /\ alloc_uid = [s \in Spaces |-> IF s = Root THEN Cardinality(Spaces) - 1 ELSE 0]
    /\ count = [a \in Assets |-> IF a \notin Spaces THEN 0 ELSE IF a = Root THEN 1 ELSE 2]
    /\ life = [a \in Assets |-> IF a \in Spaces THEN "live" ELSE "fresh"]
    /\ state = [a \in Assets |-> IF a \in Spaces THEN "ready" ELSE "pending"]
    /\ lock = [a \in Assets |-> None] /\ inner = [a \in Assets |-> None]
    /\ via = [a \in Assets |-> None] /\ pinned = Spaces /\ registered = {}
    /\ pc = [c \in Ctx |-> "idle"]
    /\ sp = [c \in Ctx |-> Root] /\ dst = [c \in Ctx |-> Root]
    /\ hnd = [c \in Ctx |-> None] /\ hnd2 = [c \in Ctx |-> None]
    /\ ref = [c \in Ctx |-> None] /\ tmp = [c \in Ctx |-> None]
    /\ victim = [c \in Ctx |-> None] /\ failed = [c \in Ctx |-> FALSE]

Goto(c, from, to) == pc[c] = from /\ pc' = [pc EXCEPT ![c] = to]

Free(a) == lock[a] = None
Unlock(A) == lock' = [a \in Assets |-> IF a \in A THEN None ELSE lock[a]]

\* The entry of space s under handle h
Entry(s, h) == IF h \in Handles /\ h[1] = s THEN table[h] ELSE None

\* Asset::own for one reference more to each of two assets
Own(a, b) == count' = [x \in Assets |->
                count[x] + (IF x = a THEN 1 ELSE 0) + (IF x = b THEN 1 ELSE 0)]

\* The handle that space s hands out next, and the table with it
Next_handle(s) == <<s, alloc_uid[s] + 1>>
Insert(s, a) ==
    /\ alloc_uid[s] < MaxHandle
    /\ alloc_uid' = [alloc_uid EXCEPT ![s] = @ + 1]
    /\ table' = [table EXCEPT ![Next_handle(s)] = a]

-----------------------------------------------------------------------------
(* Creation *)

\* Mutant of allocate_asset: the asset is not locked while it is in the table
\* and not initialised.
allocate_asset_unlocked(c, s, a) ==
    /\ life[a] = "fresh" /\ Free(s)
    /\ Insert(s, a)
    /\ life' = [life EXCEPT ![a] = "live"]
    /\ tmp' = [tmp EXCEPT ![c] = a]
    /\ hnd' = [hnd EXCEPT ![c] = Next_handle(s)]
    /\ UNCHANGED lock

\* allocate_asset and add_asset: a new asset, locked, goes into the space.  The
\* creator and the table have a reference each (Own, in the callers).
allocate_asset(c, s, a) ==
    /\ life[a] = "fresh" /\ Free(s)
    /\ Insert(s, a)
    /\ lock' = [lock EXCEPT ![a] = c]
    /\ life' = [life EXCEPT ![a] = "live"]
    /\ tmp' = [tmp EXCEPT ![c] = a]
    /\ hnd' = [hnd EXCEPT ![c] = Next_handle(s)]

create_memory(c, s, m) ==
    /\ Goto(c, "idle", "init")
    /\ allocate_asset(c, s, m)
    /\ Own(m, m)
    /\ sp' = [sp EXCEPT ![c] = s]
    /\ UNCHANGED <<state, inner, via, pinned, registered, dst, ref, hnd2, victim, failed>>

\* The pages are found ...
create_memory_done(c) ==
    /\ Goto(c, "init", "drop")
    /\ state' = [state EXCEPT ![tmp[c]] = "ready"]
    /\ Unlock({tmp[c]})
    /\ UNCHANGED <<count, life, inner, via, pinned, registered, names, place, hnd, ref,
                   tmp, hnd2, victim, failed>>

\* ... or not: the asset is unlocked and then taken out of the space.
create_memory_failed(c) ==
    /\ Goto(c, "init", "undo")
    /\ state' = [state EXCEPT ![tmp[c]] = "failed"]
    /\ Unlock({tmp[c]})
    /\ UNCHANGED <<count, life, inner, via, pinned, registered, names, place, hnd, ref,
                   tmp, hnd2, victim, failed>>

\* Space::create_ipc_endpoint: the endpoint refers to the space that gets the
\* assets of its messages.
create_ipc_endpoint(c, s, e) ==
    /\ Goto(c, "idle", "publish")
    /\ allocate_asset(c, s, e)
    /\ count' = [count EXCEPT ![e] = @ + 2, ![s] = @ + 1]
    /\ inner' = [inner EXCEPT ![e] = s]
    /\ sp' = [sp EXCEPT ![c] = s]
    /\ UNCHANGED <<state, via, pinned, registered, dst, ref, hnd2, victim, failed>>

\* publish_server
publish_server(c) ==
    /\ pc[c] = "publish" /\ tmp[c] \notin registered
    /\ registered' = registered \cup {tmp[c]}
    /\ count' = [count EXCEPT ![tmp[c]] = @ + 1]
    /\ UNCHANGED <<life, state, inner, via, pinned, names, lock, pc, place, hnd, ref,
                   tmp, hnd2, victim, failed>>

\* Asset::own, and the end of the creation
create_ipc_endpoint_done(c) ==
    /\ Goto(c, "publish", "drop")
    /\ pinned' = pinned \cup {tmp[c]}
    /\ count' = [count EXCEPT ![tmp[c]] = @ + 1]
    /\ state' = [state EXCEPT ![tmp[c]] = "ready"]
    /\ Unlock({tmp[c]})
    /\ UNCHANGED <<life, inner, via, registered, names, place, hnd, ref, tmp, hnd2,
                   victim, failed>>

-----------------------------------------------------------------------------
(* Looking up *)

\* Mutant of by_handle: the reference is not counted.
by_handle_uncounted(c, s, h, to) ==
    /\ Goto(c, "idle", to)
    /\ Free(s) /\ Entry(s, h) # None
    /\ ref' = [ref EXCEPT ![c] = Entry(s, h)]
    /\ hnd' = [hnd EXCEPT ![c] = h]
    /\ sp' = [sp EXCEPT ![c] = s]
    /\ UNCHANGED <<heap, names, lock, tmp, victim, failed>>

\* The copy is made under the space's lock.  A failed lookup ends the call and
\* stops the machine (syscall_higher_handler).
by_handle(c, s, h, to) ==
    /\ Goto(c, "idle", to)
    /\ Free(s) /\ Entry(s, h) # None
    /\ ref' = [ref EXCEPT ![c] = Entry(s, h)]
    /\ count' = [count EXCEPT ![Entry(s, h)] = @ + 1]
    /\ hnd' = [hnd EXCEPT ![c] = h]
    /\ sp' = [sp EXCEPT ![c] = s]
    /\ UNCHANGED <<life, state, inner, via, pinned, registered, names, lock, tmp,
                   victim, failed>>

\* The calls that begin with it: ksyscall_asset_release (and ipc_reply),
\* ksyscall_map, ksyscall_create_connection, ...
look_up(c, s, h) ==
    /\ \/ by_handle(c, s, h, "release")
       \/ Entry(s, h) \in Memories \cup Endpoints /\ by_handle(c, s, h, "kind")
    /\ UNCHANGED <<dst, hnd2>>

\* A typed by_handle takes the asset's lock to look at its kind; with another
\* kind than the call asks for it fails.
by_handle_kind(c) ==
    /\ Goto(c, "kind", IF ref[c] \in Memories THEN "map" ELSE "connect")
    /\ Free(ref[c])
    /\ UNCHANGED <<heap, names, lock, place, hnd, ref, tmp, hnd2, victim, failed>>

\* ... ksyscall_asset_move, which moves whatever its copy flag says, and
\* update_inplace_message, which copies or moves
look_up_to_send(c, s, h, d) ==
    /\ by_handle(c, s, h, "move") \/ by_handle(c, s, h, "copy")
    /\ dst' = [dst EXCEPT ![c] = d]
    /\ UNCHANGED hnd2

\* ksyscall_mem_release: the mapping is found by its address (by_fn), and the
\* memory with the handle that it was mapped by is to be released after it.
by_fn(c, s, h) ==
    /\ Goto(c, "idle", "release")
    /\ Free(s) /\ Entry(s, h) \in Mappings /\ inner[Entry(s, h)] # None
    /\ ref' = [ref EXCEPT ![c] = Entry(s, h)]
    /\ tmp' = [tmp EXCEPT ![c] = inner[Entry(s, h)]]
    /\ Own(Entry(s, h), inner[Entry(s, h)])
    /\ hnd' = [hnd EXCEPT ![c] = h]
    /\ hnd2' = [hnd2 EXCEPT ![c] = via[Entry(s, h)]]
    /\ sp' = [sp EXCEPT ![c] = s]
    /\ UNCHANGED <<life, state, inner, via, pinned, registered, names, lock, dst,
                   victim, failed>>

\* query_server, for a connection by address
query_server(c, s, e) ==
    /\ Goto(c, "idle", "connect")
    /\ e \in registered
    /\ ref' = [ref EXCEPT ![c] = e]
    /\ count' = [count EXCEPT ![e] = @ + 1]
    /\ sp' = [sp EXCEPT ![c] = s]
    /\ UNCHANGED <<life, state, inner, via, pinned, registered, names, lock, dst, hnd,
                   tmp, hnd2, victim, failed>>

-----------------------------------------------------------------------------
(* Mapping and connecting *)

\* create_mapping locks the memory, ...
map_lock(c) ==
    /\ Goto(c, "map", "map_alloc")
    /\ Free(ref[c])
    /\ lock' = [lock EXCEPT ![ref[c]] = c]
    /\ UNCHANGED <<heap, names, place, hnd, ref, tmp, hnd2, victim, failed>>

\* ... allocates the mapping, which refers to it, ...
create_mapping(c, g) ==
    /\ Goto(c, "map_alloc", "map_init")
    /\ allocate_asset(c, sp[c], g)
    /\ count' = [count EXCEPT ![g] = @ + 2, ![ref[c]] = @ + 1]
    /\ inner' = [inner EXCEPT ![g] = ref[c]]
    /\ via' = [via EXCEPT ![g] = hnd[c]]
    /\ UNCHANGED <<state, pinned, registered, place, ref, hnd2, victim, failed>>

\* ... and maps it.  With bad arguments the mapping stays in the space.
create_mapping_done(c) ==
    /\ Goto(c, "map_init", "drop")
    /\ \E ok \in BOOLEAN :
          /\ state' = [state EXCEPT ![tmp[c]] = IF ok THEN "ready" ELSE "failed"]
          /\ failed' = [failed EXCEPT ![c] = ~ ok]
    /\ Unlock({tmp[c], ref[c]})
    /\ UNCHANGED <<count, life, inner, via, pinned, registered, names, place, hnd, ref,
                   tmp, hnd2, victim>>

create_mapping_failed(c) ==
    /\ Goto(c, "map_init", "undo")
    /\ state' = [state EXCEPT ![tmp[c]] = "failed"]
    /\ Unlock({tmp[c]})
    /\ UNCHANGED <<count, life, inner, via, pinned, registered, names, place, hnd, ref,
                   tmp, hnd2, victim, failed>>

\* _asset_remove of the asset that could not be created; create_mapping then
\* unlocks the memory.
undo(c) ==
    /\ pc[c] = "undo" /\ Free(sp[c])
    /\ IF Entry(sp[c], hnd[c]) = None
       THEN /\ pc' = [pc EXCEPT ![c] = "unreachable"]
            /\ UNCHANGED <<table, count, lock, failed>>
       ELSE /\ pc' = [pc EXCEPT ![c] = "drop"]
            /\ table' = [table EXCEPT ![hnd[c]] = None]
            /\ count' = [count EXCEPT ![table[hnd[c]]] = @ - 1]
            /\ Unlock({ref[c]} \ {None})
            /\ failed' = [failed EXCEPT ![c] = TRUE]
    /\ UNCHANGED <<life, state, inner, via, pinned, registered, alloc_uid, place, hnd,
                   ref, tmp, hnd2, victim>>

\* create_ipc_connection: the new connection is locked, owned once more, ...
create_ipc_connection(c, n) ==
    /\ Goto(c, "connect", "port")
    /\ allocate_asset(c, sp[c], n)
    /\ count' = [count EXCEPT ![n] = @ + 3, ![ref[c]] = @ + 1]
    /\ pinned' = pinned \cup {n}
    /\ inner' = [inner EXCEPT ![n] = ref[c]]
    /\ UNCHANGED <<state, via, registered, place, ref, hnd2, victim, failed>>

\* ... and gets a port under the endpoint's lock.
create_ipc_connection_port(c) ==
    /\ Goto(c, "port", "drop")
    /\ Free(ref[c])
    /\ state' = [state EXCEPT ![tmp[c]] = "ready"]
    /\ Unlock({tmp[c]})
    /\ UNCHANGED <<count, life, inner, via, pinned, registered, names, place, hnd, ref,
                   tmp, hnd2, victim, failed>>

-----------------------------------------------------------------------------
(* Release, move, copy *)

\* asset_release: Asset::release takes the asset's lock and gives it back, ...
asset_release(c) ==
    /\ Goto(c, "release", "remove")
    /\ Free(ref[c])
    /\ UNCHANGED <<heap, names, lock, place, hnd, ref, tmp, hnd2, victim, failed>>

\* ... and _asset_remove takes it out of the space; ksyscall_mem_release then
\* goes on to the memory.
asset_remove(c) ==
    /\ pc[c] = "remove" /\ Free(sp[c])
    /\ IF Entry(sp[c], hnd[c]) = None
       THEN /\ pc' = [pc EXCEPT ![c] = "unreachable"]
            /\ UNCHANGED <<table, count, hnd, ref, tmp, hnd2>>
       ELSE /\ pc' = [pc EXCEPT ![c] = IF hnd2[c] = None THEN "drop" ELSE "release"]
            /\ table' = [table EXCEPT ![hnd[c]] = None]
            /\ count' = [count EXCEPT ![table[hnd[c]]] = @ - 1]
            /\ IF hnd2[c] = None
               THEN UNCHANGED <<hnd, ref, tmp, hnd2>>
               ELSE /\ hnd' = [hnd EXCEPT ![c] = hnd2[c]]
                    /\ hnd2' = [hnd2 EXCEPT ![c] = None]
                    /\ ref' = [ref EXCEPT ![c] = tmp[c]]
                    /\ tmp' = [tmp EXCEPT ![c] = ref[c]]
    /\ UNCHANGED <<life, state, inner, via, pinned, registered, alloc_uid, lock, place,
                   victim, failed>>

\* Mutant of first: the spaces are locked in the order of the call.
first_as_called(c) == sp[c]

\* asset_move locks the space with the lower address first.
first(c) == IF Address[sp[c]] < Address[dst[c]] THEN sp[c] ELSE dst[c]
second(c) == IF first(c) = sp[c] THEN dst[c] ELSE sp[c]

asset_move_lock(c) ==
    /\ Goto(c, "move", "move_in")
    /\ Free(first(c))
    /\ lock' = [lock EXCEPT ![first(c)] = c]
    /\ UNCHANGED <<heap, names, place, hnd, ref, tmp, hnd2, victim, failed>>

\* Mutant of asset_move: the new entry takes the number of an old one.
asset_move_same_number(c) ==
    /\ Goto(c, "move_in", "drop")
    /\ first(c) # second(c) => Free(second(c))
    /\ Entry(sp[c], hnd[c]) # None /\ dst[c] # sp[c]
    /\ table' = [table EXCEPT ![hnd[c]] = None, ![<<dst[c], hnd[c][2]>>] = table[hnd[c]]]
    /\ count' = [count EXCEPT ![table[hnd[c]]] = @ + 1]
    /\ tmp' = [tmp EXCEPT ![c] = table[hnd[c]]]
    /\ Unlock({first(c), second(c)})
    /\ UNCHANGED <<life, state, inner, via, pinned, registered, alloc_uid, place, hnd,
                   ref, hnd2, victim, failed>>

\* The entry moves to the other space under a new handle, and the caller gets a
\* reference; if it is gone, the call fails.
asset_move(c) ==
    /\ Goto(c, "move_in", "drop")
    /\ first(c) # second(c) => Free(second(c))
    /\ IF Entry(sp[c], hnd[c]) = None
       THEN /\ failed' = [failed EXCEPT ![c] = TRUE]
            /\ UNCHANGED <<names, count, tmp>>
       ELSE /\ alloc_uid[dst[c]] < MaxHandle
            /\ alloc_uid' = [alloc_uid EXCEPT ![dst[c]] = @ + 1]
            /\ table' = [table EXCEPT ![hnd[c]] = None,
                                      ![Next_handle(dst[c])] = table[hnd[c]]]
            /\ count' = [count EXCEPT ![table[hnd[c]]] = @ + 1]
            /\ tmp' = [tmp EXCEPT ![c] = table[hnd[c]]]
            /\ UNCHANGED failed
    /\ Unlock({first(c), second(c)})
    /\ UNCHANGED <<life, state, inner, via, pinned, registered, place, hnd, ref, hnd2,
                   victim>>

\* asset_copy locks the asset and, inside, the space.
asset_copy_lock(c) ==
    /\ Goto(c, "copy", "copy_in")
    /\ Free(ref[c])
    /\ lock' = [lock EXCEPT ![ref[c]] = c]
    /\ UNCHANGED <<heap, names, place, hnd, ref, tmp, hnd2, victim, failed>>

asset_copy(c) ==
    /\ Goto(c, "copy_in", "drop")
    /\ Free(dst[c])
    /\ Insert(dst[c], ref[c])
    /\ Own(ref[c], ref[c])
    /\ tmp' = [tmp EXCEPT ![c] = ref[c]]
    /\ Unlock({ref[c]})
    /\ UNCHANGED <<life, state, inner, via, pinned, registered, place, hnd, ref, hnd2,
                   victim, failed>>

-----------------------------------------------------------------------------
(* The end of a call *)

\* The AssetRef that goes next
Dropped(c) == IF tmp[c] # None THEN tmp[c] ELSE ref[c]

\* Mutant of deref: the test for the last reference is off by one.
deref_early(c) ==
    /\ pc[c] = "drop" /\ Dropped(c) # None
    /\ count' = [count EXCEPT ![Dropped(c)] = @ - 1]
    /\ tmp' = [tmp EXCEPT ![c] = None]
    /\ ref' = IF tmp[c] = None THEN [ref EXCEPT ![c] = None] ELSE ref
    /\ IF count[Dropped(c)] <= 2
       THEN /\ pc' = [pc EXCEPT ![c] = "destroy"]
            /\ victim' = [victim EXCEPT ![c] = Dropped(c)]
       ELSE UNCHANGED <<pc, victim>>
    /\ UNCHANGED <<life, state, inner, via, pinned, registered, names, lock, place, hnd,
                   hnd2, failed>>

\* Asset::deref
deref(c) ==
    /\ pc[c] = "drop" /\ Dropped(c) # None
    /\ count' = [count EXCEPT ![Dropped(c)] = @ - 1]
    /\ tmp' = [tmp EXCEPT ![c] = None]
    /\ ref' = IF tmp[c] = None THEN [ref EXCEPT ![c] = None] ELSE ref
    /\ IF count[Dropped(c)] = 1
       THEN /\ pc' = [pc EXCEPT ![c] = "destroy"]
            /\ victim' = [victim EXCEPT ![c] = Dropped(c)]
       ELSE UNCHANGED <<pc, victim>>
    /\ UNCHANGED <<life, state, inner, via, pinned, registered, names, lock, place, hnd,
                   hnd2, failed>>

\* The context that took the last reference locks the asset and deletes it; a
\* mapping gives up its memory.
destroy(c) ==
    /\ Goto(c, "destroy", "drop")
    /\ Free(victim[c])
    /\ life' = [life EXCEPT ![victim[c]] = "freed"]
    /\ tmp' = [tmp EXCEPT ![c] = inner[victim[c]]]
    /\ inner' = [inner EXCEPT ![victim[c]] = None]
    /\ victim' = [victim EXCEPT ![c] = None]
    /\ UNCHANGED <<count, state, via, pinned, registered, names, lock, place, hnd, ref,
                   hnd2, failed>>

\* A call that failed does not return: syscall_higher_handler stops the CPU, and
\* the others when they take interrupt 102, which here they need not.
syscall_return(c) ==
    /\ Goto(c, "drop", IF failed[c] THEN "stopped" ELSE "idle")
    /\ Dropped(c) = None
    /\ hnd' = [hnd EXCEPT ![c] = None]
    /\ sp' = [sp EXCEPT ![c] = Root] /\ dst' = [dst EXCEPT ![c] = Root]
    /\ UNCHANGED <<heap, names, lock, ref, tmp, hnd2, victim, failed>>

-----------------------------------------------------------------------------

Create(c) == \E s \in Spaces :
    \/ \E m \in Memories : create_memory(c, s, m)
    \/ \E e \in Endpoints : create_ipc_endpoint(c, s, e)

Begin(c) == \E s \in Spaces :
    \/ \E h \in Handles : look_up(c, s, h) \/ by_fn(c, s, h)
    \/ \E h \in Handles, d \in Spaces : look_up_to_send(c, s, h, d)
    \/ \E e \in Endpoints : query_server(c, s, e)

Continue(c) ==
    \/ create_memory_done(c) \/ create_memory_failed(c) \/ undo(c) \/ by_handle_kind(c)
    \/ publish_server(c) \/ create_ipc_endpoint_done(c)
    \/ map_lock(c) \/ (\E g \in Mappings : create_mapping(c, g))
    \/ create_mapping_done(c) \/ create_mapping_failed(c)
    \/ (\E n \in Connections : create_ipc_connection(c, n)) \/ create_ipc_connection_port(c)
    \/ asset_release(c) \/ asset_remove(c)
    \/ asset_move_lock(c) \/ asset_move(c) \/ asset_copy_lock(c) \/ asset_copy(c)
    \/ deref(c) \/ destroy(c) \/ syscall_return(c)

Next == \E c \in Ctx : Create(c) \/ Begin(c) \/ Continue(c)

Spec == Init /\ [][Next]_vars

-----------------------------------------------------------------------------
(* Properties *)

One(b) == IF b THEN 1 ELSE 0

\* How many references to asset a there are in tables, in calls, in other
\* assets, in the registry and for good
References(a) ==
    Cardinality({h \in Handles : table[h] = a})
    + Cardinality({c \in Ctx : ref[c] = a}) + Cardinality({c \in Ctx : tmp[c] = a})
    + Cardinality({b \in Assets : inner[b] = a})
    + One(a \in registered) + One(a \in pinned)

\* ref_count counts the references, whatever calls are under way on the same
\* asset: copies under the lock of a space, moves between spaces, references
\* inside mappings and connections, creations that fail half-way.
CountsExact == \A a \in Assets : count[a] = References(a)

\* Nobody has a reference to an asset that was deleted or is being deleted, and
\* nobody deletes it a second time ("double free detected", asset.cpp:64).
NoDangling ==
    /\ \A a \in Assets : References(a) > 0 =>
          life[a] = "live" /\ \A c \in Ctx : pc[c] = "destroy" => victim[c] # a
    /\ \A c \in Ctx : pc[c] = "destroy" =>
          /\ life[victim[c]] = "live"
          /\ \A d \in Ctx \ {c} : pc[d] = "destroy" => victim[d] # victim[c]

\* A handle read under the lock of a space and used after it was released means
\* the same asset or none: numbers are never handed out twice.
HandlesStable == \A c \in Ctx :
    pc[c] \in {"remove", "move", "move_in", "release", "undo"} =>
        Entry(sp[c], hnd[c]) \in {None, IF pc[c] = "undo" THEN tmp[c] ELSE ref[c]}

\* "Asset lock is still held - caller must release after initialization"
\* (space.hpp:292): a call that got an asset's lock finds it past its
\* initialisation, the memory that is being mapped in particular.
InitialisedWhenUsed == \A c \in Ctx :
    pc[c] \in {"map", "map_alloc", "map_init", "remove", "copy_in"} => state[ref[c]] # "pending"

\* The lock that context c waits for
Wanted(c) ==
    CASE pc[c] \in {"release", "kind", "map", "copy", "port"} -> ref[c]
      [] pc[c] \in {"remove", "undo", "map_alloc", "connect"} -> sp[c]
      [] pc[c] = "move" -> first(c)
      [] pc[c] = "move_in" /\ first(c) # second(c) -> second(c)
      [] pc[c] = "copy_in" -> dst[c]
      [] pc[c] = "destroy" -> victim[c]
      [] OTHER -> None

\* asset_copy of a space takes the lock of that asset, which is the space's own,
\* and then the destination's, whatever their addresses.
CopiesSpace(c) == pc[c] = "copy_in" /\ ref[c] \in Spaces

\* All other locks of spaces and assets are taken in an order (the comment in
\* asset_move: "to prevent ABBA deadlock"): every circle of contexts that wait
\* for each other goes through a copy of a space.
NoCircularWait == \A D \in (SUBSET Ctx) \ {{}} :
    \E c \in D : Wanted(c) = None \/ lock[Wanted(c)] \notin D \/ CopiesSpace(c)
=============================================================================
