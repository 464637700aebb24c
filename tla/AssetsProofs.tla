---------------------------- MODULE AssetsProofs ----------------------------
(***************************************************************************)
(* Proofs about module Assets, for any contexts, spaces and assets: a      *)
(* number that a space has handed out is never given to another asset,     *)
(* ref_count is exact and nothing is used after its deletion, an asset is  *)
(* used only once it is initialised, and contexts never wait for each      *)
(* other's locks in a circle.                                              *)
(***************************************************************************)
EXTENDS Assets, FiniteSetTheorems, NaturalsInduction, WellFoundedInduction, TLAPS

\* In table t with the counters u, handle h was handed out and means a or nothing.
Known(t, u, h, a) ==
    h = None \/ (h \in Handles /\ h[2] <= u[h[1]] /\ t[h] \in {None, a})

\* From t and u to t2 and u2 the handles that were handed out stay so, and keep
\* their meaning or lose it.
Kept(t, u, t2, u2) ==
    \A h \in Handles : h[2] <= u[h[1]] => h[2] <= u2[h[1]] /\ t2[h] \in {None, t[h]}

HandleTypes ==
    /\ table \in [Handles -> Assets \cup {None}] /\ alloc_uid \in [Spaces -> 0 .. MaxHandle]
    /\ inner \in [Assets -> Assets \cup {None}] /\ via \in [Assets -> Handles \cup {None}]
    /\ pc \in [Ctx -> Points] /\ sp \in [Ctx -> Spaces] /\ dst \in [Ctx -> Spaces]
    /\ hnd \in [Ctx -> Handles \cup {None}] /\ hnd2 \in [Ctx -> Handles \cup {None}]
    /\ ref \in [Ctx -> Assets \cup {None}] /\ tmp \in [Ctx -> Assets \cup {None}]
    /\ victim \in [Ctx -> Assets \cup {None}]

\* The points at which a context works on ref, on tmp, and at which it is going
\* to work on hnd2.
RefPoints == {"release", "remove", "move", "move_in", "copy", "copy_in", "kind", "map",
              "map_alloc"}
TmpPoints == {"init", "map_init", "undo"}
SecondPoints == {"release", "remove"}

\* An entry has a number that was handed out.
Numbered == \A h \in Handles : table[h] # None => h[2] <= alloc_uid[h[1]]

\* The handle inside a mapping means the memory it refers to, or nothing.
InnerKnown == \A a \in Assets :
    /\ via[a] # None => a \in Mappings
    /\ inner[a] # None => Known(table, alloc_uid, via[a], inner[a])

\* So do the handles that calls work on.
CallsKnown == \A c \in Ctx :
    /\ pc[c] \in RefPoints => Known(table, alloc_uid, hnd[c], ref[c])
    /\ pc[c] \in TmpPoints => Known(table, alloc_uid, hnd[c], tmp[c])
    /\ pc[c] \in SecondPoints => Known(table, alloc_uid, hnd2[c], tmp[c])
    /\ hnd2[c] # None => pc[c] \in SecondPoints \cup {"unreachable"} /\ tmp[c] # None
    /\ pc[c] \in RefPoints => ref[c] # None
    /\ pc[c] = "destroy" => victim[c] # None

\* The inductive invariant: a call reads handles from tables and from mappings.
HandleInv == HandleTypes /\ Numbered /\ InnerKnown /\ CallsKnown

-----------------------------------------------------------------------------
(* Facts about tables *)

\* What a handle is known to mean, it means after a step that keeps handles.
LEMMA KeptKnown ==
    ASSUME NEW t, NEW u, NEW t2, NEW u2, NEW h, NEW a,
           Kept(t, u, t2, u2), Known(t, u, h, a)
    PROVE  Known(t2, u2, h, a)
  BY DEF Kept, Known

\* allocate_asset and asset_copy write an entry that was not handed out before.
LEMMA InsertKeeps ==
    ASSUME NEW s \in Spaces, NEW a \in Assets,
           HandleTypes, Numbered, Insert(s, a)
    PROVE  /\ Kept(table, alloc_uid, table', alloc_uid')
           /\ Numbered'
           /\ table' \in [Handles -> Assets \cup {None}]
           /\ alloc_uid' \in [Spaces -> 0 .. MaxHandle]
           /\ Next_handle(s) \in Handles
           /\ Known(table', alloc_uid', Next_handle(s), a)
  <1> DEFINE n == Next_handle(s)
  <1>1. n \in Handles /\ n[1] = s /\ n[2] = alloc_uid[s] + 1
    BY AssetAssumption DEF HandleTypes, Insert, Next_handle, Handles
  <1>2. /\ alloc_uid' \in [Spaces -> 0 .. MaxHandle]
        /\ alloc_uid'[s] = alloc_uid[s] + 1
        /\ \A r \in Spaces : alloc_uid[r] \in Int /\ alloc_uid'[r] \in Int
                             /\ alloc_uid[r] <= alloc_uid'[r]
    BY AssetAssumption DEF HandleTypes, Insert
  <1>3. /\ table' \in [Handles -> Assets \cup {None}]
        /\ table'[n] = a
        /\ \A h \in Handles : h # n => table'[h] = table[h]
    BY <1>1 DEF HandleTypes, Insert
  <1>4. \A h \in Handles : h[1] \in Spaces /\ h[2] \in Int
    BY AssetAssumption DEF Handles
  <1>5. ASSUME NEW h \in Handles, h[2] <= alloc_uid[h[1]]
        PROVE  h # n /\ h[2] <= alloc_uid'[h[1]]
    BY <1>1, <1>2, <1>4, <1>5
  <1>6. Kept(table, alloc_uid, table', alloc_uid')
    BY <1>3, <1>5 DEF Kept
  <1>7. Numbered'
    BY <1>1, <1>2, <1>3, <1>5 DEF Numbered
  <1>8. Known(table', alloc_uid', n, a)
    BY <1>1, <1>2, <1>3 DEF Known
  <1> QED
    BY <1>1, <1>2, <1>3, <1>6, <1>7, <1>8

\* _asset_remove takes an entry away.
LEMMA RemoveKeeps ==
    ASSUME NEW h \in Handles, HandleTypes, Numbered,
           table' = [table EXCEPT ![h] = None], alloc_uid' = alloc_uid
    PROVE  /\ Kept(table, alloc_uid, table', alloc_uid')
           /\ Numbered'
           /\ table' \in [Handles -> Assets \cup {None}]
           /\ alloc_uid' \in [Spaces -> 0 .. MaxHandle]
  BY DEF Kept, Numbered, HandleTypes

\* asset_move does both.
LEMMA MoveKeeps ==
    ASSUME NEW h \in Handles, NEW s \in Spaces, HandleTypes, Numbered,
           table[h] # None, alloc_uid[s] < MaxHandle,
           alloc_uid' = [alloc_uid EXCEPT ![s] = @ + 1],
           table' = [table EXCEPT ![h] = None, ![Next_handle(s)] = table[h]]
    PROVE  /\ Kept(table, alloc_uid, table', alloc_uid')
           /\ Numbered'
           /\ table' \in [Handles -> Assets \cup {None}]
           /\ alloc_uid' \in [Spaces -> 0 .. MaxHandle]
  <1> DEFINE n == Next_handle(s)
  <1>1. n \in Handles /\ n[1] = s /\ n[2] = alloc_uid[s] + 1
    BY AssetAssumption DEF HandleTypes, Next_handle, Handles
  <1>2. /\ alloc_uid' \in [Spaces -> 0 .. MaxHandle]
        /\ alloc_uid'[s] = alloc_uid[s] + 1
        /\ \A r \in Spaces : alloc_uid[r] \in Int /\ alloc_uid'[r] \in Int
                             /\ alloc_uid[r] <= alloc_uid'[r]
    BY AssetAssumption DEF HandleTypes
  <1>3. /\ table' \in [Handles -> Assets \cup {None}]
        /\ \A g \in Handles : g # n => table'[g] \in {None, table[g]}
    BY <1>1 DEF HandleTypes
  <1>4. \A g \in Handles : g[1] \in Spaces /\ g[2] \in Int
    BY AssetAssumption DEF Handles
  <1>5. ASSUME NEW g \in Handles, g[2] <= alloc_uid[g[1]]
        PROVE  g # n /\ g[2] <= alloc_uid'[g[1]]
    BY <1>1, <1>2, <1>4, <1>5
  <1>6. Kept(table, alloc_uid, table', alloc_uid')
    BY <1>3, <1>5 DEF Kept
  <1>7. Numbered'
    BY <1>1, <1>2, <1>3, <1>5 DEF Numbered
  <1> QED
    BY <1>2, <1>3, <1>6, <1>7

\* Nothing changes where neither table nor counter does.
LEMMA SameKeeps ==
    ASSUME HandleTypes, Numbered, UNCHANGED names
    PROVE  /\ Kept(table, alloc_uid, table', alloc_uid')
           /\ Numbered'
           /\ table' \in [Handles -> Assets \cup {None}]
           /\ alloc_uid' \in [Spaces -> 0 .. MaxHandle]
  BY DEF Kept, Numbered, HandleTypes, names

-----------------------------------------------------------------------------
(* The inductive invariant *)

\* The steps of context c that only take locks, give them back or mark an asset
Moves(c) ==
    \/ create_memory_done(c) \/ create_memory_failed(c) \/ publish_server(c)
    \/ create_ipc_endpoint_done(c) \/ by_handle_kind(c) \/ map_lock(c)
    \/ create_mapping_done(c) \/ create_mapping_failed(c) \/ create_ipc_connection_port(c)
    \/ asset_release(c) \/ asset_move_lock(c) \/ asset_copy_lock(c)

\* At the start no handle is in use.
LEMMA HandleInvInit == Init => HandleInv
  <1> SUFFICES ASSUME Init PROVE HandleInv
    OBVIOUS
  <1> DEFINE k == Cardinality(Spaces) - 1
  <1>1. k \in 0 .. MaxHandle /\ Root \in Spaces /\ Spaces \subseteq Assets
    <2>1. Spaces \subseteq Assets /\ IsFiniteSet(Assets) /\ Root \in Spaces
      BY AssetAssumption DEF Assets
    <2>2. IsFiniteSet(Spaces) /\ Cardinality(Spaces) \in Nat /\ Cardinality(Spaces) # 0
      BY <2>1, FS_Subset, FS_CardinalityType, FS_EmptySet
    <2> QED
      BY <2>1, <2>2, AssetAssumption
  <1>2. PICK f \in [1 .. k -> Spaces \ {Root}] : table = create_space(f)
    BY DEF Init
  <1>3. DOMAIN f = 1 .. k /\ \A h \in Handles : h[1] \in Spaces /\ h[2] \in Int
    BY <1>2, AssetAssumption DEF Handles
  <1>4. table \in [Handles -> Assets \cup {None}]
    BY <1>1, <1>2, <1>3 DEF create_space
  <1>5. HandleTypes
    BY <1>1, <1>4, AssetAssumption DEF Init, HandleTypes, Points
  <1>6. Numbered
    BY <1>1, <1>2, <1>3 DEF Init, Numbered, create_space
  <1>7. InnerKnown /\ CallsKnown
    BY <1>3 DEF Init, InnerKnown, CallsKnown, Known, RefPoints, TmpPoints, SecondPoints
  <1> QED
    BY <1>5, <1>6, <1>7 DEF HandleInv

\* Every step of a context keeps the handles that were handed out, and with
\* them the invariant.
LEMMA HandleInvStep ==
    ASSUME NEW c \in Ctx, HandleInv, Create(c) \/ Begin(c) \/ Continue(c)
    PROVE  HandleInv' /\ Kept(table, alloc_uid, table', alloc_uid')
  <1> USE DEF HandleInv
  <1> DEFINE Keeps == /\ Kept(table, alloc_uid, table', alloc_uid')
                      /\ Numbered'
                      /\ table' \in [Handles -> Assets \cup {None}]
                      /\ alloc_uid' \in [Spaces -> 0 .. MaxHandle]
  <1>0. /\ Root \in Spaces /\ Spaces \subseteq Assets /\ Mappings \subseteq Assets
        /\ Endpoints \subseteq Assets /\ None \notin Assets
        /\ \A x : Known(table', alloc_uid', None, x)
    BY AssetAssumption DEF Assets, Known
  <1>1. CASE Moves(c)
    <2>1. Keeps
      BY <1>1, SameKeeps DEF Moves, create_memory_done, create_memory_failed,
         publish_server, create_ipc_endpoint_done, by_handle_kind, map_lock,
         create_mapping_done, create_mapping_failed, create_ipc_connection_port,
         asset_release, asset_move_lock, asset_copy_lock, names
    <2>2. HandleTypes'
      BY <1>1, <1>0, <2>1 DEF Moves, create_memory_done, create_memory_failed,
         publish_server, create_ipc_endpoint_done, by_handle_kind, map_lock,
         create_mapping_done, create_mapping_failed, create_ipc_connection_port,
         asset_release, asset_move_lock, asset_copy_lock, heap, names, place, Goto,
         HandleTypes, Points
    <2>3. InnerKnown'
      BY <1>1, <1>0, <2>1, KeptKnown DEF Moves, create_memory_done, create_memory_failed,
         publish_server, create_ipc_endpoint_done, by_handle_kind, map_lock,
         create_mapping_done, create_mapping_failed, create_ipc_connection_port,
         asset_release, asset_move_lock, asset_copy_lock, heap, InnerKnown
    <2>4. CallsKnown'
      BY <1>1, <1>0, <2>1, KeptKnown DEF Moves, create_memory_done, create_memory_failed,
         publish_server, create_ipc_endpoint_done, by_handle_kind, map_lock,
         create_mapping_done, create_mapping_failed, create_ipc_connection_port,
         asset_release, asset_move_lock, asset_copy_lock, Goto, CallsKnown, HandleTypes,
         RefPoints, TmpPoints, SecondPoints
    <2> QED
      BY <2>1, <2>2, <2>3, <2>4
  <1>2. CASE \E s \in Spaces, a \in Memories : create_memory(c, s, a)
    <2>0. PICK s \in Spaces, a \in Memories : create_memory(c, s, a)
      BY <1>2
    <2>a. a \in Assets /\ s \in Spaces /\ Insert(s, a)
      BY <2>0 DEF create_memory, allocate_asset, Assets, HandleTypes
    <2>1. /\ Keeps /\ Next_handle(s) \in Handles
          /\ Known(table', alloc_uid', Next_handle(s), a)
      BY <2>a, InsertKeeps
    <2>2. HandleTypes'
      BY <2>0, <2>a, <1>0, <2>1 DEF create_memory, allocate_asset, Goto, HandleTypes, Points
    <2>3. InnerKnown'
      BY <2>0, <2>1, KeptKnown DEF create_memory, allocate_asset, InnerKnown
    <2>4. CallsKnown'
      BY <2>0, <2>a, <1>0, <2>1, KeptKnown DEF create_memory, allocate_asset, CallsKnown,
         HandleTypes, Goto, RefPoints, TmpPoints, SecondPoints
    <2> QED
      BY <2>1, <2>2, <2>3, <2>4
  <1>3. CASE \E s \in Spaces, a \in Endpoints : create_ipc_endpoint(c, s, a)
    <2>0. PICK s \in Spaces, a \in Endpoints : create_ipc_endpoint(c, s, a)
      BY <1>3
    <2>a. a \in Assets /\ s \in Spaces /\ Insert(s, a)
      BY <2>0 DEF create_ipc_endpoint, allocate_asset, Assets, HandleTypes
    <2>1. /\ Keeps /\ Next_handle(s) \in Handles
          /\ Known(table', alloc_uid', Next_handle(s), a)
      BY <2>a, InsertKeeps
    <2>2. HandleTypes'
      BY <2>0, <2>a, <1>0, <2>1 DEF create_ipc_endpoint, allocate_asset, Goto, HandleTypes,
         Points
    <2>b. via[a] = None
      BY <2>0, <2>a, AssetAssumption DEF InnerKnown
    <2>3. InnerKnown'
      BY <1>0, <2>0, <2>a, <2>b, <2>1, KeptKnown DEF create_ipc_endpoint, allocate_asset,
         InnerKnown, HandleTypes
    <2>4. CallsKnown'
      BY <2>0, <2>a, <1>0, <2>1, KeptKnown DEF create_ipc_endpoint, allocate_asset,
         CallsKnown, HandleTypes, Goto, RefPoints, TmpPoints, SecondPoints
    <2> QED
      BY <2>1, <2>2, <2>3, <2>4
  <1>4. CASE \E a \in Mappings : create_mapping(c, a)
    <2>0. PICK a \in Mappings : create_mapping(c, a)
      BY <1>4
    <2>a. a \in Assets /\ sp[c] \in Spaces /\ Insert(sp[c], a)
      BY <2>0 DEF create_mapping, allocate_asset, Assets, HandleTypes
    <2>1. /\ Keeps /\ Next_handle(sp[c]) \in Handles
          /\ Known(table', alloc_uid', Next_handle(sp[c]), a)
      BY <2>a, InsertKeeps
    <2>2. HandleTypes'
      BY <2>0, <2>a, <1>0, <2>1 DEF create_mapping, allocate_asset, place, Goto,
         HandleTypes, Points
    <2>b. Known(table, alloc_uid, hnd[c], ref[c])
      BY <2>0 DEF create_mapping, Goto, CallsKnown, RefPoints
    <2>3. InnerKnown'
      BY <1>0, <2>0, <2>a, <2>b, <2>1, KeptKnown DEF create_mapping, allocate_asset,
         InnerKnown, HandleTypes
    <2>4. CallsKnown'
      BY <2>0, <2>a, <1>0, <2>1, KeptKnown DEF create_mapping, allocate_asset, CallsKnown,
         HandleTypes, Goto, RefPoints, TmpPoints, SecondPoints
    <2> QED
      BY <2>1, <2>2, <2>3, <2>4
  <1>5. CASE \E a \in Connections : create_ipc_connection(c, a)
    <2>0. PICK a \in Connections : create_ipc_connection(c, a)
      BY <1>5
    <2>a. a \in Assets /\ sp[c] \in Spaces /\ Insert(sp[c], a)
      BY <2>0 DEF create_ipc_connection, allocate_asset, Assets, HandleTypes
    <2>1. /\ Keeps /\ Next_handle(sp[c]) \in Handles
          /\ Known(table', alloc_uid', Next_handle(sp[c]), a)
      BY <2>a, InsertKeeps
    <2>2. HandleTypes'
      BY <2>0, <2>a, <1>0, <2>1 DEF create_ipc_connection, allocate_asset, place, Goto,
         HandleTypes, Points
    <2>b. via[a] = None
      BY <2>0, <2>a, AssetAssumption DEF InnerKnown
    <2>3. InnerKnown'
      BY <1>0, <2>0, <2>a, <2>b, <2>1, KeptKnown DEF create_ipc_connection, allocate_asset,
         InnerKnown, HandleTypes
    <2>4. CallsKnown'
      BY <2>0, <2>a, <1>0, <2>1, KeptKnown DEF create_ipc_connection, allocate_asset,
         CallsKnown, HandleTypes, Goto, RefPoints, TmpPoints, SecondPoints
    <2> QED
      BY <2>1, <2>2, <2>3, <2>4
  <1>6. CASE \E s \in Spaces, h \in Handles :
                look_up(c, s, h) \/ \E d \in Spaces : look_up_to_send(c, s, h, d)
    <2>0. PICK s \in Spaces, h \in Handles, to \in {"release", "kind", "move", "copy"} :
             /\ by_handle(c, s, h, to) /\ UNCHANGED hnd2
             /\ dst' \in [Ctx -> Spaces]
      BY <1>6 DEF look_up, look_up_to_send, HandleTypes
    <2>1. Keeps
      BY <2>0, SameKeeps DEF by_handle, names
    <2>a. /\ Known(table', alloc_uid', h, Entry(s, h)) /\ hnd2[c] = None
          /\ Entry(s, h) \in Assets
      BY <1>0, <2>0 DEF by_handle, names, Known, Entry, Numbered, HandleTypes, Goto,
         CallsKnown, SecondPoints
    <2>2. HandleTypes'
      BY <2>0, <2>a, <1>0, <2>1 DEF by_handle, Goto, HandleTypes, Points
    <2>3. InnerKnown'
      BY <2>0, <2>a, <1>0, <2>1, KeptKnown DEF by_handle, InnerKnown, HandleTypes
    <2>4. CallsKnown'
      BY <2>0, <2>a, <1>0, <2>1, KeptKnown DEF by_handle, CallsKnown, HandleTypes, Goto,
         RefPoints, TmpPoints, SecondPoints
    <2> QED
      BY <2>1, <2>2, <2>3, <2>4
  <1>7. CASE \E s \in Spaces, h \in Handles : by_fn(c, s, h)
    <2>0. PICK s \in Spaces, h \in Handles : by_fn(c, s, h)
      BY <1>7
    <2>1. Keeps
      BY <2>0, SameKeeps DEF by_fn, names
    <2>a. /\ Entry(s, h) = table[h] /\ table[h] \in Assets /\ inner[table[h]] \in Assets
          /\ Known(table, alloc_uid, h, table[h])
          /\ Known(table, alloc_uid, via[table[h]], inner[table[h]])
      BY <1>0, <2>0 DEF by_fn, Known, Entry, Numbered, HandleTypes, InnerKnown
    <2>2. HandleTypes'
      BY <2>0, <2>a, <1>0, <2>1 DEF by_fn, Goto, HandleTypes, Points
    <2>3. InnerKnown'
      BY <2>0, <2>a, <1>0, <2>1, KeptKnown DEF by_fn, InnerKnown, HandleTypes
    <2>4. CallsKnown'
      BY <2>0, <2>a, <1>0, <2>1, KeptKnown DEF by_fn, names, CallsKnown, HandleTypes, Goto,
         RefPoints, TmpPoints, SecondPoints
    <2> QED
      BY <2>1, <2>2, <2>3, <2>4
  <1>8. CASE \E s \in Spaces, e \in Endpoints : query_server(c, s, e)
    <2>0. PICK s \in Spaces, e \in Endpoints : query_server(c, s, e)
      BY <1>8
    <2>1. Keeps
      BY <2>0, SameKeeps DEF query_server, names
    <2>2. HandleTypes'
      BY <2>0, <1>0, <2>1 DEF query_server, Goto, HandleTypes, Points, Assets
    <2>3. InnerKnown'
      BY <2>0, <1>0, <2>1, KeptKnown DEF query_server, InnerKnown, HandleTypes
    <2>4. CallsKnown'
      BY <2>0, <1>0, <2>1, KeptKnown DEF query_server, CallsKnown, HandleTypes, Goto,
         RefPoints, TmpPoints, SecondPoints
    <2> QED
      BY <2>1, <2>2, <2>3, <2>4
  <1>9. CASE undo(c)
    <2>1. Keeps
      <3>1. CASE Entry(sp[c], hnd[c]) = None
        BY <1>9, <3>1, SameKeeps DEF undo, names
      <3>2. CASE Entry(sp[c], hnd[c]) # None
        <4>1. hnd[c] \in Handles
          BY <3>2 DEF Entry
        <4> QED
          BY <1>9, <3>2, <4>1, RemoveKeeps DEF undo
      <3> QED
        BY <3>1, <3>2
    <2>2. HandleTypes'
      BY <1>9, <1>0, <2>1 DEF undo, place, Goto, HandleTypes, Points
    <2>3. InnerKnown'
      BY <1>9, <1>0, <2>1, KeptKnown DEF undo, InnerKnown, HandleTypes
    <2>4. CallsKnown'
      BY <1>9, <1>0, <2>1, KeptKnown DEF undo, CallsKnown, HandleTypes, Goto, RefPoints,
         TmpPoints, SecondPoints
    <2> QED
      BY <2>1, <2>2, <2>3, <2>4
  <1>10. CASE asset_remove(c)
    <2>1. Keeps
      <3>1. CASE Entry(sp[c], hnd[c]) = None
        BY <1>10, <3>1, SameKeeps DEF asset_remove, names
      <3>2. CASE Entry(sp[c], hnd[c]) # None
        <4>1. hnd[c] \in Handles
          BY <3>2 DEF Entry
        <4> QED
          BY <1>10, <3>2, <4>1, RemoveKeeps DEF asset_remove
      <3> QED
        BY <3>1, <3>2
    <2>2. HandleTypes'
      BY <1>10, <1>0, <2>1 DEF asset_remove, place, Goto, HandleTypes, Points
    <2>3. InnerKnown'
      BY <1>10, <1>0, <2>1, KeptKnown DEF asset_remove, InnerKnown, HandleTypes
    <2>4. CallsKnown'
      BY <1>10, <1>0, <2>1, KeptKnown DEF asset_remove, CallsKnown, HandleTypes, Goto,
         RefPoints, TmpPoints, SecondPoints
    <2> QED
      BY <2>1, <2>2, <2>3, <2>4
  <1>11. CASE asset_move(c)
    <2>1. Keeps
      <3>1. CASE Entry(sp[c], hnd[c]) = None
        BY <1>11, <3>1, SameKeeps DEF asset_move, names
      <3>2. CASE Entry(sp[c], hnd[c]) # None
        <4>1. hnd[c] \in Handles /\ table[hnd[c]] # None /\ dst[c] \in Spaces
          BY <3>2 DEF Entry, HandleTypes
        <4> QED
          BY <1>11, <3>2, <4>1, MoveKeeps DEF asset_move
      <3> QED
        BY <3>1, <3>2
    <2>a. tmp' \in [Ctx -> Assets \cup {None}]
      BY <1>11 DEF asset_move, Entry, HandleTypes
    <2>2. HandleTypes'
      BY <1>11, <2>a, <1>0, <2>1 DEF asset_move, place, Goto, HandleTypes, Points
    <2>3. InnerKnown'
      BY <1>11, <2>a, <1>0, <2>1, KeptKnown DEF asset_move, InnerKnown, HandleTypes
    <2>4. CallsKnown'
      BY <1>11, <2>a, <1>0, <2>1, KeptKnown DEF asset_move, CallsKnown, HandleTypes, Goto,
         RefPoints, TmpPoints, SecondPoints
    <2> QED
      BY <2>1, <2>2, <2>3, <2>4
  <1>12. CASE asset_copy(c)
    <2>0. ref[c] \in Assets
      BY <1>12 DEF asset_copy, Goto, HandleTypes, CallsKnown, RefPoints
    <2>a. dst[c] \in Spaces /\ Insert(dst[c], ref[c])
      BY <1>12 DEF asset_copy, HandleTypes
    <2>1. Keeps
      BY <2>0, <2>a, InsertKeeps
    <2>2. HandleTypes'
      BY <1>12, <2>0, <1>0, <2>1 DEF asset_copy, place, Goto, HandleTypes, Points
    <2>3. InnerKnown'
      BY <1>12, <2>0, <1>0, <2>1, KeptKnown DEF asset_copy, InnerKnown, HandleTypes
    <2>4. CallsKnown'
      BY <1>12, <2>0, <1>0, <2>1, KeptKnown DEF asset_copy, CallsKnown, HandleTypes, Goto,
         RefPoints, TmpPoints, SecondPoints
    <2> QED
      BY <2>1, <2>2, <2>3, <2>4
  <1>13. CASE deref(c)
    <2>1. Keeps
      BY <1>13, SameKeeps DEF deref, names
    <2>2. HandleTypes'
      BY <1>13, <1>0, <2>1 DEF deref, Dropped, heap, names, place, Goto, HandleTypes, Points
    <2>3. InnerKnown'
      BY <1>13, <1>0, <2>1, KeptKnown DEF deref, Dropped, heap, names, place, InnerKnown,
         HandleTypes
    <2>4. CallsKnown'
      BY <1>13, <1>0, <2>1, KeptKnown DEF deref, Dropped, heap, names, place, CallsKnown,
         HandleTypes, Goto, RefPoints, TmpPoints, SecondPoints
    <2> QED
      BY <2>1, <2>2, <2>3, <2>4
  <1>14. CASE destroy(c)
    <2>1. Keeps
      BY <1>14, SameKeeps DEF destroy, names
    <2>2. HandleTypes'
      BY <1>14, <1>0, <2>1 DEF destroy, heap, names, place, Goto, HandleTypes, Points,
         CallsKnown
    <2>3. InnerKnown'
      BY <1>14, <1>0, <2>1, KeptKnown DEF destroy, heap, names, place, InnerKnown,
         HandleTypes
    <2>4. CallsKnown'
      BY <1>14, <1>0, <2>1, KeptKnown DEF destroy, heap, names, place, CallsKnown,
         HandleTypes, Goto, RefPoints, TmpPoints, SecondPoints
    <2> QED
      BY <2>1, <2>2, <2>3, <2>4
  <1>15. CASE syscall_return(c)
    <2>1. Keeps
      BY <1>15, SameKeeps DEF syscall_return, names
    <2>2. HandleTypes'
      BY <1>15, <1>0, <2>1 DEF syscall_return, heap, names, place, Goto, HandleTypes, Points
    <2>3. InnerKnown'
      BY <1>15, <1>0, <2>1, KeptKnown DEF syscall_return, heap, names, place, InnerKnown,
         HandleTypes
    <2>4. CallsKnown'
      BY <1>15, <1>0, <2>1, KeptKnown DEF syscall_return, heap, names, place, CallsKnown,
         HandleTypes, Goto, RefPoints, TmpPoints, SecondPoints
    <2> QED
      BY <2>1, <2>2, <2>3, <2>4
  <1> QED
    BY <1>1, <1>2, <1>3, <1>4, <1>5, <1>6, <1>7, <1>8, <1>9, <1>10, <1>11, <1>12, <1>13,
       <1>14, <1>15 DEF Create, Begin, Continue, Moves

\* Stuttering included
LEMMA HandleInvNext ==
    HandleInv /\ [Next]_vars => HandleInv' /\ Kept(table, alloc_uid, table', alloc_uid')
  <1> SUFFICES ASSUME HandleInv, [Next]_vars
               PROVE  HandleInv' /\ Kept(table, alloc_uid, table', alloc_uid')
    OBVIOUS
  <1>1. CASE Next
    BY <1>1, HandleInvStep DEF Next
  <1>2. CASE UNCHANGED vars
    BY <1>2 DEF vars, heap, names, place, HandleInv, HandleTypes, Numbered, InnerKnown,
                CallsKnown, Kept
  <1> QED
    BY <1>1, <1>2

-----------------------------------------------------------------------------
(* Locks *)

\* The points at which a context is creating an asset
CreatePoints == {"init", "publish", "map_init", "port"}

LifeTypes ==
    /\ life \in [Assets -> {"fresh", "live", "freed"}]
    /\ state \in [Assets -> {"pending", "ready", "failed"}]
    /\ lock \in [Assets -> Ctx \cup {None}]
    /\ pinned \subseteq Assets /\ registered \subseteq Endpoints
    /\ failed \in [Ctx -> BOOLEAN]

\* An asset that is referred to was created, and a new one refers to nothing.
NotFresh ==
    /\ \A h \in Handles : table[h] # None => life[table[h]] # "fresh"
    /\ \A c \in Ctx : /\ ref[c] # None => life[ref[c]] # "fresh"
                      /\ tmp[c] # None => life[tmp[c]] # "fresh"
                      /\ pc[c] = "destroy" => life[victim[c]] # "fresh"
    /\ \A b \in Assets : inner[b] # None => life[inner[b]] # "fresh"
    /\ \A a \in registered \cup pinned \cup Spaces : life[a] # "fresh"
    /\ \A b \in Assets : life[b] = "fresh" => inner[b] = None

\* Which references a context has, and to what kind of asset
InHand == \A c \in Ctx :
    /\ pc[c] \in {"idle", "stopped", "init", "publish"} => ref[c] = None
    /\ pc[c] \in {"idle", "stopped", "kind", "move", "move_in", "copy", "copy_in", "map",
                  "map_alloc", "connect", "destroy"} => tmp[c] = None
    /\ pc[c] = "init" => tmp[c] \in Memories
    /\ pc[c] = "publish" => tmp[c] \in Endpoints
    /\ pc[c] = "map_init" => tmp[c] \in Mappings
    /\ pc[c] = "port" => tmp[c] \in Connections
    /\ pc[c] \in {"map", "map_alloc", "map_init"} => ref[c] \in Memories
    /\ pc[c] = "undo" => ref[c] \in Memories \cup {None} /\ tmp[c] # None
    /\ pc[c] \in {"connect", "port"} => ref[c] \in Endpoints
    /\ pc[c] = "kind" => ref[c] \in Memories \cup Endpoints
    /\ pc[c] = "destroy" => victim[c] \in Assets

\* Context c is creating asset a.
Creating(c, a) == pc[c] \in CreatePoints /\ tmp[c] = a

\* The locks that a context has at each point
Holds(c, a) ==
    \/ Creating(c, a)
    \/ pc[c] \in {"map_alloc", "map_init", "undo", "copy_in"} /\ a = ref[c]
    \/ pc[c] = "move_in" /\ a = first(c)

\* A creation that ends in unreachable() keeps its locks.
LockOwners == \A a \in Assets, c \in Ctx :
    /\ Holds(c, a) => lock[a] = c
    /\ lock[a] = c => Holds(c, a) \/ pc[c] = "unreachable"

\* An asset that is not initialised is locked by its creator.
CreatorLocks == \A a \in Assets :
    state[a] = "pending" => life[a] = "fresh" \/ \E c \in Ctx : Creating(c, a)

\* Spaces are owned for good, and an endpoint that is being created is not yet.
Pins == Spaces \subseteq pinned /\ \A c \in Ctx : pc[c] = "publish" => tmp[c] \notin pinned

LockInv ==
    /\ LifeTypes /\ NotFresh /\ InHand /\ LockOwners /\ CreatorLocks /\ InitialisedWhenUsed
    /\ Pins

\* A lookup by handle, whatever for
LookUp(c, s, h, to) ==
    /\ by_handle(c, s, h, to)
    /\ to = "kind" => Entry(s, h) \in Memories \cup Endpoints
    /\ dst' = dst \/ \E d \in Spaces : dst' = [dst EXCEPT ![c] = d]

\* A step keeps CreatorLocks if what stays uninitialised keeps its creator.
LEMMA CreatorLocksKept ==
    ASSUME CreatorLocks, NEW c \in Ctx,
           \A a \in Assets : state'[a] = "pending" =>
             /\ state[a] = "pending"
             /\ life[a] = "fresh" => life'[a] = "fresh" \/ Creating(c, a)'
             /\ \A d \in Ctx : Creating(d, a) => Creating(d, a)'
    PROVE  CreatorLocks'
  BY DEF CreatorLocks

\* A function to the Booleans stays one.
LEMMA BooleanFunctions ==
    ASSUME NEW S, NEW f \in [S -> BOOLEAN], NEW x, NEW b \in BOOLEAN
    PROVE  [f EXCEPT ![x] = b] \in [S -> BOOLEAN]
  OBVIOUS

\* Each step keeps the locks in order: one lemma per action, one step per part of
\* the invariant.
LEMMA CreateMemoryLocks ==
    ASSUME HandleInv, HandleInv', LockInv, NEW c \in Ctx, NEW s \in Spaces, NEW m \in
           Memories, create_memory(c, s, m)
    PROVE  LockInv'
  <1> USE AssetAssumption DEF Assets, HandleInv, LockInv, HandleTypes, LifeTypes,
     CallsKnown, RefPoints, TmpPoints, SecondPoints, create_memory, Goto,
     allocate_asset, Free, Own, Insert
  <1>1. LifeTypes'
    OBVIOUS
  <1>2. NotFresh'
    BY DEF NotFresh
  <1>3. InHand'
    BY DEF InHand
  <1>4. LockOwners'
    BY DEF NotFresh, InHand, LockOwners, Holds, Creating, first, second, CreatePoints
  <1>5. CreatorLocks'
    <2>1. \A a \in Assets : state'[a] = "pending" =>
             /\ state[a] = "pending"
             /\ life[a] = "fresh" => life'[a] = "fresh" \/ Creating(c, a)'
             /\ \A d \in Ctx : Creating(d, a) => Creating(d, a)'
      BY DEF Creating, CreatePoints
    <2> QED BY <2>1, CreatorLocksKept
  <1>6. InitialisedWhenUsed'
    BY DEF InitialisedWhenUsed
  <1>7. Pins'
    BY DEF Pins
  <1> QED BY <1>1, <1>2, <1>3, <1>4, <1>5, <1>6, <1>7

LEMMA CreateIpcEndpointLocks ==
    ASSUME HandleInv, HandleInv', LockInv, NEW c \in Ctx, NEW s \in Spaces, NEW e \in
           Endpoints, create_ipc_endpoint(c, s, e)
    PROVE  LockInv'
  <1> USE AssetAssumption DEF Assets, HandleInv, LockInv, HandleTypes, LifeTypes,
     CallsKnown, RefPoints, TmpPoints, SecondPoints, create_ipc_endpoint, Goto,
     allocate_asset, Free, Insert
  <1>1. LifeTypes'
    OBVIOUS
  <1>2. NotFresh'
    BY DEF NotFresh
  <1>3. InHand'
    BY DEF InHand
  <1>4. LockOwners'
    BY DEF NotFresh, InHand, LockOwners, Holds, Creating, first, second, CreatePoints
  <1>5. CreatorLocks'
    <2>1. \A a \in Assets : state'[a] = "pending" =>
             /\ state[a] = "pending"
             /\ life[a] = "fresh" => life'[a] = "fresh" \/ Creating(c, a)'
             /\ \A d \in Ctx : Creating(d, a) => Creating(d, a)'
      BY DEF Creating, CreatePoints
    <2> QED BY <2>1, CreatorLocksKept
  <1>6. InitialisedWhenUsed'
    BY DEF InitialisedWhenUsed
  <1>7. Pins'
    BY DEF NotFresh, InHand, LockOwners, Pins, Holds, Creating, first, second,
       CreatePoints
  <1> QED BY <1>1, <1>2, <1>3, <1>4, <1>5, <1>6, <1>7

LEMMA LookUpLocks ==
    ASSUME HandleInv, HandleInv', LockInv, NEW c \in Ctx, NEW s \in Spaces, NEW h \in
           Handles, NEW to \in {"release", "kind", "move", "copy"}, LookUp(c, s, h, to)
    PROVE  LockInv'
  <1> USE AssetAssumption DEF Assets, HandleInv, LockInv, HandleTypes, LifeTypes,
     CallsKnown, RefPoints, TmpPoints, SecondPoints, LookUp, by_handle, Goto, Free,
     names, Entry
  <1>1. LifeTypes'
    OBVIOUS
  <1>2. NotFresh'
    BY DEF NotFresh
  <1>3. InHand'
    BY DEF InHand
  <1>4. LockOwners'
    BY DEF LockOwners, Holds, Creating, first, second, CreatePoints
  <1>5. CreatorLocks'
    <2>1. \A a \in Assets : state'[a] = "pending" =>
             /\ state[a] = "pending"
             /\ life[a] = "fresh" => life'[a] = "fresh" \/ Creating(c, a)'
             /\ \A d \in Ctx : Creating(d, a) => Creating(d, a)'
      BY DEF Creating, CreatePoints
    <2> QED BY <2>1, CreatorLocksKept
  <1>6. InitialisedWhenUsed'
    BY DEF InitialisedWhenUsed
  <1>7. Pins'
    BY DEF Pins
  <1> QED BY <1>1, <1>2, <1>3, <1>4, <1>5, <1>6, <1>7

LEMMA ByFnLocks ==
    ASSUME HandleInv, HandleInv', LockInv, NEW c \in Ctx, NEW s \in Spaces, NEW h \in
           Handles, by_fn(c, s, h)
    PROVE  LockInv'
  <1> USE AssetAssumption DEF Assets, HandleInv, LockInv, HandleTypes, LifeTypes,
     CallsKnown, RefPoints, TmpPoints, SecondPoints, by_fn, Goto, Free, Own, names,
     Entry
  <1>1. LifeTypes'
    OBVIOUS
  <1>2. NotFresh'
    BY DEF NotFresh
  <1>3. InHand'
    BY DEF InHand
  <1>4. LockOwners'
    BY DEF LockOwners, Holds, Creating, first, second, CreatePoints
  <1>5. CreatorLocks'
    <2>1. \A a \in Assets : state'[a] = "pending" =>
             /\ state[a] = "pending"
             /\ life[a] = "fresh" => life'[a] = "fresh" \/ Creating(c, a)'
             /\ \A d \in Ctx : Creating(d, a) => Creating(d, a)'
      BY DEF Creating, CreatePoints
    <2> QED BY <2>1, CreatorLocksKept
  <1>6. InitialisedWhenUsed'
    BY DEF InitialisedWhenUsed
  <1>7. Pins'
    BY DEF Pins
  <1> QED BY <1>1, <1>2, <1>3, <1>4, <1>5, <1>6, <1>7

LEMMA QueryServerLocks ==
    ASSUME HandleInv, HandleInv', LockInv, NEW c \in Ctx, NEW s \in Spaces, NEW e \in
           Endpoints, query_server(c, s, e)
    PROVE  LockInv'
  <1> USE AssetAssumption DEF Assets, HandleInv, LockInv, HandleTypes, LifeTypes,
     CallsKnown, RefPoints, TmpPoints, SecondPoints, query_server, Goto, names
  <1>1. LifeTypes'
    OBVIOUS
  <1>2. NotFresh'
    BY DEF NotFresh
  <1>3. InHand'
    BY DEF InHand
  <1>4. LockOwners'
    BY DEF LockOwners, Holds, Creating, first, second, CreatePoints
  <1>5. CreatorLocks'
    <2>1. \A a \in Assets : state'[a] = "pending" =>
             /\ state[a] = "pending"
             /\ life[a] = "fresh" => life'[a] = "fresh" \/ Creating(c, a)'
             /\ \A d \in Ctx : Creating(d, a) => Creating(d, a)'
      BY DEF Creating, CreatePoints
    <2> QED BY <2>1, CreatorLocksKept
  <1>6. InitialisedWhenUsed'
    BY DEF InitialisedWhenUsed
  <1>7. Pins'
    BY DEF Pins
  <1> QED BY <1>1, <1>2, <1>3, <1>4, <1>5, <1>6, <1>7

LEMMA CreateMappingLocks ==
    ASSUME HandleInv, HandleInv', LockInv, NEW c \in Ctx, NEW g \in Mappings,
           create_mapping(c, g)
    PROVE  LockInv'
  <1> USE AssetAssumption DEF Assets, HandleInv, LockInv, HandleTypes, LifeTypes,
     CallsKnown, RefPoints, TmpPoints, SecondPoints, create_mapping, Goto,
     allocate_asset, Free, place, Insert
  <1>1. LifeTypes'
    OBVIOUS
  <1>2. NotFresh'
    BY DEF NotFresh
  <1>3. InHand'
    BY DEF InHand
  <1>4. LockOwners'
    BY DEF NotFresh, InHand, LockOwners, Holds, Creating, first, second, CreatePoints
  <1>5. CreatorLocks'
    <2>1. \A a \in Assets : state'[a] = "pending" =>
             /\ state[a] = "pending"
             /\ life[a] = "fresh" => life'[a] = "fresh" \/ Creating(c, a)'
             /\ \A d \in Ctx : Creating(d, a) => Creating(d, a)'
      BY DEF Creating, CreatePoints
    <2> QED BY <2>1, CreatorLocksKept
  <1>6. InitialisedWhenUsed'
    BY DEF InitialisedWhenUsed
  <1>7. Pins'
    BY DEF Pins
  <1> QED BY <1>1, <1>2, <1>3, <1>4, <1>5, <1>6, <1>7

LEMMA CreateIpcConnectionLocks ==
    ASSUME HandleInv, HandleInv', LockInv, NEW c \in Ctx, NEW n \in Connections,
           create_ipc_connection(c, n)
    PROVE  LockInv'
  <1> USE AssetAssumption DEF Assets, HandleInv, LockInv, HandleTypes, LifeTypes,
     CallsKnown, RefPoints, TmpPoints, SecondPoints, create_ipc_connection, Goto,
     allocate_asset, Free, place, Insert
  <1>1. LifeTypes'
    OBVIOUS
  <1>2. NotFresh'
    BY DEF NotFresh
  <1>3. InHand'
    BY DEF InHand
  <1>4. LockOwners'
    BY DEF NotFresh, InHand, LockOwners, Holds, Creating, first, second, CreatePoints
  <1>5. CreatorLocks'
    <2>1. \A a \in Assets : state'[a] = "pending" =>
             /\ state[a] = "pending"
             /\ life[a] = "fresh" => life'[a] = "fresh" \/ Creating(c, a)'
             /\ \A d \in Ctx : Creating(d, a) => Creating(d, a)'
      BY DEF Creating, CreatePoints
    <2> QED BY <2>1, CreatorLocksKept
  <1>6. InitialisedWhenUsed'
    BY DEF InitialisedWhenUsed
  <1>7. Pins'
    BY DEF InHand, Pins
  <1> QED BY <1>1, <1>2, <1>3, <1>4, <1>5, <1>6, <1>7

LEMMA CreateMemoryDoneLocks ==
    ASSUME HandleInv, HandleInv', LockInv, NEW c \in Ctx, create_memory_done(c)
    PROVE  LockInv'
  <1> USE AssetAssumption DEF Assets, HandleInv, LockInv, HandleTypes, LifeTypes,
     CallsKnown, RefPoints, TmpPoints, SecondPoints, create_memory_done, Goto, Unlock,
     names, place
  <1>1. LifeTypes'
    BY DEF InHand
  <1>2. NotFresh'
    BY DEF NotFresh
  <1>3. InHand'
    BY DEF InHand
  <1>4. LockOwners'
    BY DEF LockOwners, Holds, Creating, first, second, CreatePoints
  <1>5. CreatorLocks'
    <2>1. \A a \in Assets : state'[a] = "pending" =>
             /\ state[a] = "pending"
             /\ life[a] = "fresh" => life'[a] = "fresh" \/ Creating(c, a)'
             /\ \A d \in Ctx : Creating(d, a) => Creating(d, a)'
      BY DEF Creating, CreatePoints
    <2> QED BY <2>1, CreatorLocksKept
  <1>6. InitialisedWhenUsed'
    BY DEF InitialisedWhenUsed
  <1>7. Pins'
    BY DEF Pins
  <1> QED BY <1>1, <1>2, <1>3, <1>4, <1>5, <1>6, <1>7

LEMMA CreateMemoryFailedLocks ==
    ASSUME HandleInv, HandleInv', LockInv, NEW c \in Ctx, create_memory_failed(c)
    PROVE  LockInv'
  <1> USE AssetAssumption DEF Assets, HandleInv, LockInv, HandleTypes, LifeTypes,
     CallsKnown, RefPoints, TmpPoints, SecondPoints, create_memory_failed, Goto, Unlock,
     names, place
  <1>1. LifeTypes'
    BY DEF InHand
  <1>2. NotFresh'
    BY DEF NotFresh
  <1>3. InHand'
    BY DEF InHand
  <1>4. LockOwners'
    BY DEF InHand, LockOwners, Holds, Creating, first, second, CreatePoints
  <1>5. CreatorLocks'
    <2>1. \A a \in Assets : state'[a] = "pending" =>
             /\ state[a] = "pending"
             /\ life[a] = "fresh" => life'[a] = "fresh" \/ Creating(c, a)'
             /\ \A d \in Ctx : Creating(d, a) => Creating(d, a)'
      BY DEF Creating, CreatePoints
    <2> QED BY <2>1, CreatorLocksKept
  <1>6. InitialisedWhenUsed'
    BY DEF InitialisedWhenUsed
  <1>7. Pins'
    BY DEF Pins
  <1> QED BY <1>1, <1>2, <1>3, <1>4, <1>5, <1>6, <1>7

LEMMA PublishServerLocks ==
    ASSUME HandleInv, HandleInv', LockInv, NEW c \in Ctx, publish_server(c)
    PROVE  LockInv'
  <1> USE AssetAssumption DEF Assets, HandleInv, LockInv, HandleTypes, LifeTypes,
     CallsKnown, RefPoints, TmpPoints, SecondPoints, publish_server, names, place
  <1>1. LifeTypes'
    BY DEF InHand
  <1>2. NotFresh'
    BY DEF NotFresh, InHand
  <1>3. InHand'
    BY DEF InHand
  <1>4. LockOwners'
    BY DEF LockOwners, Holds, Creating, first, second, CreatePoints
  <1>5. CreatorLocks'
    <2>1. \A a \in Assets : state'[a] = "pending" =>
             /\ state[a] = "pending"
             /\ life[a] = "fresh" => life'[a] = "fresh" \/ Creating(c, a)'
             /\ \A d \in Ctx : Creating(d, a) => Creating(d, a)'
      BY DEF Creating, CreatePoints
    <2> QED BY <2>1, CreatorLocksKept
  <1>6. InitialisedWhenUsed'
    BY DEF InitialisedWhenUsed
  <1>7. Pins'
    BY DEF Pins
  <1> QED BY <1>1, <1>2, <1>3, <1>4, <1>5, <1>6, <1>7

LEMMA CreateIpcEndpointDoneLocks ==
    ASSUME HandleInv, HandleInv', LockInv, NEW c \in Ctx, create_ipc_endpoint_done(c)
    PROVE  LockInv'
  <1> USE AssetAssumption DEF Assets, HandleInv, LockInv, HandleTypes, LifeTypes,
     CallsKnown, RefPoints, TmpPoints, SecondPoints, create_ipc_endpoint_done, Goto,
     Unlock, names, place
  <1>1. LifeTypes'
    BY DEF InHand
  <1>2. NotFresh'
    BY DEF NotFresh, InHand
  <1>3. InHand'
    BY DEF InHand
  <1>4. LockOwners'
    BY DEF LockOwners, Holds, Creating, first, second, CreatePoints
  <1>5. CreatorLocks'
    <2>1. \A a \in Assets : state'[a] = "pending" =>
             /\ state[a] = "pending"
             /\ life[a] = "fresh" => life'[a] = "fresh" \/ Creating(c, a)'
             /\ \A d \in Ctx : Creating(d, a) => Creating(d, a)'
      BY DEF Creating, CreatePoints
    <2> QED BY <2>1, CreatorLocksKept
  <1>6. InitialisedWhenUsed'
    BY DEF InitialisedWhenUsed
  <1>7. Pins'
    BY DEF NotFresh, InHand, LockOwners, Pins, Holds, Creating, first, second,
       CreatePoints
  <1> QED BY <1>1, <1>2, <1>3, <1>4, <1>5, <1>6, <1>7

LEMMA ByHandleKindLocks ==
    ASSUME HandleInv, HandleInv', LockInv, NEW c \in Ctx, by_handle_kind(c)
    PROVE  LockInv'
  <1> USE AssetAssumption DEF Assets, HandleInv, LockInv, HandleTypes, LifeTypes,
     CallsKnown, RefPoints, TmpPoints, SecondPoints, by_handle_kind, Goto, Free, heap,
     names, place
  <1>1. LifeTypes'
    OBVIOUS
  <1>2. NotFresh'
    BY DEF NotFresh
  <1>3. InHand'
    BY DEF InHand
  <1>4. LockOwners'
    BY DEF LockOwners, Holds, Creating, first, second, CreatePoints
  <1>5. CreatorLocks'
    <2>1. \A a \in Assets : state'[a] = "pending" =>
             /\ state[a] = "pending"
             /\ life[a] = "fresh" => life'[a] = "fresh" \/ Creating(c, a)'
             /\ \A d \in Ctx : Creating(d, a) => Creating(d, a)'
      BY DEF Creating, CreatePoints
    <2> QED BY <2>1, CreatorLocksKept
  <1>6. InitialisedWhenUsed'
    BY DEF NotFresh, InHand, LockOwners, CreatorLocks, InitialisedWhenUsed, Pins, Holds,
       Creating, first, second, CreatePoints
  <1>7. Pins'
    BY DEF Pins
  <1> QED BY <1>1, <1>2, <1>3, <1>4, <1>5, <1>6, <1>7

LEMMA MapLockLocks ==
    ASSUME HandleInv, HandleInv', LockInv, NEW c \in Ctx, map_lock(c)
    PROVE  LockInv'
  <1> USE AssetAssumption DEF Assets, HandleInv, LockInv, HandleTypes, LifeTypes,
     CallsKnown, RefPoints, TmpPoints, SecondPoints, map_lock, Goto, Free, heap, names,
     place
  <1>1. LifeTypes'
    OBVIOUS
  <1>2. NotFresh'
    BY DEF NotFresh
  <1>3. InHand'
    BY DEF InHand
  <1>4. LockOwners'
    BY DEF LockOwners, Holds, Creating, first, second, CreatePoints
  <1>5. CreatorLocks'
    <2>1. \A a \in Assets : state'[a] = "pending" =>
             /\ state[a] = "pending"
             /\ life[a] = "fresh" => life'[a] = "fresh" \/ Creating(c, a)'
             /\ \A d \in Ctx : Creating(d, a) => Creating(d, a)'
      BY DEF Creating, CreatePoints
    <2> QED BY <2>1, CreatorLocksKept
  <1>6. InitialisedWhenUsed'
    BY DEF InitialisedWhenUsed
  <1>7. Pins'
    BY DEF Pins
  <1> QED BY <1>1, <1>2, <1>3, <1>4, <1>5, <1>6, <1>7

LEMMA CreateMappingDoneLocks ==
    ASSUME HandleInv, HandleInv', LockInv, NEW c \in Ctx, create_mapping_done(c)
    PROVE  LockInv'
  <1> USE AssetAssumption DEF Assets, HandleInv, LockInv, HandleTypes, LifeTypes,
     CallsKnown, RefPoints, TmpPoints, SecondPoints, create_mapping_done, Goto, Unlock,
     names, place
  <1>1. LifeTypes'
    BY DEF InHand
  <1>2. NotFresh'
    BY DEF NotFresh
  <1>3. InHand'
    BY DEF InHand
  <1>4. LockOwners'
    BY DEF LockOwners, Holds, Creating, first, second, CreatePoints
  <1>5. CreatorLocks'
    <2>1. \A a \in Assets : state'[a] = "pending" =>
             /\ state[a] = "pending"
             /\ life[a] = "fresh" => life'[a] = "fresh" \/ Creating(c, a)'
             /\ \A d \in Ctx : Creating(d, a) => Creating(d, a)'
      BY DEF Creating, CreatePoints
    <2> QED BY <2>1, CreatorLocksKept
  <1>6. InitialisedWhenUsed'
    BY DEF InitialisedWhenUsed
  <1>7. Pins'
    BY DEF Pins
  <1> QED BY <1>1, <1>2, <1>3, <1>4, <1>5, <1>6, <1>7

LEMMA CreateMappingFailedLocks ==
    ASSUME HandleInv, HandleInv', LockInv, NEW c \in Ctx, create_mapping_failed(c)
    PROVE  LockInv'
  <1> USE AssetAssumption DEF Assets, HandleInv, LockInv, HandleTypes, LifeTypes,
     CallsKnown, RefPoints, TmpPoints, SecondPoints, create_mapping_failed, Goto,
     Unlock, names, place
  <1>1. LifeTypes'
    BY DEF InHand
  <1>2. NotFresh'
    BY DEF NotFresh
  <1>3. InHand'
    BY DEF InHand
  <1>4. LockOwners'
    BY DEF InHand, LockOwners, Holds, Creating, first, second, CreatePoints
  <1>5. CreatorLocks'
    <2>1. \A a \in Assets : state'[a] = "pending" =>
             /\ state[a] = "pending"
             /\ life[a] = "fresh" => life'[a] = "fresh" \/ Creating(c, a)'
             /\ \A d \in Ctx : Creating(d, a) => Creating(d, a)'
      BY DEF Creating, CreatePoints
    <2> QED BY <2>1, CreatorLocksKept
  <1>6. InitialisedWhenUsed'
    BY DEF InitialisedWhenUsed
  <1>7. Pins'
    BY DEF Pins
  <1> QED BY <1>1, <1>2, <1>3, <1>4, <1>5, <1>6, <1>7

LEMMA UndoLocks ==
    ASSUME HandleInv, HandleInv', LockInv, NEW c \in Ctx, undo(c)
    PROVE  LockInv'
  <1> USE AssetAssumption DEF Assets, HandleInv, LockInv, HandleTypes, LifeTypes,
     CallsKnown, RefPoints, TmpPoints, SecondPoints, undo, Free, Unlock, place, Entry
  <1>1. LifeTypes'
    <2>1. failed \in [Ctx -> BOOLEAN] /\ (failed' = failed \/ failed' = [failed EXCEPT ![c] = TRUE])
      OBVIOUS
    <2>2. failed' \in [Ctx -> BOOLEAN]
      <3> HIDE DEF LifeTypes, LockInv, undo
      <3> QED BY <2>1, BooleanFunctions, ZenonT(40)
    <2>3. lock' \in [Assets -> Ctx \cup {None}]
      OBVIOUS
    <2> QED BY <2>2, <2>3
  <1>2. NotFresh'
    <2>1. \A h \in Handles : table'[h] \in {None, table[h]}
      OBVIOUS
    <2> QED BY <2>1 DEF NotFresh
  <1>3. InHand'
    BY DEF InHand
  <1>4. LockOwners'
    BY DEF LockOwners, Holds, Creating, first, second, CreatePoints
  <1>5. CreatorLocks'
    <2>1. \A a \in Assets : state'[a] = "pending" =>
             /\ state[a] = "pending"
             /\ life[a] = "fresh" => life'[a] = "fresh" \/ Creating(c, a)'
             /\ \A d \in Ctx : Creating(d, a) => Creating(d, a)'
      BY DEF Creating, CreatePoints
    <2> QED BY <2>1, CreatorLocksKept
  <1>6. InitialisedWhenUsed'
    BY DEF InitialisedWhenUsed
  <1>7. Pins'
    BY DEF Pins
  <1> QED BY <1>1, <1>2, <1>3, <1>4, <1>5, <1>6, <1>7

LEMMA CreateIpcConnectionPortLocks ==
    ASSUME HandleInv, HandleInv', LockInv, NEW c \in Ctx, create_ipc_connection_port(c)
    PROVE  LockInv'
  <1> USE AssetAssumption DEF Assets, HandleInv, LockInv, HandleTypes, LifeTypes,
     CallsKnown, RefPoints, TmpPoints, SecondPoints, create_ipc_connection_port, Goto,
     Free, Unlock, names, place
  <1>1. LifeTypes'
    BY DEF InHand
  <1>2. NotFresh'
    BY DEF NotFresh
  <1>3. InHand'
    BY DEF InHand
  <1>4. LockOwners'
    BY DEF LockOwners, Holds, Creating, first, second, CreatePoints
  <1>5. CreatorLocks'
    <2>1. \A a \in Assets : state'[a] = "pending" =>
             /\ state[a] = "pending"
             /\ life[a] = "fresh" => life'[a] = "fresh" \/ Creating(c, a)'
             /\ \A d \in Ctx : Creating(d, a) => Creating(d, a)'
      BY DEF Creating, CreatePoints
    <2> QED BY <2>1, CreatorLocksKept
  <1>6. InitialisedWhenUsed'
    BY DEF InitialisedWhenUsed
  <1>7. Pins'
    BY DEF Pins
  <1> QED BY <1>1, <1>2, <1>3, <1>4, <1>5, <1>6, <1>7

LEMMA AssetReleaseLocks ==
    ASSUME HandleInv, HandleInv', LockInv, NEW c \in Ctx, asset_release(c)
    PROVE  LockInv'
  <1> USE AssetAssumption DEF Assets, HandleInv, LockInv, HandleTypes, LifeTypes,
     CallsKnown, RefPoints, TmpPoints, SecondPoints, asset_release, Goto, Free, heap,
     names, place
  <1>1. LifeTypes'
    OBVIOUS
  <1>2. NotFresh'
    BY DEF NotFresh
  <1>3. InHand'
    BY DEF InHand
  <1>4. LockOwners'
    BY DEF LockOwners, Holds, Creating, first, second, CreatePoints
  <1>5. CreatorLocks'
    <2>1. \A a \in Assets : state'[a] = "pending" =>
             /\ state[a] = "pending"
             /\ life[a] = "fresh" => life'[a] = "fresh" \/ Creating(c, a)'
             /\ \A d \in Ctx : Creating(d, a) => Creating(d, a)'
      BY DEF Creating, CreatePoints
    <2> QED BY <2>1, CreatorLocksKept
  <1>6. InitialisedWhenUsed'
    BY DEF NotFresh, InHand, LockOwners, CreatorLocks, InitialisedWhenUsed, Pins, Holds,
       Creating, first, second, CreatePoints
  <1>7. Pins'
    BY DEF Pins
  <1> QED BY <1>1, <1>2, <1>3, <1>4, <1>5, <1>6, <1>7

LEMMA AssetRemoveLocks ==
    ASSUME HandleInv, HandleInv', LockInv, NEW c \in Ctx, asset_remove(c)
    PROVE  LockInv'
  <1> USE AssetAssumption DEF Assets, HandleInv, LockInv, HandleTypes, LifeTypes,
     CallsKnown, RefPoints, TmpPoints, SecondPoints, asset_remove, Free, place, Entry
  <1>1. LifeTypes'
    OBVIOUS
  <1>2. NotFresh'
    <2>1. \A h \in Handles : table'[h] \in {None, table[h]}
      OBVIOUS
    <2>2. \A d \in Ctx : ref'[d] \in {ref[d], tmp[d]} /\ tmp'[d] \in {ref[d], tmp[d]}
      OBVIOUS
    <2> QED BY <2>1, <2>2 DEF NotFresh
  <1>3. InHand'
    BY DEF InHand
  <1>4. LockOwners'
    BY DEF LockOwners, Holds, Creating, first, second, CreatePoints
  <1>5. CreatorLocks'
    <2>1. \A a \in Assets : state'[a] = "pending" =>
             /\ state[a] = "pending"
             /\ life[a] = "fresh" => life'[a] = "fresh" \/ Creating(c, a)'
             /\ \A d \in Ctx : Creating(d, a) => Creating(d, a)'
      BY DEF Creating, CreatePoints
    <2> QED BY <2>1, CreatorLocksKept
  <1>6. InitialisedWhenUsed'
    BY DEF InitialisedWhenUsed
  <1>7. Pins'
    BY SMTT(30) DEF Pins
  <1> QED BY <1>1, <1>2, <1>3, <1>4, <1>5, <1>6, <1>7

LEMMA AssetMoveLockLocks ==
    ASSUME HandleInv, HandleInv', LockInv, NEW c \in Ctx, asset_move_lock(c)
    PROVE  LockInv'
  <1> USE AssetAssumption DEF Assets, HandleInv, LockInv, HandleTypes, LifeTypes,
     CallsKnown, RefPoints, TmpPoints, SecondPoints, asset_move_lock, Goto, Free, heap,
     names, place, first
  <1>1. LifeTypes'
    OBVIOUS
  <1>2. NotFresh'
    BY DEF NotFresh
  <1>3. InHand'
    BY DEF InHand
  <1>4. LockOwners'
    BY DEF LockOwners, Holds, Creating, second, CreatePoints
  <1>5. CreatorLocks'
    <2>1. \A a \in Assets : state'[a] = "pending" =>
             /\ state[a] = "pending"
             /\ life[a] = "fresh" => life'[a] = "fresh" \/ Creating(c, a)'
             /\ \A d \in Ctx : Creating(d, a) => Creating(d, a)'
      BY DEF Creating, CreatePoints
    <2> QED BY <2>1, CreatorLocksKept
  <1>6. InitialisedWhenUsed'
    BY DEF InitialisedWhenUsed
  <1>7. Pins'
    BY DEF Pins
  <1> QED BY <1>1, <1>2, <1>3, <1>4, <1>5, <1>6, <1>7

LEMMA AssetMoveLocks ==
    ASSUME HandleInv, HandleInv', LockInv, NEW c \in Ctx, asset_move(c)
    PROVE  LockInv'
  <1> USE AssetAssumption DEF Assets, HandleInv, LockInv, HandleTypes, LifeTypes,
     CallsKnown, RefPoints, TmpPoints, SecondPoints, asset_move, Goto, Free, Unlock,
     names, place, first, second, Entry
  <1>1. LifeTypes'
    <2>1. failed \in [Ctx -> BOOLEAN] /\ (failed' = failed \/ failed' = [failed EXCEPT ![c] = TRUE])
      OBVIOUS
    <2>2. failed' \in [Ctx -> BOOLEAN]
      <3> HIDE DEF LifeTypes, LockInv, asset_move
      <3> QED BY <2>1, BooleanFunctions, ZenonT(40)
    <2>3. lock' \in [Assets -> Ctx \cup {None}]
      OBVIOUS
    <2> QED BY <2>2, <2>3
  <1>2. NotFresh'
    <2> HIDE DEF asset_move, Entry, names, Goto, first, second, Unlock
    <2>1. CASE Entry(sp[c], hnd[c]) = None
      BY <2>1 DEF asset_move, names, Goto, NotFresh
    <2>2. CASE Entry(sp[c], hnd[c]) # None
      <3>1. hnd[c] \in Handles /\ table[hnd[c]] # None
        BY <2>2 DEF Entry
      <3>2. \A h \in Handles : table'[h] \in {None, table[h], table[hnd[c]]}
        <4>1. table' = [table EXCEPT ![hnd[c]] = None, ![Next_handle(dst[c])] = table[hnd[c]]]
          BY <2>2 DEF asset_move
        <4>2. table \in [Handles -> Assets \cup {None}]
          OBVIOUS
        <4> HIDE DEF HandleInv, LockInv, HandleTypes, Assets
        <4> QED BY <4>1, <4>2
      <3>3. \A d \in Ctx : tmp'[d] \in {tmp[d], table[hnd[c]]}
        BY <2>2 DEF asset_move
      <3>4. /\ UNCHANGED <<life, inner, ref, victim, registered, pinned>>
            /\ pc' = [pc EXCEPT ![c] = "drop"]
        BY DEF asset_move, Goto
      <3>5. life[table[hnd[c]]] # "fresh"
        BY <3>1 DEF NotFresh
      <3> HIDE DEF HandleInv, HandleTypes, LifeTypes, CallsKnown, Assets
      <3> QED BY <3>2, <3>3, <3>4, <3>5 DEF HandleInv, HandleTypes, NotFresh
    <2> QED BY <2>1, <2>2
  <1>3. InHand'
    BY DEF InHand
  <1>4. LockOwners'
    BY DEF LockOwners, Holds, Creating, CreatePoints
  <1>5. CreatorLocks'
    <2>1. \A a \in Assets : state'[a] = "pending" =>
             /\ state[a] = "pending"
             /\ life[a] = "fresh" => life'[a] = "fresh" \/ Creating(c, a)'
             /\ \A d \in Ctx : Creating(d, a) => Creating(d, a)'
      BY DEF Creating, CreatePoints
    <2> QED BY <2>1, CreatorLocksKept
  <1>6. InitialisedWhenUsed'
    BY DEF InitialisedWhenUsed
  <1>7. Pins'
    BY DEF Pins
  <1> QED BY <1>1, <1>2, <1>3, <1>4, <1>5, <1>6, <1>7

LEMMA AssetCopyLockLocks ==
    ASSUME HandleInv, HandleInv', LockInv, NEW c \in Ctx, asset_copy_lock(c)
    PROVE  LockInv'
  <1> USE AssetAssumption DEF Assets, HandleInv, LockInv, HandleTypes, LifeTypes,
     CallsKnown, RefPoints, TmpPoints, SecondPoints, asset_copy_lock, Goto, Free, heap,
     names, place
  <1>1. LifeTypes'
    OBVIOUS
  <1>2. NotFresh'
    BY DEF NotFresh
  <1>3. InHand'
    BY DEF InHand
  <1>4. LockOwners'
    BY DEF LockOwners, Holds, Creating, first, second, CreatePoints
  <1>5. CreatorLocks'
    <2>1. \A a \in Assets : state'[a] = "pending" =>
             /\ state[a] = "pending"
             /\ life[a] = "fresh" => life'[a] = "fresh" \/ Creating(c, a)'
             /\ \A d \in Ctx : Creating(d, a) => Creating(d, a)'
      BY DEF Creating, CreatePoints
    <2> QED BY <2>1, CreatorLocksKept
  <1>6. InitialisedWhenUsed'
    BY DEF NotFresh, InHand, LockOwners, CreatorLocks, InitialisedWhenUsed, Pins, Holds,
       Creating, first, second, CreatePoints
  <1>7. Pins'
    BY DEF Pins
  <1> QED BY <1>1, <1>2, <1>3, <1>4, <1>5, <1>6, <1>7

LEMMA AssetCopyLocks ==
    ASSUME HandleInv, HandleInv', LockInv, NEW c \in Ctx, asset_copy(c)
    PROVE  LockInv'
  <1> USE AssetAssumption DEF Assets, HandleInv, LockInv, HandleTypes, LifeTypes,
     CallsKnown, RefPoints, TmpPoints, SecondPoints, asset_copy, Goto, Free, Unlock,
     Own, place, Insert
  <1>1. LifeTypes'
    OBVIOUS
  <1>2. NotFresh'
    BY DEF NotFresh
  <1>3. InHand'
    BY DEF InHand
  <1>4. LockOwners'
    BY DEF LockOwners, Holds, Creating, first, second, CreatePoints
  <1>5. CreatorLocks'
    <2>1. \A a \in Assets : state'[a] = "pending" =>
             /\ state[a] = "pending"
             /\ life[a] = "fresh" => life'[a] = "fresh" \/ Creating(c, a)'
             /\ \A d \in Ctx : Creating(d, a) => Creating(d, a)'
      BY DEF Creating, CreatePoints
    <2> QED BY <2>1, CreatorLocksKept
  <1>6. InitialisedWhenUsed'
    BY DEF InitialisedWhenUsed
  <1>7. Pins'
    BY DEF Pins
  <1> QED BY <1>1, <1>2, <1>3, <1>4, <1>5, <1>6, <1>7

LEMMA DerefLocks ==
    ASSUME HandleInv, HandleInv', LockInv, NEW c \in Ctx, deref(c)
    PROVE  LockInv'
  <1> USE AssetAssumption DEF Assets, HandleInv, LockInv, HandleTypes, LifeTypes,
     CallsKnown, RefPoints, TmpPoints, SecondPoints, deref, names, place, Dropped
  <1>1. LifeTypes'
    OBVIOUS
  <1>2. NotFresh'
    BY DEF NotFresh
  <1>3. InHand'
    BY DEF InHand
  <1>4. LockOwners'
    BY DEF LockOwners, Holds, Creating, first, second, CreatePoints
  <1>5. CreatorLocks'
    <2>1. \A a \in Assets : state'[a] = "pending" =>
             /\ state[a] = "pending"
             /\ life[a] = "fresh" => life'[a] = "fresh" \/ Creating(c, a)'
             /\ \A d \in Ctx : Creating(d, a) => Creating(d, a)'
      BY DEF Creating, CreatePoints
    <2> QED BY <2>1, CreatorLocksKept
  <1>6. InitialisedWhenUsed'
    BY DEF InitialisedWhenUsed
  <1>7. Pins'
    BY DEF Pins
  <1> QED BY <1>1, <1>2, <1>3, <1>4, <1>5, <1>6, <1>7

LEMMA DestroyLocks ==
    ASSUME HandleInv, HandleInv', LockInv, NEW c \in Ctx, destroy(c)
    PROVE  LockInv'
  <1> USE AssetAssumption DEF Assets, HandleInv, LockInv, HandleTypes, LifeTypes,
     CallsKnown, RefPoints, TmpPoints, SecondPoints, destroy, Goto, Free, names, place
  <1>1. LifeTypes'
    OBVIOUS
  <1>2. NotFresh'
    BY DEF NotFresh
  <1>3. InHand'
    BY DEF InHand
  <1>4. LockOwners'
    BY DEF LockOwners, Holds, Creating, first, second, CreatePoints
  <1>5. CreatorLocks'
    <2>1. \A a \in Assets : state'[a] = "pending" =>
             /\ state[a] = "pending"
             /\ life[a] = "fresh" => life'[a] = "fresh" \/ Creating(c, a)'
             /\ \A d \in Ctx : Creating(d, a) => Creating(d, a)'
      BY DEF Creating, CreatePoints, InHand, NotFresh
    <2> QED BY <2>1, CreatorLocksKept
  <1>6. InitialisedWhenUsed'
    BY DEF InitialisedWhenUsed
  <1>7. Pins'
    BY DEF Pins
  <1> QED BY <1>1, <1>2, <1>3, <1>4, <1>5, <1>6, <1>7

LEMMA SyscallReturnLocks ==
    ASSUME HandleInv, HandleInv', LockInv, NEW c \in Ctx, syscall_return(c)
    PROVE  LockInv'
  <1> USE AssetAssumption DEF Assets, HandleInv, LockInv, HandleTypes, LifeTypes,
     CallsKnown, RefPoints, TmpPoints, SecondPoints, syscall_return, Goto, heap, names,
     Dropped
  <1>1. LifeTypes'
    OBVIOUS
  <1>2. NotFresh'
    BY DEF NotFresh
  <1>3. InHand'
    BY DEF InHand
  <1>4. LockOwners'
    BY DEF LockOwners, Holds, Creating, first, second, CreatePoints
  <1>5. CreatorLocks'
    <2>1. \A a \in Assets : state'[a] = "pending" =>
             /\ state[a] = "pending"
             /\ life[a] = "fresh" => life'[a] = "fresh" \/ Creating(c, a)'
             /\ \A d \in Ctx : Creating(d, a) => Creating(d, a)'
      BY DEF Creating, CreatePoints
    <2> QED BY <2>1, CreatorLocksKept
  <1>6. InitialisedWhenUsed'
    BY DEF InitialisedWhenUsed
  <1>7. Pins'
    BY DEF Pins
  <1> QED BY <1>1, <1>2, <1>3, <1>4, <1>5, <1>6, <1>7

\* At the start nothing is locked and only spaces exist.
LEMMA LockInvInit == Init => LockInv
  <1> SUFFICES ASSUME Init PROVE LockInv
    OBVIOUS
  <1> USE AssetAssumption DEF Init, LockInv
  <1>1. LifeTypes
    BY DEF LifeTypes, Assets
  <1>2. Spaces \subseteq Assets /\ \A h \in Handles : table[h] # None => table[h] \in Spaces
    BY HandleInvInit DEF create_space, HandleInv, HandleTypes, Assets
  <1>3. NotFresh
    BY <1>2 DEF NotFresh
  <1>4. InHand
    BY DEF InHand
  <1>5. LockOwners
    BY DEF LockOwners, Holds, Creating, CreatePoints
  <1>6. CreatorLocks /\ InitialisedWhenUsed /\ Pins
    BY DEF CreatorLocks, InitialisedWhenUsed, Pins
  <1> QED BY <1>1, <1>3, <1>4, <1>5, <1>6

\* So does a step of any context.
LEMMA LockInvStep ==
    ASSUME NEW c \in Ctx, HandleInv, LockInv, Create(c) \/ Begin(c) \/ Continue(c)
    PROVE  LockInv'
  <1>0. HandleInv'
    BY HandleInvStep
  <1>1. CASE Create(c)
    BY <1>0, <1>1, CreateMemoryLocks, CreateIpcEndpointLocks DEF Create
  <1>2. CASE \E s \in Spaces, h \in Handles :
                look_up(c, s, h) \/ \E d \in Spaces : look_up_to_send(c, s, h, d)
    <2>1. PICK s \in Spaces, h \in Handles, to \in {"release", "kind", "move", "copy"} :
             LookUp(c, s, h, to)
      BY <1>2 DEF look_up, look_up_to_send, LookUp
    <2> QED BY <1>0, <2>1, LookUpLocks
  <1>3. CASE \E s \in Spaces, h \in Handles : by_fn(c, s, h)
    BY <1>0, <1>3, ByFnLocks
  <1>4. CASE \E s \in Spaces, e \in Endpoints : query_server(c, s, e)
    BY <1>0, <1>4, QueryServerLocks
  <1>5. CASE Continue(c)
    BY <1>0, <1>5, CreateMappingLocks, CreateIpcConnectionLocks, CreateMemoryDoneLocks,
       CreateMemoryFailedLocks, PublishServerLocks, CreateIpcEndpointDoneLocks,
       ByHandleKindLocks, MapLockLocks, CreateMappingDoneLocks,
       CreateMappingFailedLocks, UndoLocks, CreateIpcConnectionPortLocks,
       AssetReleaseLocks, AssetRemoveLocks, AssetMoveLockLocks, AssetMoveLocks,
       AssetCopyLockLocks, AssetCopyLocks, DerefLocks, DestroyLocks, SyscallReturnLocks DEF Continue
  <1> QED BY <1>1, <1>2, <1>3, <1>4, <1>5 DEF Begin

-----------------------------------------------------------------------------
(* Reference counts *)

\* How often a is a value of f on S
Occ(f, S, a) == Cardinality({x \in S : f[x] = a})

\* f and g differ at most at x.
Agree(f, g, S, x) == \A y \in S \ {x} : g[y] = f[y]

\* What then becomes of the number of a
Counted(f, g, S, x, a) ==
    /\ Occ(f, S, a) \in Nat
    /\ Occ(g, S, a) = Occ(f, S, a) + One(x \in S /\ g[x] = a) - One(x \in S /\ f[x] = a)

\* The number changes with the one value.
LEMMA OccUpdate ==
    ASSUME NEW S, IsFiniteSet(S), NEW f, NEW g, NEW x, Agree(f, g, S, x), NEW a
    PROVE  Counted(f, g, S, x, a)
  <1> DEFINE F == {y \in S : f[y] = a}  G == {y \in S : g[y] = a}
  <1>1. IsFiniteSet(F) /\ IsFiniteSet(G) /\ IsFiniteSet(F \ {x})
    BY FS_Subset
  <1>2. G \ {x} = F \ {x}
    BY DEF Agree
  <1>3. Cardinality(F) \in Nat /\ Cardinality(G) \in Nat /\ Cardinality(F \ {x}) \in Nat
    BY <1>1, FS_CardinalityType
  <1>4. Cardinality(F \ {x}) = IF x \in F THEN Cardinality(F) - 1 ELSE Cardinality(F)
    BY <1>1, FS_RemoveElement
  <1>5. Cardinality(G \ {x}) = IF x \in G THEN Cardinality(G) - 1 ELSE Cardinality(G)
    BY <1>1, FS_RemoveElement
  <1>6. (x \in F <=> x \in S /\ f[x] = a) /\ (x \in G <=> x \in S /\ g[x] = a)
    OBVIOUS
  <1>7. Occ(f, S, a) = Cardinality(F) /\ Occ(g, S, a) = Cardinality(G)
    BY DEF Occ
  <1> HIDE DEF F, G
  <1> QED
    BY <1>2, <1>3, <1>4, <1>5, <1>6, <1>7 DEF One, Counted

\* An occurrence is counted.
LEMMA OccPositive ==
    ASSUME NEW S, IsFiniteSet(S), NEW f, NEW x \in S
    PROVE  Occ(f, S, f[x]) \in Nat /\ Occ(f, S, f[x]) > 0
  <1> DEFINE F == {y \in S : f[y] = f[x]}
  <1>1. IsFiniteSet(F) /\ F # {}
    BY FS_Subset
  <1>2. Cardinality(F) \in Nat /\ Cardinality(F) # 0
    BY <1>1, FS_CardinalityType, FS_EmptySet
  <1> QED
    BY <1>2 DEF Occ

\* Tables, contexts and assets are finite.
LEMMA FiniteDomains == IsFiniteSet(Handles) /\ IsFiniteSet(Ctx) /\ IsFiniteSet(Assets)
  <1>1. IsFiniteSet(Ctx) /\ IsFiniteSet(Assets) /\ Spaces \subseteq Assets /\ MaxHandle \in Nat
    BY AssetAssumption DEF Assets
  <1>2. IsFiniteSet(Spaces) /\ IsFiniteSet(1 .. MaxHandle)
    BY <1>1, FS_Subset, FS_Interval
  <1> QED
    BY <1>1, <1>2, FS_Product DEF Handles

\* A step of context c that writes at most entry h and the reference inside b ...
ActsOn(c, h, b) ==
    /\ Agree(table, table', Handles, h)
    /\ Agree(ref, ref', Ctx, c) /\ Agree(tmp, tmp', Ctx, c)
    /\ Agree(inner, inner', Assets, b)

\* ... changes the number of references to a by this.
Delta(c, h, b, a) ==
    One(h \in Handles /\ table'[h] = a) - One(h \in Handles /\ table[h] = a)
    + One(ref'[c] = a) - One(ref[c] = a) + One(tmp'[c] = a) - One(tmp[c] = a)
    + One(b \in Assets /\ inner'[b] = a) - One(b \in Assets /\ inner[b] = a)
    + One(a \in registered') - One(a \in registered) + One(a \in pinned') - One(a \in pinned)

\* References, in terms of Occ
LEMMA ReferencesOcc ==
    ASSUME NEW a
    PROVE  References(a) = Occ(table, Handles, a) + Occ(ref, Ctx, a) + Occ(tmp, Ctx, a)
                            + Occ(inner, Assets, a) + One(a \in registered) + One(a \in pinned)
  BY DEF References, Occ

\* ... by exactly that.
LEMMA ReferencesStep ==
    ASSUME NEW c \in Ctx, NEW h, NEW b, ActsOn(c, h, b), NEW a
    PROVE  References(a) \in Nat /\ References(a)' = References(a) + Delta(c, h, b, a)
  <1>1. /\ Counted(table, table', Handles, h, a) /\ Counted(ref, ref', Ctx, c, a)
        /\ Counted(tmp, tmp', Ctx, c, a) /\ Counted(inner, inner', Assets, b, a)
    BY FiniteDomains, OccUpdate DEF ActsOn
  <1>2. /\ References(a) = Occ(table, Handles, a) + Occ(ref, Ctx, a) + Occ(tmp, Ctx, a)
                            + Occ(inner, Assets, a) + One(a \in registered) + One(a \in pinned)
        /\ References(a)' = Occ(table', Handles, a) + Occ(ref', Ctx, a) + Occ(tmp', Ctx, a)
                            + Occ(inner', Assets, a) + One(a \in registered') + One(a \in pinned')
    BY DEF References, Occ
  <1> QED
    BY <1>1, <1>2 DEF Delta, One, Counted

\* An asset that is referred to has a reference.
LEMMA Referred ==
    ASSUME NEW a, \/ \E h \in Handles : table[h] = a
                  \/ \E c \in Ctx : ref[c] = a \/ tmp[c] = a
                  \/ \E b \in Assets : inner[b] = a
                  \/ a \in registered \cup pinned
    PROVE  References(a) > 0
  <1>1. Agree(table, table, Handles, None) /\ Agree(ref, ref, Ctx, None)
        /\ Agree(tmp, tmp, Ctx, None) /\ Agree(inner, inner, Assets, None)
    BY DEF Agree
  <1>2. /\ Occ(table, Handles, a) \in Nat /\ Occ(ref, Ctx, a) \in Nat
        /\ Occ(tmp, Ctx, a) \in Nat /\ Occ(inner, Assets, a) \in Nat
    BY <1>1, FiniteDomains, OccUpdate DEF Counted
  <1>3. /\ (\E h \in Handles : table[h] = a) => Occ(table, Handles, a) > 0
        /\ (\E c \in Ctx : ref[c] = a) => Occ(ref, Ctx, a) > 0
        /\ (\E c \in Ctx : tmp[c] = a) => Occ(tmp, Ctx, a) > 0
        /\ (\E b \in Assets : inner[b] = a) => Occ(inner, Assets, a) > 0
    BY FiniteDomains, OccPositive
  <1> QED
    BY <1>2, <1>3, ReferencesOcc DEF One

\* Nobody is deleting a.
Alive(a) == life[a] = "live" /\ \A c \in Ctx : pc[c] = "destroy" => victim[c] # a

\* NoDangling, in terms of the counts
CountedAlive ==
    /\ \A a \in Assets : count[a] > 0 => Alive(a)
    /\ \A c \in Ctx : pc[c] = "destroy" =>
          /\ life[victim[c]] = "live"
          /\ \A d \in Ctx \ {c} : pc[d] = "destroy" => victim[d] # victim[c]

\* ref_count is exact, and what it counts is alive.
CountInv == count \in [Assets -> Int] /\ CountsExact /\ CountedAlive

\* What is referred to is counted and alive.
AllAlive ==
    /\ \A h \in Handles : table[h] # None => count[table[h]] > 0 /\ Alive(table[h])
    /\ \A c \in Ctx : /\ ref[c] # None => count[ref[c]] > 0 /\ Alive(ref[c])
                      /\ tmp[c] # None => count[tmp[c]] > 0 /\ Alive(tmp[c])
    /\ \A b \in Assets : inner[b] # None => count[inner[b]] > 0 /\ Alive(inner[b])
    /\ \A a \in registered \cup pinned : count[a] > 0 /\ Alive(a)

\* CountInv makes it so.
LEMMA AllAreAlive == ASSUME HandleTypes, LifeTypes, CountInv PROVE AllAlive
  <1>0. Endpoints \subseteq Assets
    BY DEF Assets
  <1>1. ASSUME NEW a \in Assets, References(a) > 0 PROVE count[a] > 0 /\ Alive(a)
    BY <1>1 DEF CountInv, CountsExact, CountedAlive
  <1>2. ASSUME NEW h \in Handles, table[h] # None
        PROVE  count[table[h]] > 0 /\ Alive(table[h])
    BY <1>1, <1>2, Referred DEF HandleTypes
  <1>3. ASSUME NEW c \in Ctx
        PROVE  /\ ref[c] # None => count[ref[c]] > 0 /\ Alive(ref[c])
               /\ tmp[c] # None => count[tmp[c]] > 0 /\ Alive(tmp[c])
    BY <1>1, Referred DEF HandleTypes
  <1>4. ASSUME NEW b \in Assets, inner[b] # None
        PROVE  count[inner[b]] > 0 /\ Alive(inner[b])
    BY <1>1, <1>4, Referred DEF HandleTypes
  <1>5. ASSUME NEW a \in registered \cup pinned
        PROVE  count[a] > 0 /\ Alive(a)
    BY <1>0, <1>1, Referred DEF LifeTypes
  <1> QED
    BY <1>2, <1>3, <1>4, <1>5 DEF AllAlive

\* A step keeps the counts exact when it changes each by what it does to the references.
LEMMA CountsFollow ==
    ASSUME NEW c \in Ctx, NEW h, NEW b, CountInv, ActsOn(c, h, b),
           \A a \in Assets : count'[a] = count[a] + Delta(c, h, b, a)
    PROVE  CountsExact'
  BY ReferencesStep DEF CountInv, CountsExact

\* The steps of a context that write no reference
Still(c) ==
    /\ UNCHANGED <<table, ref, tmp, inner, registered, pinned, count, life, victim>>
    /\ pc[c] # "destroy"
    /\ \E to \in Points \ {"destroy"} : pc' = [pc EXCEPT ![c] = to]

\* What writes no reference keeps the counts.
LEMMA StillCounts == ASSUME HandleInv, CountInv, NEW c \in Ctx, Still(c) PROVE CountInv'
  <1>1. CountsExact'
    BY DEF Still, CountInv, CountsExact, References
  <1>2. CountedAlive'
    BY DEF Still, CountInv, CountedAlive, Alive, HandleInv, HandleTypes
  <1> QED BY <1>1, <1>2 DEF Still, CountInv

\* A new number has no entry yet, and a new asset no reference.
LEMMA NewEntry ==
    ASSUME NEW c, NEW s \in Spaces, NEW a \in Assets, HandleInv, LockInv, allocate_asset(c, s, a)
    PROVE  /\ Next_handle(s) \in Handles /\ table[Next_handle(s)] = None
           /\ table'[Next_handle(s)] = a
           /\ inner[a] = None /\ a \notin registered \cup pinned
           /\ \A d \in Ctx : ref[d] # a /\ tmp[d] # a
  <1>1. Insert(s, a) /\ life[a] = "fresh"
    BY DEF allocate_asset
  <1>2. Next_handle(s) \in Handles
    BY <1>1, InsertKeeps DEF HandleInv
  <1>3. table[Next_handle(s)] = None
    BY <1>2, AssetAssumption DEF HandleInv, HandleTypes, Numbered, Next_handle, Handles
  <1>4. table'[Next_handle(s)] = a
    BY <1>1, <1>2 DEF Insert, HandleInv, HandleTypes
  <1>5. /\ inner[a] = None /\ a \notin registered \cup pinned
        /\ \A d \in Ctx : ref[d] # a /\ tmp[d] # a
    BY <1>1, AssetAssumption DEF LockInv, NotFresh
  <1> QED BY <1>2, <1>3, <1>4, <1>5
\* A step that begins no deletion and counts only what is alive keeps CountedAlive.
LEMMA AliveKept ==
    ASSUME CountInv, UNCHANGED <<life, victim>>,
           \A d \in Ctx : pc'[d] = "destroy" => pc[d] = "destroy",
           \A a \in Assets : count'[a] > 0 => Alive(a)
    PROVE  CountedAlive'
  BY DEF CountInv, CountedAlive, Alive

LEMMA CreateMemoryCounts ==
    ASSUME HandleInv, HandleInv', LockInv, CountInv, AllAlive, NEW c \in Ctx, NEW s \in
           Spaces, NEW m \in Memories, create_memory(c, s, m)
    PROVE  CountInv'
  <1>1. ActsOn(c, Next_handle(s), None)
    <2> USE AssetAssumption DEF Assets, HandleInv, LockInv, HandleTypes, LifeTypes,
       CallsKnown, RefPoints, TmpPoints, SecondPoints, create_memory, Goto,
       allocate_asset, Free, Own, Insert, CountInv
    <2> QED
      BY DEF ActsOn, Agree
  <1>2. count' \in [Assets -> Int]
    <2> USE AssetAssumption DEF Assets, HandleInv, LockInv, HandleTypes, LifeTypes,
       CallsKnown, RefPoints, TmpPoints, SecondPoints, create_memory, Goto,
       allocate_asset, Free, Own, Insert, CountInv
    <2> QED
      OBVIOUS
  <1>3. \A a \in Assets : count'[a] = count[a] + Delta(c, Next_handle(s), None, a)
    <2>1. /\ Next_handle(s) \in Handles /\ table[Next_handle(s)] = None
          /\ table'[Next_handle(s)] = m
      BY NewEntry DEF Assets, create_memory
    <2>2. tmp[c] = None /\ tmp'[c] = m /\ UNCHANGED <<ref, inner, registered, pinned>>
      BY DEF create_memory, allocate_asset, Goto, LockInv, InHand, HandleInv, HandleTypes
    <2>3. \A a \in Assets : count[a] \in Int /\ count'[a] = count[a] + One(m = a) + One(m = a)
      BY DEF create_memory, Own, CountInv, One
    <2>4. None \notin Assets /\ m \in Assets
      BY AssetAssumption DEF Assets
    <2> QED BY <2>1, <2>2, <2>3, <2>4 DEF Delta, One
  <1>4. CountedAlive'
    <2> USE AssetAssumption DEF Assets, HandleInv, LockInv, HandleTypes, LifeTypes,
       CallsKnown, RefPoints, TmpPoints, SecondPoints, create_memory, Goto,
       allocate_asset, Free, Own, Insert, CountInv
    <2> QED
      BY DEF CountedAlive, AllAlive, Alive
  <1> QED BY <1>1, <1>2, <1>3, <1>4, CountsFollow DEF CountInv

LEMMA CreateIpcEndpointCounts ==
    ASSUME HandleInv, HandleInv', LockInv, CountInv, AllAlive, NEW c \in Ctx, NEW s \in
           Spaces, NEW e \in Endpoints, create_ipc_endpoint(c, s, e)
    PROVE  CountInv'
  <1>1. ActsOn(c, Next_handle(s), e)
    <2> USE AssetAssumption DEF Assets, HandleInv, LockInv, HandleTypes, LifeTypes,
       CallsKnown, RefPoints, TmpPoints, SecondPoints, create_ipc_endpoint, Goto,
       allocate_asset, Free, Insert, CountInv
    <2> QED
      BY DEF ActsOn, Agree
  <1>2. count' \in [Assets -> Int]
    <2> USE AssetAssumption DEF Assets, HandleInv, LockInv, HandleTypes, LifeTypes,
       CallsKnown, RefPoints, TmpPoints, SecondPoints, create_ipc_endpoint, Goto,
       allocate_asset, Free, Insert, CountInv
    <2> QED
      OBVIOUS
  <1>3. \A a \in Assets : count'[a] = count[a] + Delta(c, Next_handle(s), e, a)
    <2>1. /\ Next_handle(s) \in Handles /\ table[Next_handle(s)] = None
          /\ table'[Next_handle(s)] = e /\ inner[e] = None
      BY NewEntry DEF Assets, create_ipc_endpoint
    <2>4. None \notin Assets /\ e \in Assets /\ s \in Assets /\ e # s
      BY AssetAssumption DEF Assets
    <2>2. /\ tmp[c] = None /\ tmp'[c] = e /\ inner'[e] = s
          /\ UNCHANGED <<ref, registered, pinned>>
      BY <2>4 DEF create_ipc_endpoint, allocate_asset, Goto, LockInv, InHand, HandleInv,
         HandleTypes
    <2>3. \A a \in Assets : count[a] \in Int
                            /\ count'[a] = count[a] + One(e = a) + One(e = a) + One(s = a)
      BY <2>4 DEF create_ipc_endpoint, CountInv, One
    <2> QED BY <2>1, <2>2, <2>3, <2>4 DEF Delta, One
  <1>4. CountedAlive'
    <2>4. None \notin Assets /\ e \in Assets /\ s \in Assets /\ e # s
      BY AssetAssumption DEF Assets
    <2>3. \A a \in Assets : count[a] \in Int
                            /\ count'[a] = count[a] + One(e = a) + One(e = a) + One(s = a)
      BY <2>4 DEF create_ipc_endpoint, CountInv, One
    <2>6. Alive(s)
      BY DEF AllAlive, LockInv, Pins
    <2>7. /\ pc' = [pc EXCEPT ![c] = "publish"] /\ life' = [life EXCEPT ![e] = "live"]
          /\ UNCHANGED victim
      BY DEF create_ipc_endpoint, allocate_asset, Goto
    <2>8. \A d \in Ctx : pc[d] = "destroy" => victim[d] # e
      BY DEF create_ipc_endpoint, allocate_asset, LockInv, NotFresh
    <2> QED
      BY <2>3, <2>4, <2>6, <2>7, <2>8 DEF CountInv, CountedAlive, Alive, One, HandleInv,
         HandleTypes, LockInv, LifeTypes
  <1> QED BY <1>1, <1>2, <1>3, <1>4, CountsFollow DEF CountInv

LEMMA LookUpCounts ==
    ASSUME HandleInv, HandleInv', LockInv, CountInv, AllAlive, NEW c \in Ctx, NEW s \in
           Spaces, NEW h \in Handles, NEW to \in {"release", "kind", "move", "copy"},
           LookUp(c, s, h, to)
    PROVE  CountInv'
  <1> USE AssetAssumption DEF Assets, HandleInv, LockInv, HandleTypes, LifeTypes,
       CallsKnown, RefPoints, TmpPoints, SecondPoints, LookUp, by_handle, Goto, Free,
       names, Entry, CountInv
  <1>1. ActsOn(c, None, None)
    BY DEF ActsOn, Agree
  <1>2. count' \in [Assets -> Int]
    OBVIOUS
  <1>3. \A a \in Assets : count'[a] = count[a] + Delta(c, None, None, a)
    BY DEF Delta, One, InHand
  <1>4. CountedAlive'
    BY DEF CountedAlive, AllAlive, Alive
  <1>5. CountsExact'
    <2> HIDE DEF CountInv, HandleInv, LockInv, LookUp
    <2> QED BY <1>1, <1>3, CountsFollow
  <1> QED BY <1>2, <1>4, <1>5

LEMMA ByFnCounts ==
    ASSUME HandleInv, HandleInv', LockInv, CountInv, AllAlive, NEW c \in Ctx, NEW s \in
           Spaces, NEW h \in Handles, by_fn(c, s, h)
    PROVE  CountInv'
  <1> USE AssetAssumption DEF Assets, HandleInv, LockInv, HandleTypes, LifeTypes,
       CallsKnown, RefPoints, TmpPoints, SecondPoints, by_fn, Goto, Free, Own, names,
       Entry, CountInv
  <1>1. ActsOn(c, None, None)
    BY DEF ActsOn, Agree
  <1>2. count' \in [Assets -> Int]
    OBVIOUS
  <1>3. \A a \in Assets : count'[a] = count[a] + Delta(c, None, None, a)
    BY DEF Delta, One, InHand
  <1>4. CountedAlive'
    BY DEF CountedAlive, AllAlive, Alive
  <1>5. CountsExact'
    <2> HIDE DEF CountInv, HandleInv, LockInv, by_fn
    <2> QED BY <1>1, <1>3, CountsFollow
  <1> QED BY <1>2, <1>4, <1>5

LEMMA QueryServerCounts ==
    ASSUME HandleInv, HandleInv', LockInv, CountInv, AllAlive, NEW c \in Ctx, NEW s \in
           Spaces, NEW e \in Endpoints, query_server(c, s, e)
    PROVE  CountInv'
  <1> USE AssetAssumption DEF Assets, HandleInv, LockInv, HandleTypes, LifeTypes,
       CallsKnown, RefPoints, TmpPoints, SecondPoints, query_server, Goto, names,
       CountInv
  <1>1. ActsOn(c, None, None)
    BY DEF ActsOn, Agree
  <1>2. count' \in [Assets -> Int]
    OBVIOUS
  <1>3. \A a \in Assets : count'[a] = count[a] + Delta(c, None, None, a)
    BY DEF Delta, One, InHand
  <1>4. CountedAlive'
    BY DEF CountedAlive, AllAlive, Alive
  <1>5. CountsExact'
    <2> HIDE DEF CountInv, HandleInv, LockInv, query_server
    <2> QED BY <1>1, <1>3, CountsFollow
  <1> QED BY <1>2, <1>4, <1>5

LEMMA CreateMappingCounts ==
    ASSUME HandleInv, HandleInv', LockInv, CountInv, AllAlive, NEW c \in Ctx, NEW g \in
           Mappings, create_mapping(c, g)
    PROVE  CountInv'
  <1>1. ActsOn(c, Next_handle(sp[c]), g)
    <2> USE AssetAssumption DEF Assets, HandleInv, LockInv, HandleTypes, LifeTypes,
       CallsKnown, RefPoints, TmpPoints, SecondPoints, create_mapping, Goto,
       allocate_asset, Free, place, Insert, CountInv
    <2> QED
      BY DEF ActsOn, Agree
  <1>2. count' \in [Assets -> Int]
    <2> USE AssetAssumption DEF Assets, HandleInv, LockInv, HandleTypes, LifeTypes,
       CallsKnown, RefPoints, TmpPoints, SecondPoints, create_mapping, Goto,
       allocate_asset, Free, place, Insert, CountInv
    <2> QED
      OBVIOUS
  <1>3. \A a \in Assets : count'[a] = count[a] + Delta(c, Next_handle(sp[c]), g, a)
    <2> DEFINE n == Next_handle(sp[c])
    <2>4. None \notin Assets /\ g \in Assets /\ ref[c] \in Assets /\ sp[c] \in Spaces /\ g # ref[c]
      BY AssetAssumption DEF Assets, create_mapping, Goto, LockInv, InHand, HandleInv,
         HandleTypes
    <2>1. /\ n \in Handles /\ table[n] = None
          /\ table'[n] = g /\ inner[g] = None
      BY <2>4, NewEntry DEF create_mapping
    <2>2. /\ tmp[c] = None /\ tmp'[c] = g /\ inner'[g] = ref[c]
          /\ UNCHANGED <<ref, registered, pinned>>
      BY <2>4 DEF create_mapping, allocate_asset, Goto, LockInv, InHand, HandleInv,
         HandleTypes
    <2>3. \A a \in Assets : count[a] \in Int
                            /\ count'[a] = count[a] + One(g = a) + One(g = a) + One(ref[c] = a)
      BY <2>4 DEF create_mapping, CountInv, One
    <2> HIDE DEF n
    <2> QED BY <2>1, <2>2, <2>3, <2>4 DEF Delta, One, n
  <1>4. CountedAlive'
    <2> USE AssetAssumption DEF Assets, HandleInv, LockInv, HandleTypes, LifeTypes,
       CallsKnown, RefPoints, TmpPoints, SecondPoints, create_mapping, Goto,
       allocate_asset, Free, place, Insert, CountInv
    <2> QED
      BY DEF CountedAlive, AllAlive, Alive
  <1> QED BY <1>1, <1>2, <1>3, <1>4, CountsFollow DEF CountInv

LEMMA CreateIpcConnectionCounts ==
    ASSUME HandleInv, HandleInv', LockInv, CountInv, AllAlive, NEW c \in Ctx, NEW n \in
           Connections, create_ipc_connection(c, n)
    PROVE  CountInv'
  <1>1. ActsOn(c, Next_handle(sp[c]), n)
    <2> USE AssetAssumption DEF Assets, HandleInv, LockInv, HandleTypes, LifeTypes,
       CallsKnown, RefPoints, TmpPoints, SecondPoints, create_ipc_connection, Goto,
       allocate_asset, Free, place, Insert, CountInv
    <2> QED
      BY DEF ActsOn, Agree
  <1>2. count' \in [Assets -> Int]
    <2> USE AssetAssumption DEF Assets, HandleInv, LockInv, HandleTypes, LifeTypes,
       CallsKnown, RefPoints, TmpPoints, SecondPoints, create_ipc_connection, Goto,
       allocate_asset, Free, place, Insert, CountInv
    <2> QED
      BY DEF InHand
  <1>3. \A a \in Assets : count'[a] = count[a] + Delta(c, Next_handle(sp[c]), n, a)
    <2>4. None \notin Assets /\ n \in Assets /\ ref[c] \in Assets /\ sp[c] \in Spaces /\ n # ref[c]
      BY AssetAssumption DEF Assets, create_ipc_connection, Goto, LockInv, InHand,
         HandleInv, HandleTypes
    <2>1. /\ Next_handle(sp[c]) \in Handles /\ table[Next_handle(sp[c])] = None
          /\ table'[Next_handle(sp[c])] = n /\ inner[n] = None /\ n \notin pinned
      BY <2>4, NewEntry DEF create_ipc_connection
    <2>2. /\ tmp[c] = None /\ tmp'[c] = n /\ inner'[n] = ref[c] /\ pinned' = pinned \cup {n}
          /\ UNCHANGED <<ref, registered>>
      BY <2>4 DEF create_ipc_connection, allocate_asset, Goto, LockInv, InHand, HandleInv,
         HandleTypes
    <2>3. \A a \in Assets : count[a] \in Int
             /\ count'[a] = count[a] + One(n = a) + One(n = a) + One(n = a) + One(ref[c] = a)
      BY <2>4 DEF create_ipc_connection, CountInv, One
    <2> QED BY <2>1, <2>2, <2>3, <2>4 DEF Delta, One
  <1>4. CountedAlive'
    <2> USE AssetAssumption DEF Assets, HandleInv, LockInv, HandleTypes, LifeTypes,
       CallsKnown, RefPoints, TmpPoints, SecondPoints, create_ipc_connection, Goto,
       allocate_asset, Free, place, Insert, CountInv
    <2> QED
      BY DEF CountedAlive, AllAlive, Alive
  <1> QED BY <1>1, <1>2, <1>3, <1>4, CountsFollow DEF CountInv

LEMMA PublishServerCounts ==
    ASSUME HandleInv, HandleInv', LockInv, CountInv, AllAlive, NEW c \in Ctx,
           publish_server(c)
    PROVE  CountInv'
  <1> USE AssetAssumption DEF Assets, HandleInv, LockInv, HandleTypes, LifeTypes,
       CallsKnown, RefPoints, TmpPoints, SecondPoints, publish_server, names, place,
       CountInv
  <1>1. ActsOn(c, None, None)
    BY DEF ActsOn, Agree
  <1>2. count' \in [Assets -> Int]
    BY DEF InHand
  <1>3. \A a \in Assets : count'[a] = count[a] + Delta(c, None, None, a)
    BY DEF Delta, One
  <1>4. CountedAlive'
    BY DEF CountedAlive, AllAlive, Alive
  <1>5. CountsExact'
    <2> HIDE DEF CountInv, HandleInv, LockInv, publish_server
    <2> QED BY <1>1, <1>3, CountsFollow
  <1> QED BY <1>2, <1>4, <1>5

LEMMA CreateIpcEndpointDoneCounts ==
    ASSUME HandleInv, HandleInv', LockInv, CountInv, AllAlive, NEW c \in Ctx,
           create_ipc_endpoint_done(c)
    PROVE  CountInv'
  <1>1. ActsOn(c, None, None)
    <2> USE AssetAssumption DEF Assets, HandleInv, LockInv, HandleTypes, LifeTypes,
       CallsKnown, RefPoints, TmpPoints, SecondPoints, create_ipc_endpoint_done, Goto,
       Unlock, names, place, CountInv
    <2> QED
      BY DEF ActsOn, Agree
  <1>2. count' \in [Assets -> Int]
    <2> USE AssetAssumption DEF Assets, HandleInv, LockInv, HandleTypes, LifeTypes,
       CallsKnown, RefPoints, TmpPoints, SecondPoints, create_ipc_endpoint_done, Goto,
       Unlock, names, place, CountInv
    <2> QED
      BY DEF InHand
  <1>3. \A a \in Assets : count'[a] = count[a] + Delta(c, None, None, a)
    <2>1. None \notin Assets /\ tmp[c] \in Assets /\ tmp[c] \notin pinned /\ None \notin Handles
      BY AssetAssumption DEF Assets, create_ipc_endpoint_done, Goto, LockInv, InHand,
         Pins, HandleInv, HandleTypes
    <2>2. pinned' = pinned \cup {tmp[c]} /\ UNCHANGED <<table, ref, tmp, inner, registered>>
      BY DEF create_ipc_endpoint_done, names
    <2>3. \A a \in Assets : count[a] \in Int /\ count'[a] = count[a] + One(tmp[c] = a)
      BY <2>1 DEF create_ipc_endpoint_done, CountInv, One
    <2> QED BY <2>1, <2>2, <2>3 DEF Delta, One
  <1>4. CountedAlive'
    <2> USE AssetAssumption DEF Assets, HandleInv, LockInv, HandleTypes, LifeTypes,
       CallsKnown, RefPoints, TmpPoints, SecondPoints, create_ipc_endpoint_done, Goto,
       Unlock, names, place, CountInv
    <2> QED
      BY DEF CountedAlive, AllAlive, Alive
  <1> QED BY <1>1, <1>2, <1>3, <1>4, CountsFollow DEF CountInv

LEMMA UndoCounts ==
    ASSUME HandleInv, HandleInv', LockInv, CountInv, AllAlive, NEW c \in Ctx, undo(c)
    PROVE  CountInv'
  <1>1. ActsOn(c, hnd[c], None)
    <2> USE AssetAssumption DEF Assets, HandleInv, LockInv, HandleTypes, LifeTypes,
       CallsKnown, RefPoints, TmpPoints, SecondPoints, undo, Free, Unlock, place, Entry,
       CountInv
    <2> QED
      BY DEF ActsOn, Agree
  <1>2. count' \in [Assets -> Int]
    <2> USE AssetAssumption DEF Assets, HandleInv, LockInv, HandleTypes, LifeTypes,
       CallsKnown, RefPoints, TmpPoints, SecondPoints, undo, Free, Unlock, place, Entry,
       CountInv
    <2> QED
      OBVIOUS
  <1>3. \A a \in Assets : count'[a] = count[a] + Delta(c, hnd[c], None, a)
    <2> USE AssetAssumption DEF Assets, HandleInv, LockInv, HandleTypes, LifeTypes,
       CallsKnown, RefPoints, TmpPoints, SecondPoints, undo, Free, Unlock, place, Entry,
       CountInv
    <2> QED
      BY DEF Delta, One
  <1>4. CountedAlive'
    <2>1. UNCHANGED <<life, victim>> /\ \A d \in Ctx : pc'[d] = "destroy" => pc[d] = "destroy"
      BY DEF undo, HandleInv, HandleTypes
    <2>2. \A a \in Assets : count'[a] > 0 => Alive(a)
      <3>1. CASE Entry(sp[c], hnd[c]) = None
        BY <3>1 DEF undo, CountInv, CountedAlive
      <3>2. CASE Entry(sp[c], hnd[c]) # None
        BY <3>2 DEF undo, CountInv, CountedAlive
      <3> QED BY <3>1, <3>2
    <2> QED BY <2>1, <2>2, AliveKept
  <1> QED BY <1>1, <1>2, <1>3, <1>4, CountsFollow DEF CountInv

LEMMA AssetRemoveCounts ==
    ASSUME HandleInv, HandleInv', LockInv, CountInv, AllAlive, NEW c \in Ctx,
           asset_remove(c)
    PROVE  CountInv'
  <1>1. ActsOn(c, hnd[c], None)
    <2> USE AssetAssumption DEF Assets, HandleInv, LockInv, HandleTypes, LifeTypes,
       CallsKnown, RefPoints, TmpPoints, SecondPoints, asset_remove, Free, place, Entry,
       CountInv
    <2> QED
      BY DEF ActsOn, Agree
  <1>2. count' \in [Assets -> Int]
    <2> USE AssetAssumption DEF Assets, HandleInv, LockInv, HandleTypes, LifeTypes,
       CallsKnown, RefPoints, TmpPoints, SecondPoints, asset_remove, Free, place, Entry,
       CountInv
    <2> QED
      OBVIOUS
  <1>3. \A a \in Assets : count'[a] = count[a] + Delta(c, hnd[c], None, a)
    <2> USE AssetAssumption DEF Assets, HandleInv, LockInv, HandleTypes, LifeTypes,
       CallsKnown, RefPoints, TmpPoints, SecondPoints, asset_remove, Free, place, Entry,
       CountInv
    <2> QED
      BY SMTT(30) DEF Delta, One
  <1>4. CountedAlive'
    <2>1. UNCHANGED <<life, victim>> /\ \A d \in Ctx : pc'[d] = "destroy" => pc[d] = "destroy"
      BY DEF asset_remove, HandleInv, HandleTypes
    <2>2. \A a \in Assets : count'[a] > 0 => Alive(a)
      <3>1. CASE Entry(sp[c], hnd[c]) = None
        BY <3>1 DEF asset_remove, CountInv, CountedAlive
      <3>2. CASE Entry(sp[c], hnd[c]) # None
        BY <3>2 DEF asset_remove, CountInv, CountedAlive
      <3> QED BY <3>1, <3>2
    <2> QED BY <2>1, <2>2, AliveKept
  <1> QED BY <1>1, <1>2, <1>3, <1>4, CountsFollow DEF CountInv

LEMMA AssetCopyCounts ==
    ASSUME HandleInv, HandleInv', LockInv, CountInv, AllAlive, NEW c \in Ctx,
           asset_copy(c)
    PROVE  CountInv'
  <1>1. ActsOn(c, Next_handle(dst[c]), None)
    <2> USE AssetAssumption DEF Assets, HandleInv, LockInv, HandleTypes, LifeTypes,
       CallsKnown, RefPoints, TmpPoints, SecondPoints, asset_copy, Goto, Free, Unlock,
       Own, place, Insert, CountInv
    <2> QED
      BY DEF ActsOn, Agree
  <1>2. count' \in [Assets -> Int]
    <2> USE AssetAssumption DEF Assets, HandleInv, LockInv, HandleTypes, LifeTypes,
       CallsKnown, RefPoints, TmpPoints, SecondPoints, asset_copy, Goto, Free, Unlock,
       Own, place, Insert, CountInv
    <2> QED
      OBVIOUS
  <1>3. \A a \in Assets : count'[a] = count[a] + Delta(c, Next_handle(dst[c]), None, a)
    <2>1. None \notin Assets /\ ref[c] \in Assets /\ dst[c] \in Spaces /\ tmp[c] = None
      BY AssetAssumption DEF asset_copy, Goto, LockInv, InHand, HandleInv, HandleTypes,
         CallsKnown, RefPoints
    <2>2. Next_handle(dst[c]) \in Handles /\ Insert(dst[c], ref[c])
      BY <2>1, InsertKeeps DEF HandleInv, asset_copy
    <2>3. table[Next_handle(dst[c])] = None
      BY <2>2, AssetAssumption DEF HandleInv, HandleTypes, Numbered, Next_handle, Handles
    <2>4. table'[Next_handle(dst[c])] = ref[c]
      BY <2>2 DEF Insert, HandleInv, HandleTypes
    <2>5. tmp'[c] = ref[c] /\ UNCHANGED <<ref, inner, registered, pinned>>
      BY DEF asset_copy, HandleInv, HandleTypes
    <2>6. \A a \in Assets : /\ count[a] \in Int
                            /\ count'[a] = count[a] + One(ref[c] = a) + One(ref[c] = a)
      BY DEF asset_copy, Own, CountInv, One
    <2> QED BY <2>1, <2>2, <2>3, <2>4, <2>5, <2>6 DEF Delta, One
  <1>4. CountedAlive'
    <2> USE AssetAssumption DEF Assets, HandleInv, LockInv, HandleTypes, LifeTypes,
       CallsKnown, RefPoints, TmpPoints, SecondPoints, asset_copy, Goto, Free, Unlock,
       Own, place, Insert, CountInv
    <2> QED
      BY DEF CountedAlive, AllAlive, Alive
  <1> QED BY <1>1, <1>2, <1>3, <1>4, CountsFollow DEF CountInv

LEMMA DerefCounts ==
    ASSUME HandleInv, HandleInv', LockInv, CountInv, AllAlive, NEW c \in Ctx, deref(c)
    PROVE  CountInv'
  <1>1. ActsOn(c, None, None)
    <2> USE AssetAssumption DEF Assets, HandleInv, LockInv, HandleTypes, LifeTypes,
       CallsKnown, RefPoints, TmpPoints, SecondPoints, deref, names, place, Dropped,
       CountInv
    <2> QED
      BY DEF ActsOn, Agree
  <1>2. count' \in [Assets -> Int]
    <2> USE AssetAssumption DEF Assets, HandleInv, LockInv, HandleTypes, LifeTypes,
       CallsKnown, RefPoints, TmpPoints, SecondPoints, deref, names, place, Dropped,
       CountInv
    <2> QED
      OBVIOUS
  <1>3. \A a \in Assets : count'[a] = count[a] + Delta(c, None, None, a)
    <2> USE AssetAssumption DEF Assets, HandleInv, LockInv, HandleTypes, LifeTypes,
       CallsKnown, RefPoints, TmpPoints, SecondPoints, deref, names, place, Dropped,
       CountInv
    <2> QED
      BY DEF Delta, One
  <1>4. CountedAlive'
    <2> DEFINE x == Dropped(c)
    <2>1. x \in Assets /\ Alive(x) /\ count[x] > 0
      BY DEF deref, Dropped, AllAlive, HandleInv, HandleTypes
    <2>2. count' = [count EXCEPT ![x] = @ - 1] /\ UNCHANGED life /\ pc[c] = "drop"
      BY DEF deref
    <2>3. CASE count[x] = 1
      <3>1. pc' = [pc EXCEPT ![c] = "destroy"] /\ victim' = [victim EXCEPT ![c] = x]
        BY <2>3 DEF deref
      <3> HIDE DEF x
      <3> QED BY <2>1, <2>2, <2>3, <3>1 DEF CountInv, CountedAlive, Alive, HandleInv,
         HandleTypes
    <2>4. CASE count[x] # 1
      <3>1. UNCHANGED <<pc, victim>>
        BY <2>4 DEF deref
      <3> HIDE DEF x
      <3> QED BY <2>1, <2>2, <2>4, <3>1 DEF CountInv, CountedAlive, Alive, HandleInv,
         HandleTypes
    <2> QED BY <2>3, <2>4
  <1> QED BY <1>1, <1>2, <1>3, <1>4, CountsFollow DEF CountInv

LEMMA DestroyCounts ==
    ASSUME HandleInv, HandleInv', LockInv, CountInv, AllAlive, NEW c \in Ctx, destroy(c)
    PROVE  CountInv'
  <1> USE AssetAssumption DEF Assets, HandleInv, LockInv, HandleTypes, LifeTypes,
       CallsKnown, RefPoints, TmpPoints, SecondPoints, destroy, Goto, Free, names,
       place, CountInv
  <1>1. ActsOn(c, None, victim[c])
    BY DEF ActsOn, Agree
  <1>2. count' \in [Assets -> Int]
    OBVIOUS
  <1>3. \A a \in Assets : count'[a] = count[a] + Delta(c, None, victim[c], a)
    BY DEF Delta, One, InHand
  <1>4. CountedAlive'
    BY DEF CountedAlive, AllAlive, Alive
  <1>5. CountsExact'
    <2> HIDE DEF CountInv, HandleInv, LockInv, destroy
    <2> QED BY <1>1, <1>3, CountsFollow
  <1> QED BY <1>2, <1>4, <1>5

\* A move leaves the number of entries of each asset.
LEMMA Moved ==
    ASSUME HandleInv, LockInv, NEW c \in Ctx, NEW h \in Handles, NEW s \in Spaces, table[h] # None,
           alloc_uid[s] < MaxHandle,
           table' = [table EXCEPT ![h] = None, ![Next_handle(s)] = table[h]],
           NEW a \in Assets
    PROVE  Occ(table', Handles, a) = Occ(table, Handles, a) /\ Occ(table, Handles, a) \in Nat
  <1> DEFINE n == Next_handle(s)  t == [table EXCEPT ![h] = None]
  <1>1. n \in Handles /\ table[n] = None
    BY AssetAssumption DEF HandleInv, HandleTypes, Numbered, Next_handle, Handles
  <1>2. /\ Agree(table, t, Handles, h) /\ t[h] = None /\ t[n] = None
        /\ Agree(t, table', Handles, n) /\ table'[n] = table[h]
    BY <1>1 DEF Agree, HandleInv, HandleTypes
  <1>3. Counted(table, t, Handles, h, a) /\ Counted(t, table', Handles, n, a)
    BY <1>2, FiniteDomains, OccUpdate
  <1>4. None # a
    BY AssetAssumption
  <1> HIDE DEF n, t
  <1> QED BY <1>1, <1>2, <1>3, <1>4 DEF Counted, One

LEMMA AssetMoveCounts ==
    ASSUME HandleInv, LockInv, CountInv, AllAlive, NEW c \in Ctx, asset_move(c)
    PROVE  CountInv'
  <1>1. CountsExact'
    <2> DEFINE x == table[hnd[c]]
    <2>0. UNCHANGED <<ref, inner, registered, pinned>>
      BY DEF asset_move
    <2>1. CASE Entry(sp[c], hnd[c]) = None
      BY <2>0, <2>1 DEF asset_move, CountInv, CountsExact, References, names
    <2>2. CASE Entry(sp[c], hnd[c]) # None
      <3>1. /\ hnd[c] \in Handles /\ x # None /\ x \in Assets /\ dst[c] \in Spaces
            /\ tmp[c] = None
        BY <2>2 DEF Entry, HandleInv, HandleTypes, asset_move, Goto, LockInv, InHand
      <3>2. \A a \in Assets : /\ Occ(table', Handles, a) = Occ(table, Handles, a)
                              /\ Occ(table, Handles, a) \in Nat
        BY <2>2, <3>1, Moved DEF asset_move
      <3>3. Agree(tmp, tmp', Ctx, c) /\ tmp'[c] = x
        BY <2>2 DEF asset_move, Agree, HandleInv, HandleTypes
      <3>4. /\ Agree(ref, ref, Ctx, c) /\ Agree(inner, inner, Assets, None)
        BY DEF Agree
      <3>5. \A a \in Assets : /\ Counted(tmp, tmp', Ctx, c, a) /\ Counted(ref, ref, Ctx, c, a)
                              /\ Counted(inner, inner, Assets, None, a)
        BY <3>3, <3>4, FiniteDomains, OccUpdate
      <3>6. \A a \in Assets : count[a] \in Int /\ count'[a] = count[a] + One(x = a)
        BY <2>2, <3>1 DEF asset_move, CountInv, One
      <3>7. \A a \in Assets :
          /\ References(a) = Occ(table, Handles, a) + Occ(ref, Ctx, a) + Occ(tmp, Ctx, a)
                              + Occ(inner, Assets, a) + One(a \in registered) + One(a \in pinned)
          /\ References(a)' = Occ(table', Handles, a) + Occ(ref, Ctx, a) + Occ(tmp', Ctx, a)
                              + Occ(inner, Assets, a) + One(a \in registered) + One(a \in pinned)
        BY <2>0 DEF References, Occ
      <3>8. None \notin Assets
        BY AssetAssumption
      <3>9. ASSUME NEW a \in Assets PROVE count'[a] = References(a)'
        <4>1. count[a] = References(a)
          BY DEF CountInv, CountsExact
        <4> HIDE DEF x
        <4> QED BY <4>1, <3>1, <3>2, <3>3, <3>5, <3>6, <3>7, <3>8 DEF Counted, One
      <3> QED BY <3>9 DEF CountsExact
    <2> QED BY <2>1, <2>2
  <1>2. count' \in [Assets -> Int]
    BY DEF asset_move, Entry, names, HandleInv, HandleTypes, CountInv
  <1>3. CountedAlive'
    <2>1. UNCHANGED <<life, victim>> /\ \A d \in Ctx : pc'[d] = "destroy" => pc[d] = "destroy"
      BY DEF asset_move, Goto, HandleInv, HandleTypes
    <2>2. \A a \in Assets : count'[a] > 0 => Alive(a)
      <3>1. CASE Entry(sp[c], hnd[c]) = None
        BY <3>1 DEF asset_move, CountInv, CountedAlive
      <3>2. CASE Entry(sp[c], hnd[c]) # None
        <4>1. Alive(table[hnd[c]]) /\ count' = [count EXCEPT ![table[hnd[c]]] = @ + 1]
          BY <3>2 DEF asset_move, Entry, AllAlive
        <4> QED BY <4>1 DEF CountInv, CountedAlive
      <3> QED BY <3>1, <3>2
    <2> QED BY <2>1, <2>2, AliveKept
  <1> QED BY <1>1, <1>2, <1>3 DEF CountInv

\* At the start every space has its own entry, and the root space one for each of
\* the others.
LEMMA CountInvInit == Init => CountInv
  <1> SUFFICES ASSUME Init PROVE CountInv
    OBVIOUS
  <1> DEFINE k == Cardinality(Spaces) - 1  others == Spaces \ {Root}
  <1>1. /\ Root \in Spaces /\ Spaces \subseteq Assets /\ None \notin Assets /\ MaxHandle \in Nat
        /\ IsFiniteSet(Spaces) /\ Cardinality(Spaces) \in Nat
        /\ Cardinality(Spaces) <= MaxHandle + 1
    BY AssetAssumption, FS_Subset, FS_CardinalityType DEF Assets
  <1>2. IsFiniteSet(others) /\ Cardinality(others) = k
    BY <1>1, FS_RemoveElement
  <1>3. k \in Nat /\ k <= MaxHandle
    BY <1>1, <1>2, FS_CardinalityType
  <1>4. IsFiniteSet(1 .. k) /\ Cardinality(1 .. k) = k
    BY <1>3, FS_Interval
  <1>5. PICK f \in [1 .. k -> others] :
            (\A i, j \in DOMAIN f : f[i] = f[j] => i = j) /\ table = create_space(f)
    BY DEF Init
  <1>6. f \in Injection(1 .. k, others)
    BY <1>5 DEF Injection, IsInjective
  <1>7. f \in Surjection(1 .. k, others)
    BY <1>2, <1>4, <1>6, FS_Injection
  <1>8. ASSUME NEW a \in Assets
        PROVE  Occ(table, Handles, a) = IF a \in others THEN 1 ELSE 0
    <2> DEFINE H == {h \in Handles : table[h] = a}
    <2>1. \A h \in Handles : /\ h = <<h[1], h[2]>>
                             /\ table[h] = IF h[1] = Root /\ h[2] \in 1 .. k THEN f[h[2]] ELSE None
      BY <1>5 DEF create_space, Handles
    <2>2. CASE a \in others
      <3>1. PICK i \in 1 .. k : f[i] = a
        BY <2>2, <1>7 DEF Surjection
      <3>2. <<Root, i>> \in Handles
        BY <1>1, <1>3, <3>1 DEF Handles
      <3>3. H = {<<Root, i>>}
        BY <1>1, <1>5, <2>1, <3>1, <3>2
      <3> QED BY <2>2, <3>3, FS_Singleton DEF Occ
    <2>3. CASE a \notin others
      <3>1. H = {}
        BY <1>1, <1>5, <2>1, <2>3
      <3> QED BY <2>3, <3>1, FS_EmptySet DEF Occ
    <2> QED BY <2>2, <2>3
  <1>9. ASSUME NEW a \in Assets
        PROVE  Occ(ref, Ctx, a) = 0 /\ Occ(tmp, Ctx, a) = 0 /\ Occ(inner, Assets, a) = 0
    <2>1. /\ {c \in Ctx : ref[c] = a} = {} /\ {c \in Ctx : tmp[c] = a} = {}
          /\ {b \in Assets : inner[b] = a} = {}
      BY <1>1 DEF Init
    <2> QED BY <2>1, FS_EmptySet DEF Occ
  <1>10. ASSUME NEW a \in Assets PROVE count[a] = References(a)
    <2>1. References(a) = Occ(table, Handles, a) + One(a \in registered) + One(a \in pinned)
      BY <1>8, <1>9, ReferencesOcc DEF One
    <2>2. /\ registered = {} /\ pinned = Spaces
          /\ count[a] = IF a \notin Spaces THEN 0 ELSE IF a = Root THEN 1 ELSE 2
      BY DEF Init
    <2> QED BY <1>1, <1>8, <2>1, <2>2 DEF One
  <1>11. CountedAlive
    BY DEF CountedAlive, Alive, Init
  <1> QED BY <1>10, <1>11 DEF CountInv, CountsExact, Init

\* Every step changes the counts by what it does to the references.
LEMMA CountInvStep ==
    ASSUME NEW c \in Ctx, HandleInv, LockInv, CountInv, Create(c) \/ Begin(c) \/ Continue(c)
    PROVE  CountInv'
  <1>0. HandleInv' /\ AllAlive
    BY HandleInvStep, AllAreAlive DEF HandleInv, LockInv
  <1>1. CASE Create(c)
    BY <1>0, <1>1, CreateMemoryCounts, CreateIpcEndpointCounts DEF Create
  <1>2. CASE \E s \in Spaces, h \in Handles :
                look_up(c, s, h) \/ \E d \in Spaces : look_up_to_send(c, s, h, d)
    <2>1. PICK s \in Spaces, h \in Handles, to \in {"release", "kind", "move", "copy"} :
             LookUp(c, s, h, to)
      BY <1>2 DEF look_up, look_up_to_send, LookUp
    <2> QED BY <1>0, <2>1, LookUpCounts
  <1>3. CASE \E s \in Spaces, h \in Handles : by_fn(c, s, h)
    BY <1>0, <1>3, ByFnCounts
  <1>4. CASE \E s \in Spaces, e \in Endpoints : query_server(c, s, e)
    BY <1>0, <1>4, QueryServerCounts
  <1>5. CASE Continue(c)
    <2>1. CASE
       \/ create_memory_done(c) \/ create_memory_failed(c) \/ by_handle_kind(c)
       \/ map_lock(c) \/ create_mapping_done(c) \/ create_mapping_failed(c)
       \/ create_ipc_connection_port(c) \/ asset_release(c) \/ asset_move_lock(c)
       \/ asset_copy_lock(c) \/ syscall_return(c)
      <3>1. Still(c)
        BY <2>1 DEF create_memory_done, create_memory_failed, by_handle_kind, map_lock,
           create_mapping_done, create_mapping_failed, create_ipc_connection_port,
           asset_release, asset_move_lock, asset_copy_lock, syscall_return, Goto, Still,
           heap, names, Points, HandleInv, HandleTypes
      <3> QED BY <3>1, StillCounts
    <2>2. CASE \/ \E g \in Mappings : create_mapping(c, g)
               \/ \E n \in Connections : create_ipc_connection(c, n)
      BY <1>0, <2>2, CreateMappingCounts, CreateIpcConnectionCounts
    <2>3. CASE publish_server(c) \/ create_ipc_endpoint_done(c) \/ undo(c) \/ asset_remove(c)
               \/ asset_copy(c) \/ deref(c) \/ destroy(c) \/ asset_move(c)
      BY <1>0, <2>3, PublishServerCounts, CreateIpcEndpointDoneCounts, UndoCounts,
         AssetRemoveCounts, AssetCopyCounts, DerefCounts, DestroyCounts, AssetMoveCounts
    <2> QED BY <1>5, <2>1, <2>2, <2>3 DEF Continue
  <1> QED BY <1>1, <1>2, <1>3, <1>4, <1>5 DEF Begin

-----------------------------------------------------------------------------
(* Waiting for locks *)

\* A set of numbers has a least one.
LEMMA LeastNumber ==
    ASSUME NEW T \in SUBSET Nat, T # {}
    PROVE  \E x \in T : \A y \in T : x <= y
  <1> DEFINE R == OpToRel(<, Nat)
  <1>0. IsWellFoundedOn(R, Nat)
    BY NatLessThanWellFounded, Zenon
  <1>1. \E x \in T : \A y \in T : ~ (<<y, x>> \in R)
    <2> HIDE DEF R
    <2> QED BY <1>0, WFMin, Zenon
  <1>2. \A x, y \in Nat : y < x => <<y, x>> \in R
    BY DEF OpToRel
  <1> HIDE DEF R
  <1>3. PICK x \in T : \A y \in T : ~ (<<y, x>> \in R)
    BY <1>1
  <1>4. \A y \in T : ~ (y < x)
    BY <1>2, <1>3
  <1>5. \A y \in T : x <= y
    BY <1>4
  <1> QED BY <1>3, <1>5

\* One of some spaces has the highest address (by induction on how many there are).
LEMMA Highest ==
    ASSUME NEW S \in SUBSET Spaces, S # {}
    PROVE  \E s \in S : \A t \in S : Address[t] <= Address[s]
  <1> DEFINE High(U) == \E s \in U : \A t \in U : Address[t] <= Address[s]
             Bad == {n \in Nat : \E U \in SUBSET Spaces :
                       U # {} /\ Cardinality(U) = n /\ ~ High(U)}
  <1>0. /\ Address \in [Spaces -> Nat]
        /\ \A U \in SUBSET Spaces : IsFiniteSet(U) /\ Cardinality(U) \in Nat
    <2>1. IsFiniteSet(Spaces)
      BY AssetAssumption, FS_Subset DEF Assets
    <2> QED BY <2>1, AssetAssumption, FS_Subset, FS_CardinalityType
  <1>1. ASSUME Bad # {} PROVE FALSE
    <2>1. PICK n \in Bad : \A m \in Bad : n <= m
      BY <1>1, LeastNumber
    <2>2. PICK U \in SUBSET Spaces : U # {} /\ Cardinality(U) = n /\ ~ High(U)
      BY <2>1
    <2>3. PICK x : x \in U
      BY <2>2
    <2> DEFINE V == U \ {x}
    <2>4. V \in SUBSET Spaces /\ Cardinality(V) = n - 1 /\ Cardinality(V) \in Nat /\ n \in Nat
      BY <1>0, <2>1, <2>2, <2>3, FS_RemoveElement
    <2>5. V = {} \/ High(V)
      <3>1. n - 1 \notin Bad
        BY <2>1, <2>4
      <3> QED BY <2>4, <3>1
    <2>6. CASE V = {}
      <3>1. U = {x} /\ Address[x] \in Nat
        BY <1>0, <2>2, <2>3, <2>6
      <3> QED BY <2>2, <3>1
    <2>7. CASE High(V)
      <3>1. PICK s \in V : \A t \in V : Address[t] <= Address[s]
        BY <2>7
      <3>2. x \in U /\ s \in U /\ \A t \in U : t = x \/ t \in V
        BY <2>3, <3>1
      <3>3. \A t \in U : Address[t] \in Nat
        BY <1>0
      <3>4. (\A t \in U : Address[t] <= Address[s]) \/ (\A t \in U : Address[t] <= Address[x])
        BY <3>1, <3>2, <3>3
      <3> QED BY <2>2, <3>2, <3>4
    <2> QED BY <2>5, <2>6, <2>7
  <1>2. Cardinality(S) \in Nat
    BY <1>0
  <1> QED BY <1>1, <1>2

\* Among contexts that wait for each other and copy no space, whoever keeps a lock waits for an
\* endpoint or a space, whoever keeps an endpoint waits for a space, and who
\* keeps a space is in asset_move.
LEMMA WaitsUpwards ==
    ASSUME HandleInv, LockInv, NEW D \in SUBSET Ctx,
           \A c \in D : Wanted(c) # None /\ lock[Wanted(c)] \in D /\ ~ CopiesSpace(c)
    PROVE  /\ \A c \in D : \E d \in D : Holds(d, Wanted(c))
           /\ \A c \in D : Wanted(c) \in Spaces =>
                  \E d \in D : pc[d] = "move_in" /\ first(d) = Wanted(c)
           /\ \A c \in D, a \in Assets : Holds(c, a) => Wanted(c) \in Spaces \cup Endpoints
           /\ \A c \in D, a \in Endpoints : Holds(c, a) => Wanted(c) \in Spaces
  <1> USE AssetAssumption DEF HandleInv, LockInv, HandleTypes, LifeTypes, CallsKnown,
       RefPoints, TmpPoints
  <1>1. ASSUME NEW c \in D PROVE Wanted(c) \in Assets
    BY DEF Wanted, first, second, InHand, Assets
  <1>2. ASSUME NEW c \in D PROVE \E d \in D : Holds(d, Wanted(c))
    <2>1. PICK d \in D : lock[Wanted(c)] = d
      OBVIOUS
    <2>2. pc[d] # "unreachable"
      BY DEF Wanted
    <2> QED BY <1>1, <2>1, <2>2 DEF LockOwners
  <1>3. ASSUME NEW c \in D, NEW a \in Assets, Holds(c, a)
        PROVE  /\ Wanted(c) \in Spaces \cup Endpoints
               /\ a \in Endpoints => Wanted(c) \in Spaces
               /\ a \in Spaces => pc[c] = "move_in" /\ a = first(c)
    BY <1>3 DEF Holds, Wanted, CopiesSpace, first, second, InHand, Creating, CreatePoints, Assets
  <1> QED BY <1>1, <1>2, <1>3 DEF Assets

\* So some of them wait in asset_move, and one of those has the space with the
\* highest address: nobody has the one it waits for, which is higher.
LEMMA Acyclic == ASSUME HandleInv, LockInv PROVE NoCircularWait
  <1> SUFFICES ASSUME NEW D \in SUBSET Ctx, D # {},
                      \A c \in D : /\ Wanted(c) # None /\ lock[Wanted(c)] \in D
                                   /\ ~ CopiesSpace(c)
               PROVE  FALSE
    BY DEF NoCircularWait
  <1> DEFINE M == {c \in D : pc[c] = "move_in"}  F == {s \in Spaces : \E c \in M : first(c) = s}
  <1>0. /\ \A c \in D : \E d \in D : Holds(d, Wanted(c))
        /\ \A c \in D : Wanted(c) \in Spaces => \E d \in M : first(d) = Wanted(c)
        /\ \A c \in D, a \in Assets : Holds(c, a) => Wanted(c) \in Spaces \cup Endpoints
        /\ \A c \in D, a \in Endpoints : Holds(c, a) => Wanted(c) \in Spaces
    BY WaitsUpwards
  <1>1. /\ \A c \in D : Wanted(c) \in Assets
        /\ \A c \in M : /\ first(c) \in Spaces /\ Wanted(c) \in Spaces
                          /\ Address[first(c)] < Address[Wanted(c)]
    <2>1. \A c \in D : Wanted(c) \in Assets
      BY AssetAssumption DEF HandleInv, LockInv, HandleTypes, LifeTypes, CallsKnown,
         RefPoints,
         TmpPoints, Wanted, first, second, InHand, Assets
    <2>2. \A c \in M : first(c) \in Spaces /\ Wanted(c) = second(c) /\ first(c) # second(c)
                       /\ second(c) \in Spaces
      BY DEF HandleInv, HandleTypes, Wanted, first, second
    <2>3. \A c \in M : Address[first(c)] < Address[second(c)]
      BY <2>2, AssetAssumption, SMTT(30) DEF HandleInv, HandleTypes, first, second
    <2> QED BY <2>1, <2>2, <2>3
  <1>2. F # {}
    <2>1. PICK c \in D : TRUE
      OBVIOUS
    <2>2. PICK d \in D : Holds(d, Wanted(c))
      BY <1>0
    <2>3. Wanted(d) \in Spaces \cup Endpoints
      BY <1>1, <2>2, <1>0
    <2>4. \E e \in D : Wanted(e) \in Spaces
      <3>1. CASE Wanted(d) \in Endpoints
        <4>1. PICK e \in D : Holds(e, Wanted(d))
          BY <1>0
        <4> QED BY <3>1, <4>1, <1>0
      <3> QED BY <2>3, <3>1
    <2> QED BY <2>4, <1>0
  <1>3. PICK s \in F : \A t \in F : Address[t] <= Address[s]
    BY <1>2, Highest
  <1>4. PICK c \in M : first(c) = s
    OBVIOUS
  <1>5. PICK d \in M : first(d) = Wanted(c)
    BY <1>1, <1>4, <1>0
  <1>6. Wanted(c) \in F
    BY <1>1, <1>4, <1>5
  <1>7. Address[s] \in Nat /\ Address[Wanted(c)] \in Nat
    BY <1>1, <1>4, AssetAssumption
  <1> QED BY <1>1, <1>3, <1>4, <1>6, <1>7

-----------------------------------------------------------------------------
(* Theorems *)

\* The invariant holds for any contexts, spaces and assets: what is stored as a
\* handle, in a call or in a mapping, was handed out and means the asset that is
\* stored with it, or nothing.
THEOREM HandleInvariant == Spec => []HandleInv
  BY HandleInvInit, HandleInvNext, PTL DEF Spec

\* Handles used after the lock of their space was released (asset_release,
\* asset_move, the undoing of a failed creation) mean what they meant.
THEOREM HandlesAreStable == Spec => []HandlesStable
  <1>1. HandleInv => HandlesStable
    <2> SUFFICES ASSUME HandleInv, NEW c \in Ctx,
                        NEW a \in {ref[c], tmp[c]}, Known(table, alloc_uid, hnd[c], a)
                 PROVE  Entry(sp[c], hnd[c]) \in {None, a}
      BY DEF HandleInv, CallsKnown, HandlesStable, RefPoints, TmpPoints
    <2> QED
      BY AssetAssumption DEF Known, Entry
  <1> QED
    BY <1>1, HandleInvariant, PTL

\* A step never gives a number of a space that was handed out (alloc_uid++ under
\* the space's lock) to another asset.
NumbersKept == [][Kept(table, alloc_uid, table', alloc_uid')]_vars

\* For any contexts, spaces and assets, alloc_uid only hands out new numbers, and
\* removing or moving an entry never revives an old one.
THEOREM NumbersAreKept == Spec => NumbersKept
  BY HandleInvariant, HandleInvNext, PTL DEF Spec, NumbersKept

\* The locks that contexts have are those of the points they are at, an asset
\* that is not initialised is locked by its creator, and nothing refers to an
\* asset that was not created.
THEOREM LockInvariant == Spec => []LockInv
  <1>1. HandleInv /\ LockInv /\ [Next]_vars => LockInv'
    <2> SUFFICES ASSUME HandleInv, LockInv, [Next]_vars PROVE LockInv'
      OBVIOUS
    <2>1. CASE Next
      BY <2>1, LockInvStep DEF Next
    <2>2. CASE UNCHANGED vars
      BY <2>2 DEF vars, heap, names, place, LockInv, LifeTypes, NotFresh, InHand,
         LockOwners,
         Holds, Creating, first, CreatorLocks, InitialisedWhenUsed, Pins
    <2> QED BY <2>1, <2>2
  <1> QED BY <1>1, HandleInvariant, LockInvInit, PTL DEF Spec

\* What is referred to is counted, exactly, and what is counted is alive.
THEOREM CountInvariant == Spec => []CountInv
  <1>1. HandleInv /\ LockInv /\ CountInv /\ [Next]_vars => CountInv'
    <2> SUFFICES ASSUME HandleInv, LockInv, CountInv, [Next]_vars PROVE CountInv'
      OBVIOUS
    <2>1. CASE Next
      BY <2>1, CountInvStep DEF Next
    <2>2. CASE UNCHANGED vars
      BY <2>2 DEF vars, heap, names, place, CountInv, CountsExact, References,
         CountedAlive, Alive
    <2> QED BY <2>1, <2>2
  <1> QED BY <1>1, HandleInvariant, LockInvariant, CountInvInit, PTL DEF Spec

\* For any contexts, spaces and assets: a call that got the lock of an asset
\* finds it past its initialisation (space.hpp:292).
THEOREM UsedInitialised == Spec => []InitialisedWhenUsed
  BY LockInvariant, PTL DEF LockInv

\* For any contexts, spaces and assets: Asset::ref_count is the number of the
\* references in tables, calls, assets and the registry, after every step of
\* copies, moves, creations that fail and deletions.
THEOREM CountsAreExact == Spec => []CountsExact
  BY CountInvariant, PTL DEF CountInv

\* For any contexts, spaces and assets: whoever has a reference has an asset that
\* nobody deletes, and Asset::deref never deletes an asset twice.
THEOREM NothingDangles == Spec => []NoDangling
  <1>1. CountInv => NoDangling
    BY DEF CountInv, CountsExact, CountedAlive, Alive, NoDangling
  <1> QED BY <1>1, CountInvariant, PTL

\* Variables keep their types; in particular no count ever falls below zero.
THEOREM TypeCorrect == Spec => []TypeOK
  <1>1. HandleInv /\ LockInv /\ CountInv => TypeOK
    <2> SUFFICES ASSUME HandleInv, LockInv, CountInv PROVE TypeOK
      OBVIOUS
    <2>1. ASSUME NEW a \in Assets PROVE count[a] \in Nat
      <3>1. /\ Agree(table, table, Handles, None) /\ Agree(ref, ref, Ctx, None)
            /\ Agree(tmp, tmp, Ctx, None) /\ Agree(inner, inner, Assets, None)
        BY DEF Agree
      <3>2. /\ Occ(table, Handles, a) \in Nat /\ Occ(ref, Ctx, a) \in Nat
            /\ Occ(tmp, Ctx, a) \in Nat /\ Occ(inner, Assets, a) \in Nat
        BY <3>1, FiniteDomains, OccUpdate DEF Counted
      <3> QED BY <3>2, ReferencesOcc DEF CountInv, CountsExact, One
    <2>2. count \in [Assets -> Nat]
      BY <2>1 DEF CountInv
    <2> QED BY <2>2 DEF TypeOK, HandleInv, HandleTypes, LockInv, LifeTypes
  <1> QED BY <1>1, HandleInvariant, LockInvariant, CountInvariant, PTL

\* For any contexts, spaces and assets: every circle of contexts that wait for
\* each other's locks goes through an asset_copy of a space.  Everything else is
\* ordered: asset_move takes spaces by address, asset_copy and create_mapping
\* take a space inside an asset, create_ipc_connection an endpoint inside a
\* connection.
THEOREM LocksAreOrdered == Spec => []NoCircularWait
  <1>1. HandleInv /\ LockInv => NoCircularWait
    BY Acyclic
  <1> QED BY <1>1, HandleInvariant, LockInvariant, PTL
=============================================================================
