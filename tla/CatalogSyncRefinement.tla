----------------------- MODULE CatalogSyncRefinement -----------------------
(***************************************************************************)
(* CatalogSync implements SyncService: every step of it is a step of the   *)
(* abstract service on requests, running sync, stored and served items, or *)
(* changes none of them.                                                   *)
(***************************************************************************)
EXTENDS CatalogSyncProofs

RefInv == ItemsInv /\ LockInv

LEMMA RefInvariant == Spec => []RefInv
<1>1. ItemsInv /\ LockInv => RefInv
  BY DEF RefInv
<1> QED
  BY <1>1, ItemsInvariant, LockInvariant, PTL

\* Who is inside Run is who holds its mutex.
LEMMA InsideIsOwner == LockInv => Inside = runMu
<1> SUFFICES ASSUME LockInv PROVE Inside = runMu
  OBVIOUS
<1> USE DEF LockInv, OneSyncAtATime, Owned, TypeOK
<1>1. CASE \E r \in Runner : InRun(r)
  <2>1. Inside \in Runner /\ InRun(Inside)
    BY <1>1 DEF Inside
  <2> QED
    BY <2>1
<1>2. CASE ~\E r \in Runner : InRun(r)
  BY <1>2 DEF Inside
<1> QED
  BY <1>1, <1>2

LEMMA InsideStaysOwner == LockInv' => Inside' = runMu'
<1> SUFFICES ASSUME LockInv' PROVE Inside' = runMu'
  OBVIOUS
<1> USE DEF LockInv, OneSyncAtATime, Owned, TypeOK
<1>1. CASE \E r \in Runner : InRun(r)'
  <2>1. Inside' \in Runner /\ InRun(Inside)'
    BY <1>1 DEF Inside
  <2> QED
    BY <2>1
<1>2. CASE ~\E r \in Runner : InRun(r)'
  BY <1>2 DEF Inside
<1> QED
  BY <1>1, <1>2

\* The items of memory and of the database stay.
SameItems ==
  /\ ItemsIn(db'.of) = ItemsIn(db.of)
  /\ ItemsIn(mem'.of) = ItemsIn(mem.of)

\* The steps of a sync before it publishes.
LEMMA QuietRefines ==
  ASSUME RefInv, LockInv', NEW r \in Runner, QuietRun(r)
  PROVE  [Service!Next]_Service!vars
<1> USE ProcessAssumption DEF Service!Next, Service!vars, RunStep
<1>0. Inside = runMu /\ Inside' = runMu'
  BY InsideIsOwner, InsideStaysOwner DEF RefInv
<1>types. TypeOK
  BY DEF RefInv, LockInv
<1>same. SameItems
  BY DEF QuietRun, RequestRun, AcquireRun, LoadItems, LoadRows, CloneLiveRows, ListSources,
         FetchFeeds, Enrich, saving, SameItems
<1>1. CASE RequestRun(r)
  <2>1. r \notin Waiting /\ Waiting' = Waiting \cup {r} /\ runMu' = runMu
    BY <1>1, <1>types DEF RequestRun, Waiting, TypeOK
  <2>2. runMu # r
    BY <1>1 DEF RequestRun, RefInv, LockInv, Owned, InRun
  <2>3. Service!Ask(r)
    BY <1>0, <1>same, <2>1, <2>2 DEF Service!Ask, SameItems
  <2> QED
    BY <2>3
<1>2. CASE AcquireRun(r)
  <2>1. r \in Waiting /\ Waiting' = Waiting \ {r} /\ runMu = NoOne /\ runMu' = r
    BY <1>2, <1>types DEF AcquireRun, Waiting, TypeOK
  <2>2. Service!Begin(r)
    BY <1>0, <1>same, <2>1 DEF Service!Begin, SameItems
  <2> QED
    BY <2>2
<1>3. CASE LoadItems(r) \/ LoadRows(r) \/ CloneLiveRows(r) \/ FetchFeeds(r) \/ Enrich(r)
           \/ ListSources(r)
  <2>1. Waiting' = Waiting /\ InRun(r)
    BY <1>3, <1>types
    DEF LoadItems, LoadRows, CloneLiveRows, FetchFeeds, Enrich, ListSources, Waiting, InRun, TypeOK
  <2>2. runMu = r
    BY <2>1 DEF RefInv, LockInv, OneSyncAtATime
  <2>3. runMu' = runMu \/ runMu' = NoOne
    BY <1>3 DEF LoadItems, LoadRows, CloneLiveRows, FetchFeeds, Enrich, ListSources
  <2>4. CASE runMu' = runMu
    BY <1>0, <1>same, <2>1, <2>4 DEF SameItems
  <2>5. CASE runMu' = NoOne
    <3>1. Service!Finish
      BY <1>0, <1>same, <2>1, <2>2, <2>5 DEF Service!Finish, SameItems
    <3> QED
      BY <3>1
  <2> QED
    BY <2>3, <2>4, <2>5
<1> QED
  BY <1>1, <1>2, <1>3 DEF QuietRun

\* Its publication and its save.
LEMMA SavingRefines ==
  ASSUME RefInv, LockInv', NEW r \in Runner,
         Publish(r) \/ PublishEmpty(r) \/ CommitRun(r) \/ FailRun(r) \/ ResetMemory(r)
  PROVE  [Service!Next]_Service!vars
<1> USE ProcessAssumption DEF Service!Next, Service!vars, RunStep
<1>0. Inside = runMu /\ Inside' = runMu'
  BY InsideIsOwner, InsideStaysOwner DEF RefInv
<1>types. TypeOK /\ HeldItems
  BY DEF RefInv, ItemsInv
<1>wait. Waiting' = Waiting /\ InRun(r)
  BY <1>types
  DEF Publish, PublishEmpty, CommitRun, FailRun, ResetMemory, Waiting, InRun, TypeOK
<1>mine. runMu = r
  BY <1>wait DEF RefInv, LockInv, OneSyncAtATime
<1>1. CASE Publish(r)
  <2>1. ItemsIn(mem'.of) = run[r].items /\ run[r].items \subseteq Item
    BY <1>1, <1>types, PublishItems DEF TypeOK, RunLocals
  <2>2. NothingToDrop => ItemsIn(db.of) \subseteq run[r].items
    BY <1>1, <1>types DEF Publish, HeldItems, RunHoldsItems, Collecting, NothingToDrop
  <2>3. runMu' = runMu /\ UNCHANGED db
    BY <1>1 DEF Publish, BeginRunSave
  <2>4. Service!Publish
    BY <1>0, <1>wait, <1>mine, <2>1, <2>2, <2>3 DEF Service!Publish
  <2> QED
    BY <2>4
<1>2. CASE PublishEmpty(r)
  <2>1. ItemsIn(mem'.of) = {}
    BY <1>2, EmptyTypes DEF PublishEmpty, BeginRunSave, NoMemory
  <2>2. ~NothingToDrop
    BY <1>2, <1>types DEF PublishEmpty, HeldItems, RunHoldsItems, NothingToDrop
  <2>3. runMu' = runMu /\ UNCHANGED db
    BY <1>2 DEF PublishEmpty, BeginRunSave
  <2>4. Service!Publish
    BY <1>0, <1>wait, <1>mine, <2>1, <2>2, <2>3 DEF Service!Publish
  <2> QED
    BY <2>4
<1>3. CASE CommitRun(r)
  <2>1. ItemsIn(db'.of) = ItemsIn(mem.of) /\ mem' = mem /\ runMu' = NoOne
    BY <1>3, <1>types DEF CommitRun, CommitTx, HeldItems, TxHoldsItems
  <2>2. Service!Finish
    BY <1>0, <1>wait, <1>mine, <2>1 DEF Service!Finish
  <2> QED
    BY <2>2
<1>4. CASE FailRun(r)
  <2>1. UNCHANGED <<db, mem, runMu>>
    BY <1>4 DEF FailRun, RollbackTx
  <2> QED
    BY <1>0, <1>wait, <2>1
<1>5. CASE ResetMemory(r)
  <2>1. UNCHANGED <<db, mem>> /\ runMu' = NoOne
    BY <1>5 DEF ResetMemory, saving
  <2>2. Service!Finish
    BY <1>0, <1>wait, <1>mine, <2>1 DEF Service!Finish
  <2> QED
    BY <2>2
<1> QED
  BY <1>1, <1>2, <1>3, <1>4, <1>5

\* The steps of pages: only a commit changes an item that is stored, and only
\* after a save of a sync has failed.
LEMMA PageRefines ==
  ASSUME RefInv, LockInv', NEW v \in Viewer, OpenMeta(v) \/ (MetaOf(v) /\ ~WriteTx(v))
  PROVE  [Service!Next]_Service!vars
<1> USE DEF Service!Next, Service!vars
<1>0. Inside = runMu /\ Inside' = runMu'
  BY InsideIsOwner, InsideStaysOwner DEF RefInv
<1>types. TypeOK /\ HeldItems /\ ItemsInv
  BY DEF RefInv, ItemsInv
<1>1. UNCHANGED <<runMu, rpc>> /\ mem'.of = mem.of
  BY <1>types
  DEF OpenMeta, MetaOf, MergeMeta, SkipMeta, PersistMeta, CommitMeta, FailMeta, TypeOK, Memory
<1>2. Waiting' = Waiting /\ Inside' = Inside
  BY <1>0, <1>1 DEF Waiting
<1>3. CASE CommitMeta(v) /\ ~NothingToDrop
  <2>1. ItemsIn(db'.of) = ItemsIn(mem.of)
    BY <1>3, <1>types DEF CommitMeta, CommitTx, HeldItems, TxHoldsItems
  <2>2. Service!PageSaves
    BY <1>1, <1>2, <1>3, <2>1 DEF Service!PageSaves
  <2> QED
    BY <2>2
<1>4. CASE CommitMeta(v) /\ NothingToDrop
  <2>1. ItemsIn(db'.of) = ItemsIn(db.of)
    BY <1>4, <1>types, ViewerItems DEF NothingToDrop
  <2> QED
    BY <1>1, <1>2, <2>1
<1>5. CASE ~CommitMeta(v)
  <2>1. db' = db
    BY <1>5 DEF OpenMeta, MetaOf, MergeMeta, SkipMeta, PersistMeta, FailMeta, RollbackTx, saving
  <2> QED
    BY <1>1, <1>2, <2>1
<1> QED
  BY <1>3, <1>4, <1>5

LEMMA OtherRefines ==
  ASSUME RefInv, LockInv',
         \/ \E p \in Runner \cup Viewer : WriteTx(p)
         \/ CreateRSSSource \/ DeleteRSSSource \/ Restart \/ UNCHANGED vars
  PROVE  [Service!Next]_Service!vars
<1> USE DEF Service!Next, Service!vars
<1>0. Inside = runMu /\ Inside' = runMu'
  BY InsideIsOwner, InsideStaysOwner DEF RefInv
<1>types. TypeOK
  BY DEF RefInv, LockInv
<1>1. CASE \E p \in Runner \cup Viewer : WriteTx(p)
  <2>1. UNCHANGED <<db, runMu, rpc>> /\ mem'.of = Regroup(mem.of)
    BY <1>1, <1>types DEF WriteTx, TypeOK, Memory
  <2>2. ItemsIn(mem'.of) = ItemsIn(mem.of)
    BY <2>1, RegroupFacts
  <2> QED
    BY <1>0, <2>1, <2>2 DEF Waiting
<1>2. CASE CreateRSSSource \/ DeleteRSSSource \/ UNCHANGED vars
  <2>1. UNCHANGED <<db, mem, runMu, rpc>>
    BY <1>2 DEF CreateRSSSource, DeleteRSSSource, saving, vars
  <2> QED
    BY <1>0, <2>1 DEF Waiting
<1>3. CASE Restart
  <2>1. runMu' = NoOne /\ db' = db /\ Waiting' = {}
    BY <1>3 DEF Restart, Waiting
  <2>2. \/ ItemsIn(mem'.of) = ItemsIn(db.of)
        \/ LoadFaults /\ ItemsIn(mem'.of) = {}
    BY <1>3, <1>types, HydratedFacts, EmptyTypes DEF Restart, NoMemory
  <2>3. Service!Die
    BY <1>0, <2>1, <2>2 DEF Service!Die
  <2> QED
    BY <2>3
<1> QED
  BY <1>1, <1>2, <1>3

\* What CatalogSync does with requests, memory and database is what SyncService
\* allows: at most one sync, published items that keep the stored ones, and no
\* other change of what is stored, unless something licenses a loss.
THEOREM Implements == Spec => ImplementsService
<1>1. Init => Service!Init
  <2> SUFFICES ASSUME Init PROVE Service!Init
    OBVIOUS
  <2>1. Inside = NoOne
    BY DEF Init, Inside, InRun
  <2> QED
    BY <2>1, EmptyTypes DEF Init, Service!Init, Waiting, NoMemory
<1>2. RefInv /\ RefInv' /\ [Next]_vars => [Service!Next]_Service!vars
  <2> SUFFICES ASSUME RefInv, LockInv', [Next]_vars PROVE [Service!Next]_Service!vars
    BY DEF RefInv
  <2>1. ASSUME NEW r \in Runner, RequestRun(r) \/ RunOf(r)
        PROVE  [Service!Next]_Service!vars
    BY <2>1, QuietRefines, SavingRefines, OtherRefines DEF RunOf, QuietRun
  <2>2. ASSUME NEW v \in Viewer, OpenMeta(v) \/ MetaOf(v)
        PROVE  [Service!Next]_Service!vars
    BY <2>2, PageRefines, OtherRefines
  <2> QED
    BY <2>1, <2>2, OtherRefines DEF Next
<1> QED
  BY <1>1, <1>2, RefInvariant, PTL DEF Spec, ImplementsService, Service!Spec

============================================================================
