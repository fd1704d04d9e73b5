------------------------- MODULE CatalogSyncProofs -------------------------
(***************************************************************************)
(* Proofs of the safety properties of CatalogSync, for any set of items,   *)
(* series, fields, sources, runners and viewers.                           *)
(***************************************************************************)
EXTENDS CatalogSync, FiniteSetTheorems, WellFoundedInduction, TLAPS

----------------------------------------------------------------------------
(* What the operators on catalogs return. *)

LEMMA SeriesAreNotNone == None \notin Series
BY SeriesAssumption DEF None

\* AssignSeriesFields gives every item a series, and the same one each time.
LEMMA GroupedFacts ==
  ASSUME NEW S \in SUBSET Item
  PROVE  Grouped(S) \in Assignment /\ ItemsIn(Grouped(S)) = S
BY SeriesAreNotNone, SeriesOfAssumption DEF Grouped, Assignment, ItemsIn

LEMMA RegroupFacts ==
  ASSUME NEW of
  PROVE  /\ Regroup(of) \in Assignment
         /\ ItemsIn(Regroup(of)) = ItemsIn(of)
         /\ Regroup(Regroup(of)) = Regroup(of)
<1>1. ItemsIn(of) \in SUBSET Item
  BY DEF ItemsIn
<1> QED
  BY <1>1, GroupedFacts DEF Regroup

LEMMA PruneType ==
  ASSUME NEW rows \in Rows, NEW S
  PROVE  Prune(rows, S) \in Rows
BY DEF Prune, Rows

LEMMA EmptyTypes == Absent \in Assignment /\ NoRows \in Rows /\ ItemsIn(Absent) = {}
BY DEF Absent, Assignment, NoRows, Rows, ItemsIn

\* What a save writes is typed, keeps the items, and has rows only of its series.
LEMMA PersistedFacts ==
  ASSUME NEW of, NEW rows \in Rows
  PROVE  /\ Persisted(of, rows) \in Stored
         /\ Persisted(of, rows).of = Regroup(of)
         /\ ItemsIn(Persisted(of, rows).of) = ItemsIn(of)
<1> DEFINE enr == IF ItemsIn(Regroup(of)) = {} THEN rows
                  ELSE Prune(rows, SeriesIn(Regroup(of)))
<1>1. Persisted(of, rows) = [of |-> Regroup(of), enr |-> enr]
  BY DEF Persisted
<1>2. enr \in Rows
  BY PruneType
<1> HIDE DEF enr
<1> QED
  BY <1>1, <1>2, RegroupFacts DEF Stored

LEMMA MergedFacts ==
  ASSUME NEW of \in Assignment, NEW rows \in Rows, NEW canon \in [Series -> Series]
  PROVE  /\ MergedItems(of, canon) \in Assignment
         /\ ItemsIn(MergedItems(of, canon)) = ItemsIn(of)
         /\ MergedRows(rows, canon) \in Rows
<1>1. MergedItems(of, canon) \in Assignment
  BY DEF MergedItems, Assignment
<1>2. ItemsIn(MergedItems(of, canon)) = ItemsIn(of)
  BY SeriesAreNotNone DEF MergedItems, Assignment, ItemsIn
<1>3. MergedRows(rows, canon) \in Rows
  BY DEF MergedRows, Rows
<1> QED
  BY <1>1, <1>2, <1>3

LEMMA SeriesInType ==
  ASSUME NEW of \in Assignment
  PROVE  SeriesIn(of) \subseteq Series
BY DEF SeriesIn, ItemsIn, Assignment

LEMMA NewSnapshotFacts ==
  ASSUME NEW items \in SUBSET Item, NEW rows \in Rows,
         NEW canon \in CanonMaps(Grouped(items), rows)
  PROVE  /\ NewSnapshot(items, rows, canon) \in Memory
         /\ ItemsIn(NewSnapshot(items, rows, canon).of) = items
<1> DEFINE of == MergedItems(Grouped(items), canon)
           enr == Prune(MergedRows(rows, canon), SeriesIn(of))
<1>1. canon \in [Series -> Series]
  BY DEF CanonMaps
<1>2. of \in Assignment /\ ItemsIn(of) = items /\ MergedRows(rows, canon) \in Rows
  BY <1>1, GroupedFacts, MergedFacts
<1>3. enr \in Rows /\ SeriesIn(of) \in SUBSET Series
  BY <1>2, PruneType, SeriesInType
<1>4. NewSnapshot(items, rows, canon) = [of |-> of, series |-> SeriesIn(of), enr |-> enr]
  BY DEF NewSnapshot
<1> HIDE DEF of, enr
<1> QED
  BY <1>2, <1>3, <1>4 DEF Memory

----------------------------------------------------------------------------
(* Types *)

LEMMA NoTypes == NoTx \in Tx /\ NoRun \in RunLocals /\ NoMemory \in Memory
BY EmptyTypes DEF Tx, NoTx, RunLocals, NoRun, Memory, NoMemory

LEMMA TypeInit == Init => TypeOK
<1>1. [of |-> Absent, enr |-> NoRows] \in Stored
  BY EmptyTypes DEF Stored
<1> QED
  BY <1>1, NoTypes DEF Init, TypeOK, RunPc, ViewerPc

LEMMA RunTypeStep ==
  ASSUME TypeOK, NEW r \in Runner,
         RequestRun(r) \/ (RunOf(r) /\ ~WriteTx(r))
  PROVE  TypeOK'
<1> USE DEF TypeOK
<1>1. CASE RequestRun(r)
  BY <1>1 DEF RequestRun, RunStep, RunPc, viewers, saving
<1>2. CASE AcquireRun(r)
  BY <1>2 DEF AcquireRun, RunStep, RunPc, viewers, saving
<1>3. CASE LoadItems(r)
  <2>1. run' \in [Runner -> RunLocals]
    <3>1. ItemsIn(db.of) \in SUBSET Item
      BY DEF ItemsIn
    <3>2. CASE run' = [run EXCEPT ![r].items = ItemsIn(db.of)]
      BY <3>1, <3>2 DEF RunLocals
    <3>3. CASE run' = [run EXCEPT ![r].mayDrop = TRUE]
      BY <3>3 DEF RunLocals
    <3> QED
      BY <1>3, <3>2, <3>3 DEF LoadItems
  <2> QED
    BY <1>3, <2>1 DEF LoadItems, RunStep, RunPc, viewers, saving
<1>4. CASE LoadRows(r)
  <2>1. run' \in [Runner -> RunLocals]
    BY <1>4 DEF LoadRows, RunLocals, Stored
  <2> QED
    BY <1>4, <2>1 DEF LoadRows, RunStep, RunPc, viewers, saving
<1>5. CASE CloneLiveRows(r)
  <2>1. [s \in Series |-> MergeRow(run[r].cache[s], mem.enr[s])] \in Rows
    BY DEF MergeRow, Rows, RunLocals, Memory
  <2>2. run' \in [Runner -> RunLocals]
    BY <1>5, <2>1 DEF CloneLiveRows, RunLocals
  <2> QED
    BY <1>5, <2>2 DEF CloneLiveRows, RunStep, RunPc, viewers, saving
<1>6. CASE ListSources(r)
  <2>1. run' \in [Runner -> RunLocals]
    <3>1. CASE run' = [run EXCEPT ![r].mayDrop = TRUE]
      BY <3>1 DEF RunLocals
    <3>2. CASE run' = [run EXCEPT ![r] = NoRun]
      BY <3>2, NoTypes
    <3> QED
      BY <1>6, <3>1, <3>2 DEF ListSources
  <2> QED
    BY <1>6, <2>1 DEF ListSources, RunStep, RunPc, viewers, saving
<1>7. CASE FetchFeeds(r)
  <2>1. run' \in [Runner -> RunLocals]
    BY <1>7 DEF FetchFeeds, MergeItems, RunLocals
  <2> QED
    BY <1>7, <2>1 DEF FetchFeeds, RunStep, RunPc, viewers, saving
<1>8. CASE Enrich(r)
  <2>1. run' \in [Runner -> RunLocals]
    BY <1>8 DEF Enrich, RunLocals
  <2> QED
    BY <1>8, <2>1 DEF Enrich, RunStep, RunPc, viewers, saving
<1>9. CASE Publish(r)
  <2>1. mem' \in Memory
    <3>1. run[r].items \in SUBSET Item /\ run[r].cache \in Rows
      BY DEF RunLocals
    <3> QED
      BY <1>9, <3>1, NewSnapshotFacts DEF Publish, BeginRunSave
  <2> QED
    BY <1>9, <2>1 DEF Publish, BeginRunSave, RunStep, RunPc, viewers
<1>10. CASE PublishEmpty(r)
  <2>1. mem' \in Memory
    BY <1>10, EmptyTypes DEF PublishEmpty, BeginRunSave, NoMemory, Memory, RunLocals
  <2> QED
    BY <1>10, <2>1 DEF PublishEmpty, BeginRunSave, RunStep, RunPc, viewers
<1>11. CASE CommitRun(r)
  BY <1>11, NoTypes DEF CommitRun, CommitTx, RunStep, RunPc, viewers, Tx, Stored
<1>12. CASE FailRun(r)
  BY <1>12, NoTypes DEF FailRun, RollbackTx, RunStep, RunPc, viewers
<1>13. CASE ResetMemory(r)
  BY <1>13, NoTypes DEF ResetMemory, RunStep, RunPc, viewers, saving
<1> QED
  BY <1>1, <1>2, <1>3, <1>4, <1>5, <1>6, <1>7, <1>8, <1>9, <1>10, <1>11, <1>12,
     <1>13 DEF RunOf

LEMMA WriteTypeStep ==
  ASSUME TypeOK, NEW p \in Runner \cup Viewer, WriteTx(p)
  PROVE  TypeOK'
<1> USE DEF TypeOK
<1> DEFINE stored == Persisted(mem.of, mem.enr)
<1>1. stored \in Stored
  BY PersistedFacts DEF Memory
<1>2. [of |-> stored.of, enr |-> stored.enr, open |-> TRUE] \in Tx
  BY <1>1 DEF Stored, Tx
<1>3. tx' \in [Runner \cup Viewer -> Tx]
  BY <1>2 DEF WriteTx
<1>4. mem' \in Memory
  BY RegroupFacts DEF WriteTx, Memory
<1> QED
  BY <1>3, <1>4 DEF WriteTx, viewers

LEMMA ViewerTypeStep ==
  ASSUME TypeOK, NEW v \in Viewer, OpenMeta(v) \/ (MetaOf(v) /\ ~WriteTx(v))
  PROVE  TypeOK'
<1> USE DEF TypeOK
<1>1. CASE OpenMeta(v)
  <2>1. mem.series \cup SeriesIn(mem.of) \subseteq Series
    BY SeriesInType DEF Memory
  <2> QED
    BY <1>1, <2>1 DEF OpenMeta, ViewerStep, ViewerPc, saving
<1>2. CASE MergeMeta(v)
  <2>1. mem' \in Memory
    BY <1>2 DEF MergeMeta, ViewerStep, MergeRow, Memory, Rows
  <2> QED
    BY <1>2, <2>1 DEF MergeMeta, ViewerStep, ViewerPc, saving
<1>3. CASE SkipMeta(v)
  BY <1>3 DEF SkipMeta, ViewerStep, ViewerPc, saving
<1>4. CASE PersistMeta(v)
  BY <1>4 DEF PersistMeta, ViewerStep, ViewerPc
<1>5. CASE CommitMeta(v)
  BY <1>5, NoTypes DEF CommitMeta, CommitTx, ViewerStep, ViewerPc, Tx, Stored
<1>6. CASE FailMeta(v)
  BY <1>6, NoTypes DEF FailMeta, RollbackTx, ViewerStep, ViewerPc
<1> QED
  BY <1>1, <1>2, <1>3, <1>4, <1>5, <1>6 DEF MetaOf

LEMMA HydratedFacts ==
  ASSUME TypeOK
  PROVE  Hydrated \in Memory /\ ItemsIn(Hydrated.of) = ItemsIn(db.of)
BY RegroupFacts, SeriesInType DEF TypeOK, Hydrated, Memory, Stored

LEMMA RestartTypeStep ==
  ASSUME TypeOK, Restart
  PROVE  TypeOK'
<1>1. mem' \in Memory
  BY HydratedFacts, NoTypes DEF Restart
<1> QED
  BY <1>1, NoTypes DEF TypeOK, Restart, RunPc, ViewerPc

LEMMA TypeStep == TypeOK /\ [Next]_vars => TypeOK'
<1> SUFFICES ASSUME TypeOK, [Next]_vars PROVE TypeOK'
  OBVIOUS
<1>1. ASSUME NEW r \in Runner, RequestRun(r) \/ RunOf(r) PROVE TypeOK'
  BY <1>1, RunTypeStep, WriteTypeStep
<1>2. ASSUME NEW v \in Viewer, OpenMeta(v) \/ MetaOf(v) PROVE TypeOK'
  BY <1>2, ViewerTypeStep, WriteTypeStep
<1>3. CASE CreateRSSSource
  BY <1>3 DEF TypeOK, CreateRSSSource, viewers, saving
<1>4. CASE DeleteRSSSource
  BY <1>4 DEF TypeOK, DeleteRSSSource, viewers, saving
<1>5. CASE UNCHANGED vars
  BY <1>5 DEF TypeOK, vars
<1> QED
  BY <1>1, <1>2, <1>3, <1>4, <1>5, RestartTypeStep DEF Next

\* In every reachable state the stored and the served catalog are well formed,
\* every open page has a series, and every goroutine is somewhere in its code.
THEOREM TypeCorrect == Spec => []TypeOK
BY TypeInit, TypeStep, PTL DEF Spec

----------------------------------------------------------------------------
(* The two mutexes *)

\* Steps of a sync that touch neither memory nor the database.
QuietRun(r) ==
  \/ RequestRun(r) \/ AcquireRun(r) \/ LoadItems(r) \/ LoadRows(r) \/ CloneLiveRows(r)
  \/ ListSources(r) \/ FetchFeeds(r) \/ Enrich(r)

LEMMA SyncMutexStep == TypeOK /\ OneSyncAtATime /\ [Next]_vars => OneSyncAtATime'
<1> SUFFICES ASSUME TypeOK, OneSyncAtATime, [Next]_vars
             PROVE  OneSyncAtATime'
  OBVIOUS
<1> USE ProcessAssumption DEF TypeOK, OneSyncAtATime, InRun
<1>1. ASSUME NEW r \in Runner, QuietRun(r)
      PROVE  OneSyncAtATime'
  BY <1>1 DEF QuietRun, RequestRun, AcquireRun, LoadItems, LoadRows, CloneLiveRows,
              ListSources, FetchFeeds, Enrich, RunStep
<1>2. ASSUME NEW r \in Runner,
             \/ Publish(r) \/ PublishEmpty(r) \/ CommitRun(r) \/ FailRun(r)
             \/ ResetMemory(r)
      PROVE  OneSyncAtATime'
  BY <1>2 DEF Publish, PublishEmpty, BeginRunSave, CommitRun, FailRun, ResetMemory,
              RunStep
<1>3. ASSUME NEW p \in Runner \cup Viewer, WriteTx(p)
      PROVE  OneSyncAtATime'
  BY <1>3 DEF WriteTx
<1>4. ASSUME NEW v \in Viewer, OpenMeta(v) \/ (MetaOf(v) /\ ~WriteTx(v))
      PROVE  OneSyncAtATime'
  BY <1>4 DEF OpenMeta, MetaOf, MergeMeta, SkipMeta, PersistMeta, CommitMeta, FailMeta
<1>5. CASE Restart
  BY <1>5 DEF Restart
<1>6. CASE CreateRSSSource \/ DeleteRSSSource \/ UNCHANGED vars
  BY <1>6 DEF CreateRSSSource, DeleteRSSSource, vars
<1> QED
  BY <1>1, <1>2, <1>3, <1>4, <1>5, <1>6 DEF Next, RunOf, QuietRun

\* No two goroutines are ever inside Run, however syncs are asked for.
THEOREM OneSync == Spec => []OneSyncAtATime
<1>1. Init => OneSyncAtATime
  BY DEF Init, OneSyncAtATime, InRun
<1> QED
  BY <1>1, TypeCorrect, SyncMutexStep, PTL DEF Spec

\* Whoever saves holds saveMu, and only who saves has a transaction open.
OneSaver ==
  \A p \in Runner \cup Viewer :
    /\ IsSaving(p) => saveMu = p
    /\ tx[p].open => IsSaving(p)

LEMMA SaverInit == Init => OneSaver
BY DEF Init, OneSaver, IsSaving, NoTx

LEMMA SaverStep == TypeOK /\ OneSaver /\ [Next]_vars => OneSaver'
<1> SUFFICES ASSUME TypeOK, OneSaver, [Next]_vars
             PROVE  OneSaver'
  OBVIOUS
<1> USE ProcessAssumption DEF TypeOK, OneSaver, IsSaving
<1>1. ASSUME NEW r \in Runner, QuietRun(r) \/ ResetMemory(r)
      PROVE  OneSaver'
  BY <1>1 DEF QuietRun, RequestRun, AcquireRun, LoadItems, LoadRows, CloneLiveRows,
              ListSources, FetchFeeds, Enrich, ResetMemory, RunStep, viewers, saving
<1>2. ASSUME NEW r \in Runner, Publish(r) \/ PublishEmpty(r)
      PROVE  OneSaver'
  BY <1>2 DEF Publish, PublishEmpty, BeginRunSave, RunStep, viewers
<1>3. ASSUME NEW r \in Runner, CommitRun(r) \/ FailRun(r)
      PROVE  OneSaver'
  BY <1>3 DEF CommitRun, CommitTx, FailRun, RollbackTx, RunStep, viewers, NoTx
<1>4. ASSUME NEW p \in Runner \cup Viewer, WriteTx(p)
      PROVE  OneSaver'
  BY <1>4 DEF WriteTx, viewers
<1>5. ASSUME NEW v \in Viewer, OpenMeta(v) \/ MergeMeta(v) \/ SkipMeta(v)
      PROVE  OneSaver'
  BY <1>5 DEF OpenMeta, MergeMeta, SkipMeta, ViewerStep, saving
<1>6. ASSUME NEW v \in Viewer, PersistMeta(v)
      PROVE  OneSaver'
  BY <1>6 DEF PersistMeta, ViewerStep
<1>7. ASSUME NEW v \in Viewer, CommitMeta(v) \/ FailMeta(v)
      PROVE  OneSaver'
  BY <1>7 DEF CommitMeta, CommitTx, FailMeta, RollbackTx, ViewerStep, NoTx
<1>8. CASE Restart
  BY <1>8 DEF Restart, NoTx
<1>9. CASE CreateRSSSource \/ DeleteRSSSource \/ UNCHANGED vars
  BY <1>9 DEF CreateRSSSource, DeleteRSSSource, viewers, saving, vars
<1> QED
  BY <1>1, <1>2, <1>3, <1>4, <1>5, <1>6, <1>7, <1>8, <1>9
     DEF Next, RunOf, MetaOf, QuietRun

\* No lock is held by who has left the code that releases it.
Owned == runMu # NoOne => InRun(runMu)
SaveOwned == saveMu # NoOne => IsSaving(saveMu)

LEMMA OwnersStep ==
  ASSUME TypeOK, OneSyncAtATime, OneSaver, Owned, SaveOwned, [Next]_vars
  PROVE  Owned' /\ SaveOwned'
<1> USE ProcessAssumption DEF TypeOK, Owned, SaveOwned, InRun, IsSaving
<1>1. ASSUME NEW r \in Runner, QuietRun(r)
      PROVE  Owned' /\ SaveOwned'
  <2>1. UNCHANGED <<saveMu, vpc>>
    BY <1>1 DEF QuietRun, RequestRun, AcquireRun, LoadItems, LoadRows, CloneLiveRows,
                ListSources, FetchFeeds, Enrich, viewers, saving
  <2>2. /\ rpc[r] # "saving" /\ \A o \in Runner \ {r} : rpc'[o] = rpc[o]
        /\ \/ runMu' = runMu /\ (runMu = r => rpc'[r] \notin {"idle", "waiting"})
           \/ runMu' = r /\ rpc'[r] \notin {"idle", "waiting"}
           \/ runMu' = NoOne
    BY <1>1 DEF QuietRun, RequestRun, AcquireRun, LoadItems, LoadRows, CloneLiveRows,
                ListSources, FetchFeeds, Enrich, RunStep
  <2> QED
    BY <2>1, <2>2
<1>2. ASSUME NEW r \in Runner, Publish(r) \/ PublishEmpty(r)
      PROVE  Owned' /\ SaveOwned'
  BY <1>2 DEF Publish, PublishEmpty, BeginRunSave, RunStep, viewers
<1>3. ASSUME NEW r \in Runner, CommitRun(r) \/ FailRun(r)
      PROVE  Owned' /\ SaveOwned'
  BY <1>3 DEF CommitRun, CommitTx, FailRun, RollbackTx, RunStep, viewers
<1>4. ASSUME NEW r \in Runner, ResetMemory(r)
      PROVE  Owned' /\ SaveOwned'
  BY <1>4 DEF ResetMemory, RunStep, viewers, saving
<1>5. ASSUME NEW p \in Runner \cup Viewer, WriteTx(p)
      PROVE  Owned' /\ SaveOwned'
  BY <1>5 DEF WriteTx, viewers
<1>6. ASSUME NEW v \in Viewer, OpenMeta(v) \/ MergeMeta(v) \/ SkipMeta(v)
      PROVE  Owned' /\ SaveOwned'
  BY <1>6 DEF OpenMeta, MergeMeta, SkipMeta, ViewerStep, saving
<1>7. ASSUME NEW v \in Viewer, PersistMeta(v) \/ CommitMeta(v) \/ FailMeta(v)
      PROVE  Owned' /\ SaveOwned'
  BY <1>7 DEF PersistMeta, CommitMeta, CommitTx, FailMeta, RollbackTx, ViewerStep
<1>8. CASE Restart
  BY <1>8 DEF Restart
<1>9. CASE CreateRSSSource \/ DeleteRSSSource \/ UNCHANGED vars
  BY <1>9 DEF CreateRSSSource, DeleteRSSSource, viewers, saving, vars
<1> QED
  BY <1>1, <1>2, <1>3, <1>4, <1>5, <1>6, <1>7, <1>8, <1>9
     DEF Next, RunOf, MetaOf, QuietRun

LockInv == TypeOK /\ OneSyncAtATime /\ OneSaver /\ Owned /\ SaveOwned

LEMMA LockInvariant == Spec => []LockInv
<1>1. Init => LockInv
  BY TypeInit, SaverInit DEF LockInv, Init, OneSyncAtATime, InRun, Owned, SaveOwned
<1>2. LockInv /\ [Next]_vars => LockInv'
  BY TypeStep, SyncMutexStep, SaverStep, OwnersStep DEF LockInv
<1> QED
  BY <1>1, <1>2, PTL DEF Spec

\* The locks are held only by goroutines that are where the code releases them,
\* so nobody waits in a circle.
THEOREM LocksOwned == Spec => []LocksHaveOwners
<1>1. LockInv => LocksHaveOwners
  BY ProcessAssumption
     DEF LockInv, OneSaver, Owned, SaveOwned, LocksHaveOwners, MemReadLocked, IsSaving
<1> QED
  BY <1>1, LockInvariant, PTL

----------------------------------------------------------------------------
(* Items are not lost *)

\* No save of a sync is under way, and none has failed and not been made up for.
Calm == ~unsaved /\ \A r \in Runner : rpc[r] # "saving"

\* Memory after a hydration that found nothing: no page can be opened.
Blank == mem.series = {} /\ ItemsIn(mem.of) = {} /\ \A v \in Viewer : vpc[v] = "idle"

\* Where a run holds the items it has loaded.
Collecting == {"itemsLoaded", "rowsLoaded", "cloned", "fetching", "enriching", "publishing"}

\* What is written and not yet committed are the items of memory.
TxHoldsItems ==
  \A p \in Runner \cup Viewer : tx[p].open => ItemsIn(tx[p].of) = ItemsIn(mem.of)

\* Between the saves of syncs, memory has the items of the database, or none.
MemoryHoldsItems == Calm => ItemsIn(mem.of) = ItemsIn(db.of) \/ Blank

\* A run that has read the items still has every one that is stored.
RunHoldsItems ==
  \A r \in Runner :
    /\ rpc[r] \in Collecting /\ ~unsaved /\ ~run[r].mayDrop =>
         ItemsIn(db.of) \subseteq run[r].items
    /\ rpc[r] = "saving" /\ ~unsaved /\ ~run[r].mayDrop =>
         ItemsIn(db.of) \subseteq ItemsIn(mem.of)
    /\ rpc[r] = "emptying" => run[r].mayDrop

HeldItems == TxHoldsItems /\ MemoryHoldsItems /\ RunHoldsItems

ItemsInv == TypeOK /\ OneSyncAtATime /\ OneSaver /\ HeldItems

LEMMA ItemsInit == Init => HeldItems
BY DEF HeldItems, Init, TxHoldsItems, MemoryHoldsItems, RunHoldsItems, NoTx, NoMemory, Collecting

LEMMA QuietRunItems ==
  ASSUME ItemsInv, NEW r \in Runner, QuietRun(r)
  PROVE  HeldItems'
<1> USE DEF ItemsInv, HeldItems, TypeOK
<1>1. UNCHANGED <<db, mem, tx, unsaved, vpc>>
  BY DEF QuietRun, RequestRun, AcquireRun, LoadItems, LoadRows, CloneLiveRows,
         ListSources, FetchFeeds, Enrich, viewers, saving
<1>2. rpc[r] # "saving" /\ rpc'[r] # "saving"
  BY DEF QuietRun, RequestRun, AcquireRun, LoadItems, LoadRows, CloneLiveRows,
         ListSources, FetchFeeds, Enrich, RunStep
<1>3. \A o \in Runner \ {r} : rpc'[o] = rpc[o] /\ run'[o] = run[o]
  BY DEF QuietRun, RequestRun, AcquireRun, LoadItems, LoadRows, CloneLiveRows,
         ListSources, FetchFeeds, Enrich, RunStep
<1>4. TxHoldsItems' /\ MemoryHoldsItems'
  BY <1>1, <1>2, <1>3 DEF TxHoldsItems, MemoryHoldsItems, Calm, Blank
<1>5. /\ rpc'[r] \in Collecting /\ ~unsaved /\ ~run'[r].mayDrop =>
           ItemsIn(db.of) \subseteq run'[r].items
      /\ rpc'[r] = "emptying" => run'[r].mayDrop
  <2>1. CASE RequestRun(r) \/ AcquireRun(r)
    BY <2>1 DEF RequestRun, AcquireRun, RunStep, Collecting
  <2>2. CASE LoadItems(r)
    BY <2>2 DEF LoadItems, RunStep, Collecting, RunLocals
  <2>3. CASE LoadRows(r) \/ CloneLiveRows(r) \/ Enrich(r)
    BY <2>3 DEF LoadRows, CloneLiveRows, Enrich, RunStep, RunHoldsItems, Collecting,
                RunLocals
  <2>4. CASE ListSources(r)
    BY <2>4 DEF ListSources, RunStep, RunHoldsItems, Collecting, RunLocals
  <2>5. CASE FetchFeeds(r)
    <3>1. run[r].items \subseteq run'[r].items /\ run'[r].mayDrop = run[r].mayDrop
      BY <2>5 DEF FetchFeeds, MergeItems, RunLocals
    <3> QED
      BY <2>5, <3>1 DEF FetchFeeds, RunStep, RunHoldsItems, Collecting
  <2> QED
    BY <2>1, <2>2, <2>3, <2>4, <2>5 DEF QuietRun
<1>6. RunHoldsItems'
  BY <1>1, <1>2, <1>3, <1>5 DEF RunHoldsItems
<1> QED
  BY <1>4, <1>6

\* What Publish puts into memory.
LEMMA PublishItems ==
  ASSUME TypeOK, NEW r \in Runner, Publish(r)
  PROVE  ItemsIn(mem'.of) = run[r].items
<1>1. run[r].items \in SUBSET Item /\ run[r].cache \in Rows
  BY DEF TypeOK, RunLocals
<1> QED
  BY <1>1, NewSnapshotFacts DEF Publish, BeginRunSave

LEMMA SavingRunItems ==
  ASSUME ItemsInv, NEW r \in Runner,
         \/ Publish(r) \/ PublishEmpty(r) \/ CommitRun(r) \/ FailRun(r)
         \/ ResetMemory(r)
  PROVE  HeldItems'
<1> USE ProcessAssumption DEF ItemsInv, HeldItems, TypeOK
<1>1. \A o \in Runner \ {r} : rpc[o] \in {"idle", "waiting"} /\ rpc'[o] = rpc[o]
  BY DEF OneSyncAtATime, InRun, Publish, PublishEmpty, CommitRun, FailRun, ResetMemory,
         RunStep
<1>2. CASE Publish(r) \/ PublishEmpty(r)
  <2>1. ~\E p \in Runner \cup Viewer : tx[p].open
    BY <1>2 DEF OneSaver, Publish, PublishEmpty, BeginRunSave
  <2>2. TxHoldsItems'
    BY <1>2, <2>1 DEF TxHoldsItems, Publish, PublishEmpty, BeginRunSave
  <2>3. MemoryHoldsItems'
    BY <1>2 DEF MemoryHoldsItems, Calm, Publish, PublishEmpty, RunStep
  <2>4. RunHoldsItems'
    <3>1. CASE Publish(r)
      <4>1. ItemsIn(mem'.of) = run[r].items
        BY <3>1, PublishItems
      <4> QED
        BY <1>1, <3>1, <4>1
           DEF RunHoldsItems, Publish, BeginRunSave, RunStep, Collecting
    <3>2. CASE PublishEmpty(r)
      BY <1>1, <3>2 DEF RunHoldsItems, PublishEmpty, BeginRunSave, RunStep, Collecting
    <3> QED
      BY <1>2, <3>1, <3>2
  <2> QED
    BY <2>2, <2>3, <2>4
<1>3. CASE CommitRun(r)
  <2>1. ItemsIn(db'.of) = ItemsIn(mem'.of)
    BY <1>3 DEF CommitRun, CommitTx, TxHoldsItems
  <2>2. TxHoldsItems'
    BY <1>3 DEF CommitRun, CommitTx, TxHoldsItems, NoTx
  <2>3. MemoryHoldsItems'
    BY <2>1 DEF MemoryHoldsItems
  <2>4. RunHoldsItems'
    BY <1>1, <1>3 DEF RunHoldsItems, CommitRun, RunStep, Collecting
  <2> QED
    BY <2>2, <2>3, <2>4
<1>4. CASE FailRun(r)
  BY <1>1, <1>4 DEF FailRun, RollbackTx, RunStep, TxHoldsItems, MemoryHoldsItems, Calm,
                    RunHoldsItems, NoTx, Collecting
<1>5. CASE ResetMemory(r)
  BY <1>1, <1>5 DEF ResetMemory, RunStep, TxHoldsItems, MemoryHoldsItems, Calm, Blank,
                    RunHoldsItems, saving, viewers, Collecting
<1> QED
  BY <1>2, <1>3, <1>4, <1>5

LEMMA WriteItems ==
  ASSUME ItemsInv, NEW p \in Runner \cup Viewer, WriteTx(p)
  PROVE  HeldItems'
<1> USE DEF ItemsInv, HeldItems, TypeOK
<1>1. ItemsIn(Regroup(mem.of)) = ItemsIn(mem.of)
  BY RegroupFacts
<1>2. ItemsIn(mem'.of) = ItemsIn(mem.of) /\ mem'.series = mem.series
  BY <1>1 DEF WriteTx, Memory
<1>3. ItemsIn(tx'[p].of) = ItemsIn(mem.of)
  BY PersistedFacts DEF WriteTx, Memory
<1>4. TxHoldsItems'
  BY <1>2, <1>3 DEF WriteTx, TxHoldsItems
<1>5. MemoryHoldsItems' /\ RunHoldsItems'
  BY <1>2 DEF WriteTx, MemoryHoldsItems, Calm, Blank, RunHoldsItems, viewers
<1> QED
  BY <1>4, <1>5

LEMMA ViewerItems ==
  ASSUME ItemsInv, NEW v \in Viewer, OpenMeta(v) \/ (MetaOf(v) /\ ~WriteTx(v))
  PROVE  /\ HeldItems'
         /\ ~unsaved => ItemsIn(db'.of) = ItemsIn(db.of)
<1> USE ProcessAssumption DEF ItemsInv, HeldItems, TypeOK
<1>1. UNCHANGED <<rpc, run, unsaved>> /\ mem'.of = mem.of /\ mem'.series = mem.series
  BY DEF OpenMeta, MetaOf, MergeMeta, SkipMeta, PersistMeta, CommitMeta, FailMeta, saving,
         Memory
<1>2. CASE OpenMeta(v)
  <2>1. ~Blank
    BY <1>2 DEF OpenMeta, Blank, SeriesIn
  <2> QED
    BY <1>1, <1>2, <2>1 DEF OpenMeta, saving, TxHoldsItems, MemoryHoldsItems, Calm,
                            RunHoldsItems
<1>3. \/ MergeMeta(v) \/ SkipMeta(v) \/ PersistMeta(v) \/ CommitMeta(v) \/ FailMeta(v)
      => ~Blank
  BY DEF MergeMeta, SkipMeta, PersistMeta, CommitMeta, FailMeta, ViewerStep,
              Blank
<1>4. CASE MergeMeta(v) \/ SkipMeta(v) \/ PersistMeta(v) \/ FailMeta(v)
  <2>1. db' = db /\ \A p \in Runner \cup Viewer : tx'[p] = tx[p] \/ tx'[p] = NoTx
    BY <1>4 DEF MergeMeta, SkipMeta, PersistMeta, FailMeta, RollbackTx, saving
  <2> QED
    BY <1>1, <1>3, <1>4, <2>1
       DEF TxHoldsItems, NoTx, MemoryHoldsItems, Calm, RunHoldsItems
<1>5. CASE CommitMeta(v)
  <2>1. saveMu = v /\ \A r \in Runner : rpc[r] # "saving"
    BY <1>5 DEF CommitMeta, CommitTx, OneSaver, IsSaving
  <2>2. ItemsIn(db'.of) = ItemsIn(mem.of)
    BY <1>5 DEF CommitMeta, CommitTx, TxHoldsItems
  <2>3. vpc[v] # "idle"
    BY <1>5 DEF CommitMeta, ViewerStep
  <2>4. ~unsaved => ItemsIn(mem.of) = ItemsIn(db.of)
    BY <2>1, <2>3 DEF MemoryHoldsItems, Calm, Blank
  <2>5. TxHoldsItems' /\ MemoryHoldsItems'
    BY <1>1, <1>5, <2>2 DEF CommitMeta, CommitTx, TxHoldsItems, MemoryHoldsItems, NoTx
  <2>6. RunHoldsItems'
    BY <1>1, <2>1, <2>2, <2>4 DEF RunHoldsItems
  <2> QED
    BY <2>2, <2>4, <2>5, <2>6
<1> QED
  BY <1>2, <1>4, <1>5 DEF MetaOf

LEMMA RestartItems ==
  ASSUME ItemsInv, Restart
  PROVE  HeldItems'
<1>1. ItemsIn(mem'.of) = ItemsIn(db'.of) \/ Blank'
  BY HydratedFacts, EmptyTypes DEF ItemsInv, Restart, NoMemory, Blank
<1> QED
  BY <1>1 DEF Restart, HeldItems, TxHoldsItems, MemoryHoldsItems, RunHoldsItems, NoTx, Collecting

LEMMA ItemsStep == ItemsInv /\ [Next]_vars => ItemsInv'
<1> SUFFICES ASSUME ItemsInv, [Next]_vars PROVE ItemsInv'
  OBVIOUS
<1>1. TypeOK' /\ OneSyncAtATime' /\ OneSaver'
  BY TypeStep, SyncMutexStep, SaverStep DEF ItemsInv
<1>2. ASSUME NEW r \in Runner, RequestRun(r) \/ RunOf(r) PROVE HeldItems'
  BY <1>2, QuietRunItems, SavingRunItems, WriteItems DEF RunOf, QuietRun
<1>3. ASSUME NEW v \in Viewer, OpenMeta(v) \/ MetaOf(v) PROVE HeldItems'
  BY <1>3, ViewerItems, WriteItems
<1>4. ASSUME CreateRSSSource \/ DeleteRSSSource \/ UNCHANGED vars PROVE HeldItems'
  <2>1. UNCHANGED <<db, mem, tx, rpc, run, vpc, unsaved>>
    BY <1>4 DEF CreateRSSSource, DeleteRSSSource, viewers, saving, vars
  <2>2. TxHoldsItems'
    BY <2>1 DEF ItemsInv, HeldItems, TxHoldsItems
  <2>3. MemoryHoldsItems'
    BY <2>1 DEF ItemsInv, HeldItems, MemoryHoldsItems, Calm, Blank
  <2>4. RunHoldsItems'
    BY <2>1 DEF ItemsInv, HeldItems, RunHoldsItems
  <2> QED
    BY <2>2, <2>3, <2>4 DEF HeldItems
<1>5. HeldItems'
  BY <1>2, <1>3, <1>4, RestartItems DEF Next
<1> QED
  BY <1>1, <1>5 DEF ItemsInv

THEOREM ItemsInvariant == Spec => []ItemsInv
<1>1. Init => ItemsInv
  BY TypeInit, SaverInit, ItemsInit DEF ItemsInv, Init, OneSyncAtATime, InRun
<1> QED
  BY <1>1, ItemsStep, PTL DEF Spec

\* A step takes no item out of the database unless something licenses it.
LEMMA StoreStep ==
  ItemsInv /\ [Next]_vars =>
    [NothingToDrop => ItemsIn(db.of) \subseteq ItemsIn(db'.of)]_vars
<1> SUFFICES ASSUME ItemsInv, Next, NothingToDrop
             PROVE  ItemsIn(db.of) \subseteq ItemsIn(db'.of)
  OBVIOUS
<1>1. ~unsaved /\ \A r \in Runner : ~run[r].mayDrop
  BY DEF NothingToDrop
<1>2. ASSUME NEW r \in Runner, CommitRun(r)
      PROVE  ItemsIn(db.of) \subseteq ItemsIn(db'.of)
  BY <1>1, <1>2 DEF CommitRun, CommitTx, RunStep, ItemsInv, HeldItems, TxHoldsItems,
                    RunHoldsItems
<1>3. ASSUME NEW r \in Runner, RequestRun(r) \/ RunOf(r), ~CommitRun(r)
      PROVE  db' = db
  BY <1>3 DEF RunOf, RequestRun, AcquireRun, LoadItems, LoadRows, CloneLiveRows, ListSources,
              FetchFeeds, Enrich, Publish, PublishEmpty, BeginRunSave, WriteTx, FailRun,
              RollbackTx, ResetMemory, saving
<1>4. ASSUME NEW v \in Viewer, OpenMeta(v) \/ MetaOf(v)
      PROVE  ItemsIn(db'.of) = ItemsIn(db.of)
  <2>1. CASE WriteTx(v)
    BY <2>1 DEF WriteTx
  <2> QED
    BY <1>1, <1>4, <2>1, ViewerItems
<1>5. ASSUME CreateRSSSource \/ DeleteRSSSource \/ Restart
      PROVE  db' = db
  BY <1>5 DEF CreateRSSSource, DeleteRSSSource, Restart, saving
<1> QED
  BY <1>2, <1>3, <1>4, <1>5 DEF Next

\* Stored items are lost only after a failed read, a failed save or without
\* sources, whatever syncs, viewers, crashes and hydrations do.
THEOREM StoreKeeps == Spec => StoreKeepsItems
BY ItemsInvariant, StoreStep, PTL DEF Spec, StoreKeepsItems

\* Nor does a step other than a restart take one out of memory.
LEMMA ServedStep ==
  ItemsInv /\ [Next]_vars =>
    [NothingToDrop /\ ~Restart => ItemsIn(mem.of) \subseteq ItemsIn(mem'.of)]_vars
<1> SUFFICES ASSUME ItemsInv, Next, NothingToDrop, ~Restart
             PROVE  ItemsIn(mem.of) \subseteq ItemsIn(mem'.of)
  OBVIOUS
<1>1. ~unsaved /\ \A r \in Runner : ~run[r].mayDrop
  BY DEF NothingToDrop
<1>2. ASSUME NEW r \in Runner, Publish(r)
      PROVE  ItemsIn(mem.of) \subseteq ItemsIn(mem'.of)
  <2>1. ItemsIn(mem'.of) = run[r].items
    BY <1>2, PublishItems DEF ItemsInv
  <2>2. Calm
    BY <1>1, <1>2 DEF Calm, Publish, RunStep, ItemsInv, OneSyncAtATime, InRun
  <2>3. ItemsIn(db.of) \subseteq run[r].items
    BY <1>1, <1>2 DEF Publish, RunStep, ItemsInv, HeldItems, RunHoldsItems, Collecting
  <2> QED
    BY <2>1, <2>2, <2>3 DEF ItemsInv, HeldItems, MemoryHoldsItems, Blank
<1>3. ASSUME NEW r \in Runner
      PROVE  ~PublishEmpty(r)
  BY <1>1 DEF PublishEmpty, RunStep, ItemsInv, HeldItems, RunHoldsItems
<1>4. ASSUME NEW p \in Runner \cup Viewer, WriteTx(p)
      PROVE  ItemsIn(mem'.of) = ItemsIn(mem.of)
  BY <1>4, RegroupFacts DEF WriteTx, ItemsInv, TypeOK, Memory
<1>5. ASSUME NEW r \in Runner, QuietRun(r) \/ CommitRun(r) \/ FailRun(r) \/ ResetMemory(r)
      PROVE  mem' = mem
  BY <1>5 DEF QuietRun, RequestRun, AcquireRun, LoadItems, LoadRows, CloneLiveRows,
              ListSources, FetchFeeds, Enrich, CommitRun, FailRun, ResetMemory
<1>6. ASSUME NEW v \in Viewer, OpenMeta(v) \/ (MetaOf(v) /\ ~WriteTx(v))
      PROVE  mem'.of = mem.of
  BY <1>6 DEF OpenMeta, MetaOf, MergeMeta, SkipMeta, PersistMeta, CommitMeta, FailMeta,
              ItemsInv, TypeOK, Memory
<1>7. ASSUME CreateRSSSource \/ DeleteRSSSource
      PROVE  mem' = mem
  BY <1>7 DEF CreateRSSSource, DeleteRSSSource
<1> QED
  BY <1>2, <1>3, <1>4, <1>5, <1>6, <1>7 DEF Next, RunOf, QuietRun

\* What the Stremio handlers serve loses items only for the same reasons.
THEOREM ServedKeeps == Spec => ServedKeepsItems
BY ItemsInvariant, ServedStep, PTL DEF Spec, ServedKeepsItems

----------------------------------------------------------------------------
(* The stored rows, and the agreement of database and memory *)

\* The form of every saved catalog: regrouped, with rows of its series only.
Normal(of, enr) ==
  /\ Regroup(of) = of
  /\ ItemsIn(of) # {} => \A s \in Series \ SeriesIn(of) : enr[s] = {}

LEMMA PersistedIsNormal ==
  ASSUME NEW of, NEW rows \in Rows
  PROVE  Normal(Persisted(of, rows).of, Persisted(of, rows).enr)
<1>1. Persisted(of, rows).of = Regroup(of)
  BY PersistedFacts
<1>2. Persisted(of, rows).enr = IF ItemsIn(Regroup(of)) = {} THEN rows
                                ELSE Prune(rows, SeriesIn(Regroup(of)))
  BY DEF Persisted
<1>3. \A s \in Series \ SeriesIn(Regroup(of)) : Prune(rows, SeriesIn(Regroup(of)))[s] = {}
  BY DEF Prune
<1> QED
  BY <1>1, <1>2, <1>3, RegroupFacts DEF Normal

\* Saving such a catalog again does not change it.
LEMMA NormalIsPersisted ==
  ASSUME NEW of, NEW rows \in Rows, Normal(of, rows), ItemsIn(of) # {}
  PROVE  Persisted(of, rows) = [of |-> of, enr |-> rows]
<1>1. Prune(rows, SeriesIn(of)) = rows
  BY DEF Prune, Normal, Rows
<1> QED
  BY <1>1 DEF Persisted, Normal

\* A save writes the same whether memory was regrouped before it or not.
LEMMA RegroupPersisted ==
  ASSUME NEW of, NEW rows
  PROVE  Persisted(Regroup(of), rows) = Persisted(of, rows)
BY RegroupFacts DEF Persisted

NobodyMerged == \A v \in Viewer : vpc[v] # "merged"

\* Everything stored or about to be is normal, and what is about to be stored
\* is what memory would be saved as, unless a page has just enriched memory.
SavesAreNormal ==
  /\ Normal(db.of, db.enr)
  /\ \A p \in Runner \cup Viewer : tx[p].open =>
       /\ Normal(tx[p].of, tx[p].enr)
       /\ NobodyMerged => [of |-> tx[p].of, enr |-> tx[p].enr] = Persisted(mem.of, mem.enr)

MatchInv == TypeOK /\ OneSaver /\ SavesAreNormal /\ StoreMatchesMemory

LEMMA MatchInit == Init => SavesAreNormal /\ StoreMatchesMemory
<1>1. Regroup(Absent) = Absent
  BY EmptyTypes DEF Regroup, Grouped, Absent
<1> QED
  BY <1>1, EmptyTypes
     DEF Init, SavesAreNormal, Normal, NoTx, StoreMatchesMemory, NoMemory

LEMMA RunMatch ==
  ASSUME MatchInv, NEW r \in Runner, RequestRun(r) \/ (RunOf(r) /\ ~WriteTx(r))
  PROVE  SavesAreNormal' /\ StoreMatchesMemory'
<1> USE ProcessAssumption DEF MatchInv, TypeOK
<1>1. CASE QuietRun(r) \/ ResetMemory(r)
  <2>1. UNCHANGED <<db, mem, tx, saveMu, lastSave, vpc>>
    BY <1>1 DEF QuietRun, RequestRun, AcquireRun, LoadItems, LoadRows, CloneLiveRows,
                ListSources, FetchFeeds, Enrich, ResetMemory, viewers, saving
  <2> QED
    BY <2>1 DEF SavesAreNormal, NobodyMerged, StoreMatchesMemory, Settled
<1>2. CASE Publish(r) \/ PublishEmpty(r)
  <2>1. saveMu = NoOne /\ saveMu' = r /\ UNCHANGED <<db, tx>>
    BY <1>2 DEF Publish, PublishEmpty, BeginRunSave
  <2>2. \A p \in Runner \cup Viewer : ~tx[p].open
    BY <2>1 DEF OneSaver
  <2> QED
    BY <2>1, <2>2 DEF SavesAreNormal, StoreMatchesMemory, Settled
<1>3. CASE CommitRun(r)
  <2>1. tx[r].open /\ db' = [of |-> tx[r].of, enr |-> tx[r].enr]
    BY <1>3 DEF CommitRun, CommitTx
  <2>2. UNCHANGED <<mem, vpc>> /\ \A p \in Runner \cup Viewer : tx'[p] \in {tx[p], NoTx}
    BY <1>3 DEF CommitRun, CommitTx, viewers
  <2> QED
    BY <2>1, <2>2 DEF SavesAreNormal, NobodyMerged, StoreMatchesMemory, Settled, NoTx
<1>4. CASE FailRun(r)
  <2>1. UNCHANGED <<db, mem, vpc>> /\ lastSave' = "failed"
        /\ \A p \in Runner \cup Viewer : tx'[p] \in {tx[p], NoTx}
    BY <1>4 DEF FailRun, RollbackTx, viewers
  <2> QED
    BY <2>1 DEF SavesAreNormal, NobodyMerged, StoreMatchesMemory, Settled, NoTx
<1> QED
  BY <1>1, <1>2, <1>3, <1>4 DEF RunOf, QuietRun

LEMMA WriteMatch ==
  ASSUME MatchInv, NEW p \in Runner \cup Viewer, WriteTx(p)
  PROVE  SavesAreNormal' /\ StoreMatchesMemory'
<1> USE ProcessAssumption DEF MatchInv, TypeOK
<1> DEFINE stored == Persisted(mem.of, mem.enr)
<1>1. stored \in Stored /\ Normal(stored.of, stored.enr)
  BY PersistedFacts, PersistedIsNormal DEF Memory
<1>2. tx'[p].of = stored.of /\ tx'[p].enr = stored.enr
  BY DEF WriteTx
<1>3. mem'.of = Regroup(mem.of) /\ mem'.enr = mem.enr
  BY DEF WriteTx, Memory
<1>4. Persisted(mem'.of, mem'.enr) = stored
  BY <1>3, RegroupPersisted
<1>5. [of |-> tx'[p].of, enr |-> tx'[p].enr] = stored
  BY <1>1, <1>2 DEF Stored
<1>6. db' = db /\ saveMu' = p /\ \A q \in (Runner \cup Viewer) \ {p} : tx'[q] = tx[q] /\ ~tx[q].open
  BY DEF WriteTx, OneSaver
<1> HIDE DEF stored
<1>7. SavesAreNormal'
  BY <1>1, <1>2, <1>4, <1>5, <1>6 DEF SavesAreNormal
<1>8. StoreMatchesMemory'
  BY <1>6 DEF StoreMatchesMemory, Settled
<1> QED
  BY <1>7, <1>8

LEMMA ViewerMatch ==
  ASSUME MatchInv, NEW v \in Viewer, OpenMeta(v) \/ (MetaOf(v) /\ ~WriteTx(v))
  PROVE  SavesAreNormal' /\ StoreMatchesMemory'
<1> USE ProcessAssumption DEF MatchInv, TypeOK
<1>1. CASE OpenMeta(v) \/ SkipMeta(v)
  <2>1. UNCHANGED <<db, mem, tx, saveMu, lastSave>> /\ (NobodyMerged' => NobodyMerged)
    BY <1>1 DEF OpenMeta, SkipMeta, ViewerStep, saving, NobodyMerged
  <2> QED
    BY <2>1 DEF SavesAreNormal, StoreMatchesMemory, Settled, NobodyMerged
<1>2. CASE MergeMeta(v)
  <2>1. UNCHANGED <<db, tx>> /\ vpc'[v] = "merged"
    BY <1>2 DEF MergeMeta, ViewerStep, saving
  <2> QED
    BY <2>1 DEF SavesAreNormal, StoreMatchesMemory, Settled, NobodyMerged
<1>3. CASE PersistMeta(v)
  <2>1. saveMu = NoOne /\ saveMu' = v /\ UNCHANGED <<db, tx>>
    BY <1>3 DEF PersistMeta
  <2>2. \A p \in Runner \cup Viewer : ~tx[p].open
    BY <2>1 DEF OneSaver
  <2> QED
    BY <2>1, <2>2 DEF SavesAreNormal, StoreMatchesMemory, Settled
<1>4. CASE CommitMeta(v)
  <2>1. tx[v].open /\ db' = [of |-> tx[v].of, enr |-> tx[v].enr] /\ mem' = mem
    BY <1>4 DEF CommitMeta, CommitTx
  <2>2. /\ \A p \in Runner \cup Viewer : tx'[p] \in {tx[p], NoTx}
        /\ NobodyMerged' => NobodyMerged
    BY <1>4 DEF CommitMeta, CommitTx, ViewerStep, NobodyMerged
  <2> QED
    BY <2>1, <2>2 DEF SavesAreNormal, NobodyMerged, StoreMatchesMemory, Settled, NoTx
<1>5. CASE FailMeta(v)
  <2>1. /\ UNCHANGED <<db, mem>> /\ lastSave' = "failed"
        /\ \A p \in Runner \cup Viewer : tx'[p] \in {tx[p], NoTx}
        /\ NobodyMerged' => NobodyMerged
    BY <1>5 DEF FailMeta, RollbackTx, ViewerStep, NobodyMerged
  <2> QED
    BY <2>1 DEF SavesAreNormal, StoreMatchesMemory, Settled, NoTx
<1> QED
  BY <1>1, <1>2, <1>3, <1>4, <1>5 DEF MetaOf

LEMMA RestartMatch ==
  ASSUME MatchInv, Restart
  PROVE  SavesAreNormal' /\ StoreMatchesMemory'
<1> USE DEF MatchInv, TypeOK
<1>1. db' = db /\ \A p \in Runner \cup Viewer : ~tx'[p].open
  BY DEF Restart, NoTx
<1>2. SavesAreNormal'
  BY <1>1 DEF SavesAreNormal
<1>3. ItemsIn(mem'.of) # {} => db = Persisted(mem'.of, mem'.enr)
  <2> SUFFICES ASSUME ItemsIn(mem'.of) # {} PROVE db = Persisted(mem'.of, mem'.enr)
    OBVIOUS
  <2>1. mem' = Hydrated /\ ItemsIn(db.of) # {}
    BY EmptyTypes DEF Restart, NoMemory
  <2>2. mem'.of = db.of /\ mem'.enr = db.enr
    BY <2>1 DEF Hydrated, SavesAreNormal, Normal
  <2>3. db = [of |-> db.of, enr |-> db.enr] /\ db.enr \in Rows
    BY DEF Stored
  <2> QED
    BY <2>1, <2>2, <2>3, NormalIsPersisted DEF SavesAreNormal
<1> QED
  BY <1>1, <1>2, <1>3 DEF StoreMatchesMemory

LEMMA MatchStep == MatchInv /\ [Next]_vars => MatchInv'
<1> SUFFICES ASSUME MatchInv, [Next]_vars PROVE MatchInv'
  OBVIOUS
<1>1. TypeOK' /\ OneSaver'
  BY TypeStep, SaverStep DEF MatchInv
<1>2. ASSUME NEW r \in Runner, RequestRun(r) \/ RunOf(r)
      PROVE  SavesAreNormal' /\ StoreMatchesMemory'
  BY <1>2, RunMatch, WriteMatch
<1>3. ASSUME NEW v \in Viewer, OpenMeta(v) \/ MetaOf(v)
      PROVE  SavesAreNormal' /\ StoreMatchesMemory'
  BY <1>3, ViewerMatch, WriteMatch
<1>4. ASSUME CreateRSSSource \/ DeleteRSSSource \/ UNCHANGED vars
      PROVE  SavesAreNormal' /\ StoreMatchesMemory'
  <2>1. UNCHANGED <<db, mem, tx, saveMu, lastSave, vpc>>
    BY <1>4 DEF CreateRSSSource, DeleteRSSSource, viewers, saving, vars
  <2> QED
    BY <2>1 DEF MatchInv, SavesAreNormal, NobodyMerged, StoreMatchesMemory, Settled
<1>5. SavesAreNormal' /\ StoreMatchesMemory'
  BY <1>2, <1>3, <1>4, RestartMatch DEF Next
<1> QED
  BY <1>1, <1>5 DEF MatchInv

THEOREM MatchInvariant == Spec => []MatchInv
<1>1. Init => MatchInv
  BY TypeInit, SaverInit, MatchInit DEF MatchInv
<1> QED
  BY <1>1, MatchStep, PTL DEF Spec

\* With no save under way or owed, database and memory agree.
THEOREM StoreMatches == Spec => []StoreMatchesMemory
<1>1. MatchInv => StoreMatchesMemory
  BY DEF MatchInv
<1> QED
  BY <1>1, MatchInvariant, PTL

\* No stored row is without its series.
THEOREM RowsHaveSeries == Spec => []StoredRowsHaveSeries
<1>1. MatchInv => StoredRowsHaveSeries
  BY DEF MatchInv, SavesAreNormal, Normal, StoredRowsHaveSeries
<1> QED
  BY <1>1, MatchInvariant, PTL

----------------------------------------------------------------------------
(* The published catalog is coherent *)

\* The preference among twins decides between any two.
LEMMA PreferredIsAntisymmetric ==
  ASSUME NEW of, NEW c \in Series, NEW t \in Series, Preferred(of, c, t), Preferred(of, t, c)
  PROVE  c = t
<1>1. ItemCount(of, c) \in Nat /\ ItemCount(of, t) \in Nat
  BY ItemAssumption, FS_Subset, FS_CardinalityType DEF ItemCount
<1>2. c \in Nat /\ t \in Nat
  BY SeriesAssumption
<1> QED
  BY <1>1, <1>2 DEF Preferred

\* The merge leaves one series for each MyAnimeList id.
LEMMA MergedSeriesDiffer ==
  ASSUME NEW of \in Assignment, NEW rows \in Rows, NEW canon \in CanonMaps(of, rows),
         NEW s \in SeriesIn(MergedItems(of, canon)), NEW t \in SeriesIn(MergedItems(of, canon)),
         HasMal(MergedRows(rows, canon), s), HasMal(MergedRows(rows, canon), t),
         MalOf[s] = MalOf[t]
  PROVE  s = t
<1> DEFINE kept == SeriesIn(MergedItems(of, canon))
<1>1. canon \in [Series -> Series] /\ SeriesIn(of) \subseteq Series
  BY SeriesInType DEF CanonMaps
<1>2. \A u \in SeriesIn(of) :
        /\ u \in Twins(of, rows, u) =>
             /\ canon[u] \in Twins(of, rows, u)
             /\ \A w \in Twins(of, rows, u) : Preferred(of, canon[u], w)
        /\ u \notin Twins(of, rows, u) => canon[u] = u
  BY <1>1 DEF CanonMaps
<1>3. \A k \in kept : \E u \in SeriesIn(of) : canon[u] = k
  BY <1>1, SeriesAreNotNone DEF SeriesIn, ItemsIn, MergedItems, Assignment
<1>4. kept \subseteq SeriesIn(of)
  BY <1>2, <1>3 DEF Twins
<1>5. ASSUME NEW k \in kept, HasMal(MergedRows(rows, canon), k)
      PROVE  k \in Twins(of, rows, k)
  <2>1. k \in Series
    BY <1>1, <1>4
  <2>2. PICK u \in Series : canon[u] = k /\ MalField \in rows[u]
    BY <1>5, <2>1 DEF HasMal, MergedRows
  <2>3. MalOf[k] # 0
    BY <1>5 DEF HasMal
  <2>4. CASE u \in Twins(of, rows, u)
    <3>1. canon[u] \in Twins(of, rows, u)
      BY <2>4, <1>2 DEF Twins
    <3> QED
      BY <2>2, <3>1 DEF Twins
  <2>5. CASE u \notin Twins(of, rows, u)
    <3>1. canon[u] = u
      BY <2>5 DEF CanonMaps
    <3> QED
      BY <1>4, <2>2, <2>3, <3>1 DEF Twins, HasMal
  <2> QED
    BY <2>4, <2>5
<1>6. ASSUME NEW k \in kept, k \in Twins(of, rows, k)
      PROVE  canon[k] = k
  <2>1. PICK u \in SeriesIn(of) : canon[u] = k
    BY <1>3
  <2>2. k \in Series /\ canon[k] \in Series
    BY <1>1, <1>4
  <2>3. CASE u \in Twins(of, rows, u)
    <3>1. Twins(of, rows, u) = Twins(of, rows, k)
      BY <1>2, <2>1, <2>3 DEF Twins
    <3>2. Preferred(of, k, canon[k]) /\ Preferred(of, canon[k], k)
      BY <1>2, <1>4, <1>6, <2>1, <2>3, <3>1
    <3> QED
      BY <2>2, <3>2, PreferredIsAntisymmetric
  <2>4. CASE u \notin Twins(of, rows, u)
    BY <1>2, <2>1, <2>4
  <2> QED
    BY <2>3, <2>4
<1>7. s \in Twins(of, rows, s) /\ t \in Twins(of, rows, t)
  BY <1>5
<1>8. Twins(of, rows, s) = Twins(of, rows, t)
  BY <1>7 DEF Twins
<1>9. canon[s] = s /\ canon[t] = t
  BY <1>6, <1>7
<1>10. Preferred(of, s, t) /\ Preferred(of, t, s)
  BY <1>2, <1>4, <1>7, <1>8, <1>9
<1> QED
  BY <1>1, <1>4, <1>10, PreferredIsAntisymmetric

LEMMA NewSnapshotIsCoherent ==
  ASSUME NEW items \in SUBSET Item, NEW rows \in Rows,
         NEW canon \in CanonMaps(Grouped(items), rows)
  PROVE  Coherent(NewSnapshot(items, rows, canon))
<1> DEFINE of == MergedItems(Grouped(items), canon)
           merged == MergedRows(rows, canon)
           m == NewSnapshot(items, rows, canon)
<1>1. m.of = of /\ m.series = SeriesIn(of) /\ m.enr = Prune(merged, SeriesIn(of))
  BY DEF NewSnapshot
<1>2. Grouped(items) \in Assignment /\ canon \in [Series -> Series]
  BY GroupedFacts DEF CanonMaps
<1>3. SeriesIn(of) \subseteq Series
  BY <1>2, MergedFacts, SeriesInType
<1>4. \A s \in Series : m.enr[s] = IF s \in SeriesIn(of) THEN merged[s] ELSE {}
  BY <1>1 DEF Prune
<1>5. ASSUME NEW s \in m.series, NEW t \in m.series,
             HasMal(m.enr, s), HasMal(m.enr, t), MalOf[s] = MalOf[t]
      PROVE  s = t
  <2>1. s \in SeriesIn(of) /\ t \in SeriesIn(of)
    BY <1>1
  <2>2. HasMal(merged, s) /\ HasMal(merged, t)
    BY <1>3, <1>4, <1>5, <2>1 DEF HasMal
  <2> QED
    BY <1>2, <1>5, <2>1, <2>2, MergedSeriesDiffer
<1> HIDE DEF m, of, merged
<1>6. Coherent(m)
  BY <1>1, <1>4, <1>5 DEF Coherent
<1> QED
  BY <1>6 DEF m

LEMMA PublishStep ==
  TypeOK /\ [Next]_vars =>
    [\A r \in Runner : rpc[r] = "publishing" /\ rpc'[r] = "saving" =>
       Coherent(mem') /\ ItemsIn(mem'.of) = run[r].items]_vars
<1> SUFFICES ASSUME TypeOK, Next, NEW r \in Runner,
                    rpc[r] = "publishing", rpc'[r] = "saving"
             PROVE  Coherent(mem') /\ ItemsIn(mem'.of) = run[r].items
  OBVIOUS
<1> USE DEF TypeOK
<1>1. Publish(r)
  <2>1. ASSUME NEW o \in Runner, RequestRun(o) \/ (RunOf(o) /\ ~Publish(o))
        PROVE  FALSE
    BY <2>1 DEF RunOf, RequestRun, AcquireRun, LoadItems, LoadRows, CloneLiveRows,
                ListSources, FetchFeeds, Enrich, PublishEmpty, WriteTx, CommitRun,
                FailRun, ResetMemory, RunStep
  <2>2. ASSUME NEW o \in Runner, Publish(o)
        PROVE  o = r
    BY <2>2 DEF Publish, RunStep
  <2>3. ASSUME NEW v \in Viewer, OpenMeta(v) \/ MetaOf(v)
        PROVE  FALSE
    BY <2>3 DEF OpenMeta, MetaOf, MergeMeta, SkipMeta, PersistMeta, WriteTx, CommitMeta,
                FailMeta
  <2>4. ~CreateRSSSource /\ ~DeleteRSSSource /\ ~Restart
    BY DEF CreateRSSSource, DeleteRSSSource, Restart
  <2> QED
    BY <2>1, <2>2, <2>3, <2>4 DEF Next
<1>2. run[r].items \in SUBSET Item /\ run[r].cache \in Rows
  BY DEF RunLocals
<1>3. PICK canon \in CanonMaps(Grouped(run[r].items), run[r].cache) :
        mem' = NewSnapshot(run[r].items, run[r].cache, canon)
  BY <1>1 DEF Publish, BeginRunSave
<1> QED
  BY <1>2, <1>3, NewSnapshotFacts, NewSnapshotIsCoherent

\* What a sync publishes has no two series of one anime, and a row only for
\* a series of its own list.
THEOREM PublishesCoherent == Spec => PublishedIsCoherent
BY TypeCorrect, PublishStep, PTL DEF Spec, PublishedIsCoherent

----------------------------------------------------------------------------
(* The merge of twins is always possible, and has one outcome *)

Below == {p \in Nat \X Nat : p[1] < p[2]}

LEMMA BelowIsWellFounded == IsWellFoundedOn(Below, Nat)
<1>1. Below = OpToRel(<, Nat)
  BY DEF Below, OpToRel
<1> QED
  BY <1>1, NatLessThanWellFounded DEF OpToRel, Below

LEMMA LeastNumber ==
  ASSUME NEW T \in SUBSET Nat, T # {}
  PROVE  \E x \in T : \A y \in T : x <= y
<1>1. PICK x \in T : \A y \in T : <<y, x>> \notin Below
  BY BelowIsWellFounded, WFMin
<1>2. \A y \in T : ~(y < x)
  BY <1>1 DEF Below
<1> QED
  BY <1>2

\* Among any series there is one that is preferred to all of them.
LEMMA SomeIsPreferred ==
  ASSUME NEW of, NEW T \in SUBSET Series, T # {}
  PROVE  \E c \in T : \A t \in T : Preferred(of, c, t)
<1> DEFINE n == Cardinality(Item)
           Missing(t) == n - ItemCount(of, t)
           gaps == {Missing(t) : t \in T}
<1>1. \A t \in T : ItemCount(of, t) \in Nat /\ ItemCount(of, t) <= n /\ n \in Nat
  BY ItemAssumption, FS_Subset, FS_CardinalityType DEF ItemCount
<1>2. gaps \in SUBSET Nat /\ gaps # {}
  BY <1>1
<1>3. PICK d \in gaps : \A e \in gaps : d <= e
  BY <1>2, LeastNumber
<1> DEFINE most == {t \in T : Missing(t) = d}
<1>4. most \in SUBSET Nat /\ most # {}
  BY <1>3, SeriesAssumption
<1>5. PICK c \in most : \A t \in most : c <= t
  BY <1>4, LeastNumber
<1>6. ASSUME NEW t \in T PROVE Preferred(of, c, t)
  <2>1. Missing(c) = d /\ d <= Missing(t)
    BY <1>3, <1>5
  <2>2. ItemCount(of, t) <= ItemCount(of, c)
    BY <1>1, <1>5, <2>1
  <2>3. ItemCount(of, t) = ItemCount(of, c) => t \in most
    BY <2>1
  <2> QED
    BY <1>1, <1>5, <2>2, <2>3 DEF Preferred
<1> QED
  BY <1>5, <1>6

\* MergeSnapshotSeriesBySharedMalID always has a canonical series for every
\* series, and no choice among them: which series keeps the items follows from
\* what the sync collected, whatever the order in which Go walks the map of
\* groups, and the merge never keeps a sync from publishing.
THEOREM MergeIsDetermined ==
  ASSUME NEW of \in Assignment, NEW rows \in Rows
  PROVE  \E canon \in [Series -> Series] : CanonMaps(of, rows) = {canon}
<1> DEFINE Best(s, c) ==
             /\ c \in Twins(of, rows, s)
             /\ \A t \in Twins(of, rows, s) : Preferred(of, c, t)
           canon == [s \in Series |->
                       IF s \in Twins(of, rows, s) THEN CHOOSE c \in Series : Best(s, c) ELSE s]
<1>1. \A s \in Series : Twins(of, rows, s) \in SUBSET Series
  BY SeriesInType DEF Twins
<1>2. ASSUME NEW s \in Series, s \in Twins(of, rows, s)
      PROVE  \E c \in Series : Best(s, c)
  BY <1>1, <1>2, SomeIsPreferred
<1>3. \A s \in Series : s \in Twins(of, rows, s) => canon[s] \in Series /\ Best(s, canon[s])
  BY <1>2
<1>4. canon \in [Series -> Series]
  BY <1>3
<1>5. canon \in CanonMaps(of, rows)
  BY <1>3, <1>4 DEF CanonMaps
<1>6. ASSUME NEW other \in CanonMaps(of, rows)
      PROVE  other = canon
  <2>1. other \in [Series -> Series]
    BY DEF CanonMaps
  <2>2. ASSUME NEW s \in Series PROVE other[s] = canon[s]
    <3>1. CASE s \in Twins(of, rows, s)
      <4>1. Best(s, other[s]) /\ Best(s, canon[s])
        BY <1>3, <3>1 DEF CanonMaps
      <4>2. Preferred(of, other[s], canon[s]) /\ Preferred(of, canon[s], other[s])
        BY <4>1
      <4> QED
        BY <1>4, <2>1, <4>2, PreferredIsAntisymmetric
    <3>2. CASE s \notin Twins(of, rows, s)
      BY <3>2 DEF CanonMaps
    <3> QED
      BY <3>1, <3>2
  <2> QED
    BY <1>4, <2>1, <2>2
<1> HIDE DEF canon
<1> QED
  BY <1>4, <1>5, <1>6

\* Merging twice is merging once: on its own result MergeSnapshotSeriesBySharedMalID
\* moves no item and joins no rows.  Its one round leaves nothing for a second one,
\* though it counts items and looks at ids before it moves anything.
THEOREM MergeIsIdempotent ==
  ASSUME NEW of \in Assignment, NEW rows \in Rows, NEW canon \in CanonMaps(of, rows),
         NEW again \in CanonMaps(MergedItems(of, canon), MergedRows(rows, canon))
  PROVE  /\ MergedItems(MergedItems(of, canon), again) = MergedItems(of, canon)
         /\ MergedRows(MergedRows(rows, canon), again) = MergedRows(rows, canon)
<1> DEFINE of2 == MergedItems(of, canon)
           rows2 == MergedRows(rows, canon)
<1>1. canon \in [Series -> Series] /\ again \in [Series -> Series]
  BY DEF CanonMaps
<1>2. of2 \in Assignment /\ rows2 \in Rows
  BY <1>1, MergedFacts
<1>3. ASSUME NEW s \in Series PROVE again[s] = s
  <2>1. CASE s \in Twins(of2, rows2, s)
    <3>1. again[s] \in Twins(of2, rows2, s)
      BY <2>1 DEF CanonMaps
    <3>2. /\ s \in SeriesIn(of2) /\ again[s] \in SeriesIn(of2)
          /\ HasMal(rows2, s) /\ HasMal(rows2, again[s]) /\ MalOf[again[s]] = MalOf[s]
      BY <2>1, <3>1 DEF Twins
    <3> HIDE DEF of2, rows2
    <3> QED
      BY <3>2, MergedSeriesDiffer DEF of2, rows2
  <2>2. CASE s \notin Twins(of2, rows2, s)
    BY <2>2 DEF CanonMaps
  <2> QED
    BY <2>1, <2>2
<1> HIDE DEF of2, rows2
<1>4. MergedItems(of2, again) = of2
  BY <1>2, <1>3 DEF MergedItems, Assignment
<1>5. \A s \in Series : {u \in Series : again[u] = s} = {s}
  BY <1>3
<1>6. \A s \in Series : UNION {rows2[t] : t \in {u \in Series : again[u] = s}} = rows2[s]
  BY <1>5
<1>7. MergedRows(rows2, again) = rows2
  BY <1>2, <1>6 DEF MergedRows, Rows
<1> QED
  BY <1>4, <1>7 DEF of2, rows2

\* Saving what a load returned stores the same again: series, grouping and rows
\* survive any number of restarts, and with no item left so do the rows that
\* only items_json has.
THEOREM SavesAreStable ==
  ASSUME NEW of, NEW rows \in Rows
  PROVE  Persisted(Persisted(of, rows).of, Persisted(of, rows).enr) = Persisted(of, rows)
<1> DEFINE saved == Persisted(of, rows)
<1>1. saved = [of |-> Regroup(of), enr |-> saved.enr]
  BY DEF Persisted
<1>2. saved.enr \in Rows /\ Normal(saved.of, saved.enr)
  BY PersistedIsNormal, PersistedFacts DEF Stored
<1>3. CASE ItemsIn(saved.of) # {}
  BY <1>1, <1>2, <1>3, NormalIsPersisted
<1>4. CASE ItemsIn(saved.of) = {}
  <2>1. Regroup(saved.of) = saved.of
    BY <1>2 DEF Normal
  <2>2. Persisted(saved.of, saved.enr) = [of |-> saved.of, enr |-> saved.enr]
    BY <1>4, <2>1 DEF Persisted
  <2> QED
    BY <1>1, <2>2
<1> QED
  BY <1>3, <1>4

============================================================================
