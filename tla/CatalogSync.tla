---------------------------- MODULE CatalogSync ----------------------------
(***************************************************************************)
(* The catalog of GoAnimes: one sync (RSSSyncService.Run) at a time        *)
(* rebuilds it from the RSS feeds, CatalogStore keeps it in memory for the *)
(* Stremio handlers, the database keeps it across restarts.  The /meta     *)
(* handlers enrich single series in memory and persist the whole catalog   *)
(* while a sync may be running.  Loads and saves can fail, and the process *)
(* can die between any two steps.                                          *)
(*                                                                         *)
(* A catalog is its items and the series each belongs to (of), the series  *)
(* list of the Discover page (series) and one metadata row per series      *)
(* (enr), a row being the set of fields that are filled.                   *)
(***************************************************************************)
EXTENDS Naturals, FiniteSets

CONSTANTS
  Item,          \* catalog items, by the stable id made from the RSS guid
  Series,        \* Stremio series ids, numbered in lexicographic order
  SeriesOf,      \* the series an item's title parses to
  MalOf,         \* the MyAnimeList id of a series, 0 when it has none
  Field,         \* the fields of a metadata row
  MalField,      \* the field that holds the MyAnimeList id
  AniListField,  \* the fields an AniList answer fills
  Source,        \* RSS source URLs
  Runner,        \* goroutines that call Run: sync loop, rebuild, start-up
  Viewer,        \* goroutines that serve a Stremio /meta request
  NoOne,         \* the holder of a free mutex
  LoadFaults,    \* whether reads of the database may fail
  SaveFaults     \* whether a save transaction may fail

ASSUME ItemAssumption == IsFiniteSet(Item)
ASSUME SeriesAssumption == Series \subseteq Nat \ {0}
ASSUME SeriesOfAssumption == SeriesOf \in [Item -> Series]
ASSUME MalOfAssumption == MalOf \in [Series -> Nat]
ASSUME FieldAssumption == MalField \in Field /\ AniListField \subseteq Field
ASSUME ProcessAssumption ==
  /\ Runner \cap Viewer = {}
  /\ NoOne \notin Runner \cup Viewer
ASSUME FaultAssumption == LoadFaults \in BOOLEAN /\ SaveFaults \in BOOLEAN

VARIABLES
  sources,  \* table rss_sources
  db,       \* the stored catalog, as LoadCatalogSnapshot returns it
  mem,      \* CatalogStore.snap
  runMu,    \* holder of RSSSyncService.mu
  saveMu,   \* holder of CatalogStore.saveMu
  tx,       \* what a save has written and not yet committed
  rpc, run, \* where each runner is in Run, and its local variables
  vpc, vs,  \* where each viewer is in getMeta, and its series
  unsaved,  \* history: a sync's save failed and no sync has saved since
  lastSave  \* history: the outcome of the last save of anyone

vars == <<sources, db, mem, runMu, saveMu, tx, rpc, run, vpc, vs,
          unsaved, lastSave>>

viewers == <<vpc, vs>>
saving == <<db, tx, saveMu, unsaved, lastSave>>

----------------------------------------------------------------------------
(* Catalogs.  An item that is not in the catalog has series None. *)

None == 0
Absent == [i \in Item |-> None]
NoRows == [s \in Series |-> {}]

Assignment == [Item -> Series \cup {None}]
Rows == [Series -> SUBSET Field]
Stored == [of : Assignment, enr : Rows]
NoTx == [of |-> Absent, enr |-> NoRows, open |-> FALSE]
Tx == [of : Assignment, enr : Rows, open : BOOLEAN]

ItemsIn(of) == {i \in Item : of[i] # None}
SeriesIn(of) == {of[i] : i \in ItemsIn(of)}

\* AssignSeriesFields: every item goes to the series its title parses to.
Grouped(items) == [i \in Item |-> IF i \in items THEN SeriesOf[i] ELSE None]
Regroup(of) == Grouped(ItemsIn(of))

\* Metadata of series outside S is dropped.
Prune(rows, S) == [s \in Series |-> IF s \in S THEN rows[s] ELSE {}]

\* MergeAniListEnrichment: add fills the fields that are still empty.
MergeRow(row, add) == row \cup add

\* What the database returns after a save of items `of' with metadata rows:
\* the rows of stored series, or all of them, in items_json, when
\* series_enrichment stays empty because no series is stored.
PersistedAllRows(of, rows) == [of |-> Regroup(of), enr |-> rows]
Persisted(of, rows) ==
  LET grouped == Regroup(of)
  IN  [of  |-> grouped,
       enr |-> IF ItemsIn(grouped) = {} THEN rows
                                        ELSE Prune(rows, SeriesIn(grouped))]

----------------------------------------------------------------------------
(* MergeSnapshotSeriesBySharedMalID *)

HasMal(rows, s) == MalField \in rows[s] /\ MalOf[s] # 0

\* The series that have items and share the MyAnimeList id of s.
Twins(of, rows, s) ==
  {t \in SeriesIn(of) : HasMal(rows, t) /\ HasMal(rows, s) /\ MalOf[t] = MalOf[s]}

ItemCount(of, s) == Cardinality({i \in Item : of[i] = s})

\* Most items first, then the smallest id.
Preferred(of, c, t) ==
  \/ ItemCount(of, c) > ItemCount(of, t)
  \/ ItemCount(of, c) = ItemCount(of, t) /\ c <= t

\* The maps from each series to the canonical one of its twins (there is one).
CanonMaps(of, rows) ==
  {canon \in [Series -> Series] :
     \A s \in Series :
       IF s \in Twins(of, rows, s)
       THEN /\ canon[s] \in Twins(of, rows, s)
            /\ \A t \in Twins(of, rows, s) : Preferred(of, canon[s], t)
       ELSE canon[s] = s}

MergedItems(of, canon) == [i \in Item |-> IF of[i] = None THEN None ELSE canon[of[i]]]
MergedRows(rows, canon) ==
  [s \in Series |-> UNION {rows[t] : t \in {u \in Series : canon[u] = s}}]

----------------------------------------------------------------------------
RunPc == {"idle", "waiting", "locked", "itemsLoaded", "rowsLoaded", "cloned",
          "fetching", "enriching", "publishing", "emptying", "saving", "resetting"}
ViewerPc == {"idle", "fetching", "merged", "saving"}

\* The local variables of one Run.  mayDrop is history: this run may publish
\* fewer items than are stored, since its read of them failed or no source
\* is registered.
RunLocals == [items : SUBSET Item, cache : Rows, mayDrop : BOOLEAN]
NoRun == [items |-> {}, cache |-> NoRows, mayDrop |-> FALSE]

Memory == [of : Assignment, series : SUBSET Series, enr : Rows]
NoMemory == [of |-> Absent, series |-> {}, enr |-> NoRows]

TypeOK ==
  /\ sources \subseteq Source
  /\ db \in Stored
  /\ mem \in Memory
  /\ runMu \in Runner \cup {NoOne}
  /\ saveMu \in Runner \cup Viewer \cup {NoOne}
  /\ tx \in [Runner \cup Viewer -> Tx]
  /\ rpc \in [Runner -> RunPc]
  /\ run \in [Runner -> RunLocals]
  /\ vpc \in [Viewer -> ViewerPc]
  /\ vs \in [Viewer -> Series \cup {None}]
  /\ \A v \in Viewer : vpc[v] # "idle" => vs[v] \in Series
  /\ unsaved \in BOOLEAN
  /\ lastSave \in {"ok", "failed"}

\* First start with an empty database.
Init ==
  /\ sources = {}
  /\ db = [of |-> Absent, enr |-> NoRows]
  /\ mem = NoMemory
  /\ runMu = NoOne
  /\ saveMu = NoOne
  /\ tx = [p \in Runner \cup Viewer |-> NoTx]
  /\ rpc = [r \in Runner |-> "idle"]
  /\ run = [r \in Runner |-> NoRun]
  /\ vpc = [v \in Viewer |-> "idle"]
  /\ vs = [v \in Viewer |-> None]
  /\ unsaved = FALSE
  /\ lastSave = "ok"

----------------------------------------------------------------------------
(* RSSSyncService.Run *)

RunStep(r, from, to) == rpc[r] = from /\ rpc' = [rpc EXCEPT ![r] = to]

\* A ticker fires, or POST /sync/rebuild starts a goroutine.
RequestRun(r) ==
  /\ RunStep(r, "idle", "waiting")
  /\ UNCHANGED <<sources, mem, runMu, run, viewers, saving>>

AcquireUnlocked(r) ==
  /\ RunStep(r, "waiting", "locked")
  /\ runMu' = r
  /\ UNCHANGED <<sources, mem, run, viewers, saving>>
AcquireRun(r) ==
  /\ runMu = NoOne
  /\ RunStep(r, "waiting", "locked")
  /\ runMu' = r
  /\ UNCHANGED <<sources, mem, run, viewers, saving>>

\* The error of LoadCatalogSnapshot is dropped: after a failed read of the
\* items the run goes on from an empty catalog, with no row loaded either.
LoadItems(r) ==
  \/ /\ RunStep(r, "locked", "itemsLoaded")
     /\ run' = [run EXCEPT ![r].items = ItemsIn(db.of)]
     /\ UNCHANGED <<sources, mem, runMu, viewers, saving>>
  \/ /\ LoadFaults
     /\ RunStep(r, "locked", "rowsLoaded")
     /\ run' = [run EXCEPT ![r].mayDrop = TRUE]
     /\ UNCHANGED <<sources, mem, runMu, viewers, saving>>

\* The statements of a load are not one transaction: the rows may be newer
\* than the items.
LoadRows(r) ==
  /\ RunStep(r, "itemsLoaded", "rowsLoaded")
  /\ \/ run' = [run EXCEPT ![r].cache = db.enr]
     \/ LoadFaults /\ run' = run
  /\ UNCHANGED <<sources, mem, runMu, viewers, saving>>

CloneLiveRows(r) ==
  /\ RunStep(r, "rowsLoaded", "cloned")
  /\ run' = [run EXCEPT ![r].cache =
               [s \in Series |-> MergeRow(run[r].cache[s], mem.enr[s])]]
  /\ UNCHANGED <<sources, mem, runMu, viewers, saving>>

ListErrorAsEmpty(r) ==
  /\ \/ sources # {} /\ RunStep(r, "cloned", "fetching")
     \/ (sources = {} \/ LoadFaults) /\ RunStep(r, "cloned", "emptying")
  /\ run' = [run EXCEPT ![r].mayDrop = @ \/ sources = {}]
  /\ UNCHANGED <<sources, mem, runMu, viewers, saving>>
\* A list of sources that cannot be read ends the run and leaves all as it was.
ListSources(r) ==
  \/ /\ sources # {}
     /\ RunStep(r, "cloned", "fetching")
     /\ UNCHANGED <<sources, mem, runMu, run, viewers, saving>>
  \/ /\ sources = {}
     /\ RunStep(r, "cloned", "emptying")
     /\ run' = [run EXCEPT ![r].mayDrop = TRUE]
     /\ UNCHANGED <<sources, mem, runMu, viewers, saving>>
  \/ /\ LoadFaults
     /\ RunStep(r, "cloned", "idle")
     /\ runMu' = NoOne
     /\ run' = [run EXCEPT ![r] = NoRun]
     /\ UNCHANGED <<sources, mem, viewers, saving>>

\* MergeCatalogItemsByID: what the feeds no longer show stays.
DropStale(prev, incoming) == incoming
MergeItems(prev, incoming) == prev \cup incoming

\* The main feeds and the per-anime feeds they lead to.  A feed shows whatever
\* it shows when it is asked, and adds nothing when its GET or parse fails, when
\* it is past the cap, or when the run's time is up: incoming is any set.
FetchFeeds(r) ==
  /\ RunStep(r, "fetching", "enriching")
  /\ \E incoming \in SUBSET Item :
       run' = [run EXCEPT ![r].items = MergeItems(run[r].items, incoming)]
  /\ UNCHANGED <<sources, mem, runMu, viewers, saving>>

\* What the providers can make of a row: a successful AniList lookup replaces
\* it, the others fill fields that are still empty.
EnrichedRows(row) == {base \cup add : base \in {row, AniListField}, add \in SUBSET Field}

Enrich(r) ==
  LET listed == SeriesIn(Grouped(run[r].items))
  IN  /\ RunStep(r, "enriching", "publishing")
      /\ \E c \in Rows :
           /\ \A s \in Series :
                IF s \in listed THEN c[s] \in EnrichedRows(run[r].cache[s])
                                ELSE c[s] = run[r].cache[s]
           /\ run' = [run EXCEPT ![r].cache = c]
      /\ UNCHANGED <<sources, mem, runMu, viewers, saving>>

\* CatalogStore.mu is read-locked while a viewer's save runs.
MemReadLocked == \E v \in Viewer : vpc[v] = "saving"

\* SetAndPersist up to the save: the new catalog is in memory before it is
\* in the database.
BeginRunSave(r, newMem) ==
  /\ saveMu = NoOne
  /\ ~MemReadLocked
  /\ mem' = newMem
  /\ saveMu' = r
  /\ UNCHANGED <<sources, db, tx, runMu, run, viewers, unsaved, lastSave>>

\* Run's snapshot after the MAL merge: its series list is what its items
\* belong to, and rows of other series are gone.
SnapshotUnpruned(items, rows, canon) ==
  LET of == MergedItems(Grouped(items), canon)
  IN  [of |-> of, series |-> SeriesIn(of), enr |-> MergedRows(rows, canon)]
NewSnapshot(items, rows, canon) ==
  LET of == MergedItems(Grouped(items), canon)
  IN  [of |-> of, series |-> SeriesIn(of),
       enr |-> Prune(MergedRows(rows, canon), SeriesIn(of))]

Publish(r) ==
  /\ RunStep(r, "publishing", "saving")
  /\ \E canon \in CanonMaps(Grouped(run[r].items), run[r].cache) :
       BeginRunSave(r, NewSnapshot(run[r].items, run[r].cache, canon))

\* No source is registered: no item is kept, every row is.
PublishEmpty(r) ==
  /\ RunStep(r, "emptying", "saving")
  /\ BeginRunSave(r, [NoMemory EXCEPT !.enr = run[r].cache])

----------------------------------------------------------------------------
(* SaveCatalogSnapshot, for the sync and for the viewers *)

IsSaving(p) == \/ p \in Runner /\ rpc[p] = "saving"
               \/ p \in Viewer /\ vpc[p] = "saving"

\* The statements of the transaction.  EnsureSnapshotGrouped works on the
\* slice that memory holds too, so the items of memory are regrouped with it.
WriteTx(p) ==
  /\ IsSaving(p)
  /\ ~tx[p].open
  /\ LET stored == Persisted(mem.of, mem.enr)
     IN  tx' = [tx EXCEPT ![p] = [of |-> stored.of, enr |-> stored.enr, open |-> TRUE]]
  /\ mem' = [mem EXCEPT !.of = Regroup(mem.of)]
  /\ UNCHANGED <<sources, db, runMu, saveMu, rpc, run, viewers, unsaved, lastSave>>

\* COMMIT, and the release of saveMu.
CommitTx(p) ==
  /\ tx[p].open
  /\ db' = [of |-> tx[p].of, enr |-> tx[p].enr]
  /\ tx' = [tx EXCEPT ![p] = NoTx]
  /\ saveMu' = NoOne
  /\ lastSave' = "ok"

\* BEGIN, a statement or COMMIT fails: what was written is rolled back.
RollbackKeepingLock(p) ==
  /\ SaveFaults
  /\ tx' = [tx EXCEPT ![p] = NoTx]
  /\ lastSave' = "failed"
  /\ UNCHANGED <<db, saveMu>>
RollbackTx(p) ==
  /\ SaveFaults
  /\ tx' = [tx EXCEPT ![p] = NoTx]
  /\ saveMu' = NoOne
  /\ lastSave' = "failed"
  /\ UNCHANGED db

CommitRun(r) ==
  /\ RunStep(r, "saving", "idle")
  /\ CommitTx(r)
  /\ run' = [run EXCEPT ![r] = NoRun]
  /\ runMu' = NoOne
  /\ unsaved' = FALSE
  /\ UNCHANGED <<sources, mem, viewers>>

FailRun(r) ==
  /\ RunStep(r, "saving", "resetting")
  /\ RollbackTx(r)
  /\ unsaved' = TRUE
  /\ UNCHANGED <<sources, mem, runMu, run, viewers>>

\* After a failed save Run sets memory again, to the snapshot it already
\* holds (only the error lines differ), and returns.
ResetMemory(r) ==
  /\ ~MemReadLocked
  /\ RunStep(r, "resetting", "idle")
  /\ run' = [run EXCEPT ![r] = NoRun]
  /\ runMu' = NoOne
  /\ UNCHANGED <<sources, mem, viewers, saving>>

----------------------------------------------------------------------------
(* getMeta: lazy enrichment of one series, then a save of the catalog *)

ViewerStep(v, from, to) == vpc[v] \in from /\ vpc' = [vpc EXCEPT ![v] = to]

\* A series that memory does not hold is a 404.
OpenUnknownMeta(v) ==
  /\ ViewerStep(v, {"idle"}, "fetching")
  /\ \E s \in Series \cup {None} : vs' = [vs EXCEPT ![v] = s]
  /\ UNCHANGED <<sources, mem, runMu, rpc, run, saving>>
OpenUnlistedMeta(v) ==
  /\ ViewerStep(v, {"idle"}, "fetching")
  /\ \E s \in Series : vs' = [vs EXCEPT ![v] = s]
  /\ UNCHANGED <<sources, mem, runMu, rpc, run, saving>>
OpenMeta(v) ==
  /\ ViewerStep(v, {"idle"}, "fetching")
  /\ \E s \in mem.series \cup SeriesIn(mem.of) : vs' = [vs EXCEPT ![v] = s]
  /\ UNCHANGED <<sources, mem, runMu, rpc, run, saving>>

\* A provider answered: its fields go into the row in memory.  A request makes
\* several such calls before it saves.
MergeMeta(v) ==
  /\ ~MemReadLocked
  /\ ViewerStep(v, {"fetching", "merged"}, "merged")
  /\ \E add \in SUBSET Field :
       mem' = [mem EXCEPT !.enr[vs[v]] = MergeRow(mem.enr[vs[v]], add)]
  /\ UNCHANGED <<sources, runMu, rpc, run, vs, saving>>

\* No provider answered: nothing to save.
SkipMeta(v) ==
  /\ ViewerStep(v, {"fetching"}, "idle")
  /\ vs' = [vs EXCEPT ![v] = None]
  /\ UNCHANGED <<sources, mem, runMu, rpc, run, saving>>

\* PersistSnapshot takes saveMu, and mu for reading, until the save is over.
PersistUnserialized(v) ==
  /\ ViewerStep(v, {"merged"}, "saving")
  /\ saveMu' = v
  /\ UNCHANGED <<sources, mem, runMu, rpc, run, vs, db, tx, unsaved, lastSave>>
PersistMeta(v) ==
  /\ saveMu = NoOne
  /\ ViewerStep(v, {"merged"}, "saving")
  /\ saveMu' = v
  /\ UNCHANGED <<sources, mem, runMu, rpc, run, vs, db, tx, unsaved, lastSave>>

CommitMeta(v) ==
  /\ ViewerStep(v, {"saving"}, "idle")
  /\ CommitTx(v)
  /\ vs' = [vs EXCEPT ![v] = None]
  /\ UNCHANGED <<sources, mem, runMu, rpc, run, unsaved>>

\* A failed save of a viewer is logged and forgotten.
FailMeta(v) ==
  /\ ViewerStep(v, {"saving"}, "idle")
  /\ RollbackTx(v)
  /\ vs' = [vs EXCEPT ![v] = None]
  /\ UNCHANGED <<sources, mem, runMu, rpc, run, unsaved>>

----------------------------------------------------------------------------
(* The administrator, the process *)

CreateRSSSource ==
  /\ \E src \in Source \ sources : sources' = sources \cup {src}
  /\ UNCHANGED <<mem, runMu, rpc, run, viewers, saving>>

DeleteRSSSource ==
  /\ \E src \in sources : sources' = sources \ {src}
  /\ UNCHANGED <<mem, runMu, rpc, run, viewers, saving>>

\* HydrateCatalogStore: a load that fails or has no item leaves memory empty.
Hydrated == [of |-> Regroup(db.of), series |-> SeriesIn(Regroup(db.of)), enr |-> db.enr]

\* The process dies, at any step, and starts again: open transactions are
\* rolled back, memory is rebuilt from the database.
Restart ==
  /\ \/ mem' = IF ItemsIn(db.of) = {} THEN NoMemory ELSE Hydrated
     \/ LoadFaults /\ mem' = NoMemory
  /\ runMu' = NoOne
  /\ saveMu' = NoOne
  /\ tx' = [p \in Runner \cup Viewer |-> NoTx]
  /\ rpc' = [r \in Runner |-> "idle"]
  /\ run' = [r \in Runner |-> NoRun]
  /\ vpc' = [v \in Viewer |-> "idle"]
  /\ vs' = [v \in Viewer |-> None]
  /\ unsaved' = FALSE
  /\ lastSave' = "ok"
  /\ UNCHANGED <<sources, db>>

RunOf(r) ==
  \/ AcquireRun(r) \/ LoadItems(r) \/ LoadRows(r) \/ CloneLiveRows(r)
  \/ ListSources(r) \/ FetchFeeds(r) \/ Enrich(r)
  \/ Publish(r) \/ PublishEmpty(r) \/ WriteTx(r) \/ CommitRun(r) \/ FailRun(r)
  \/ ResetMemory(r)

MetaOf(v) ==
  \/ MergeMeta(v) \/ SkipMeta(v) \/ PersistMeta(v) \/ WriteTx(v)
  \/ CommitMeta(v) \/ FailMeta(v)

Next ==
  \/ \E r \in Runner : RequestRun(r) \/ RunOf(r)
  \/ \E v \in Viewer : OpenMeta(v) \/ MetaOf(v)
  \/ CreateRSSSource \/ DeleteRSSSource
  \/ Restart

Spec == Init /\ [][Next]_vars

\* Every started handler takes its next step, and a lock that is free again
\* and again is not refused forever (a waiting Go mutex becomes first in line
\* after a millisecond).  Nobody is obliged to ask for a sync or a page.
Fairness ==
  /\ \A r \in Runner :
       /\ WF_vars(RunOf(r))
       /\ SF_vars(AcquireRun(r))
       /\ SF_vars(Publish(r) \/ PublishEmpty(r))
       /\ SF_vars(ResetMemory(r))
  /\ \A v \in Viewer : WF_vars(MetaOf(v)) /\ SF_vars(PersistMeta(v))

LiveSpec == Spec /\ Fairness

----------------------------------------------------------------------------
(* Properties *)

InRun(r) == rpc[r] \notin {"idle", "waiting"}

\* At most one goroutine is inside Run, and it holds RSSSyncService.mu.
OneSyncAtATime == \A r \in Runner : InRun(r) => runMu = r

\* Nothing licenses a loss of items: no sync's save has failed since the last
\* one that succeeded, and no running sync starts from a failed read or
\* without sources.
NothingToDrop == ~unsaved /\ \A r \in Runner : ~run[r].mayDrop

\* A mutex is held by who is where the code releases it, and CatalogStore.mu is
\* read-locked only by the viewer that holds saveMu.  Locks are waited for in
\* the order runMu, saveMu, mu, and who saves waits for none: nobody waits in a
\* circle, or for a goroutine that is gone.
LocksHaveOwners ==
  /\ runMu # NoOne => InRun(runMu)
  /\ saveMu # NoOne => IsSaving(saveMu)
  /\ MemReadLocked => saveMu \in Viewer

\* The syncs of CatalogSync are those of SyncService, as SyncScheduler's are.
Waiting == {r \in Runner : rpc[r] = "waiting"}
Inside == IF \E r \in Runner : InRun(r) THEN CHOOSE r \in Runner : InRun(r) ELSE NoOne
Service == INSTANCE SyncService WITH
  Job     <- Runner,
  NoJob   <- NoOne,
  Entry   <- Item,
  asked   <- Waiting,
  serving <- Inside,
  stored  <- ItemsIn(db.of),
  served  <- ItemsIn(mem.of),
  excused <- ~NothingToDrop

\* At most one sync runs, each after its request; with pages saving between its
\* steps and loads and saves that fail, what it publishes has all that is
\* stored, only published items get stored, and a page's save changes no item
\* that is stored, unless something licenses a loss.
ImplementsService == Service!Spec

\* No step of a sync, of a viewer's save, of a crash or of a restart (a failed
\* hydration included) takes an item out of the database, unless a failed read,
\* a failed save or an empty source list explains it.
StoreKeepsItems ==
  [][NothingToDrop => ItemsIn(db.of) \subseteq ItemsIn(db'.of)]_vars

\* Likewise for what the Stremio handlers serve; a restart goes back to what is
\* stored.
ServedKeepsItems ==
  [][NothingToDrop /\ ~Restart => ItemsIn(mem.of) \subseteq ItemsIn(mem'.of)]_vars

\* When no save is under way or owed and the last one succeeded, the database
\* holds exactly what memory holds: saves of syncs and viewers never overwrite
\* a newer catalog by an older one.  (A restart that finds no item, or cannot
\* read, leaves memory empty.)
Settled == saveMu = NoOne /\ lastSave = "ok" /\ \A v \in Viewer : vpc[v] # "merged"
StoreMatchesMemory ==
  Settled /\ ItemsIn(mem.of) # {} => db = Persisted(mem.of, mem.enr)

\* Stored metadata rows belong to stored series (the foreign key of
\* series_enrichment), though viewers enrich series that a sync has dropped.
StoredRowsHaveSeries ==
  ItemsIn(db.of) # {} => \A s \in Series \ SeriesIn(db.of) : db.enr[s] = {}

\* The catalog a sync publishes is coherent: the items it collected, a series
\* list that is exactly what they belong to, no row of another series, and no
\* two series with one MyAnimeList id.
Coherent(m) ==
  /\ m.series = SeriesIn(m.of)
  /\ \A s \in Series \ m.series : m.enr[s] = {}
  /\ \A s, t \in m.series :
       HasMal(m.enr, s) /\ HasMal(m.enr, t) /\ MalOf[s] = MalOf[t] => s = t
PublishedIsCoherent ==
  [][\A r \in Runner : rpc[r] = "publishing" /\ rpc'[r] = "saving" =>
       Coherent(mem') /\ ItemsIn(mem'.of) = run[r].items]_vars

\* A sync that was asked for ends, whatever loads, saves and viewers do.
SyncEnds == \A r \in Runner : rpc[r] = "waiting" ~> rpc[r] = "idle"

\* A page whose series was enriched saves the catalog, or fails to, and ends.
MetaEnds == \A v \in Viewer : vpc[v] = "merged" ~> vpc[v] = "idle"

\* catalog_group.go:633 says that entries which dropped off the feed window stay
\* until the DB is cleared: no save of a catalog that has items drops one.
EntriesStay ==
  [][ItemsIn(db'.of) # {} => ItemsIn(db.of) \subseteq ItemsIn(db'.of)]_vars

\* catalog_merge_mal.go:84 says that AssignSeriesFields must not undo the MAL
\* merge: every item in memory belongs to a series on the series list.
MalMergeIsKept == SeriesIn(mem.of) \subseteq mem.series

\* catalog_store.go:13 says that lazy enrichment persistence does not race the
\* saves of a sync: a stored row of a series that stays keeps its fields.
StoredRowsAreKept ==
  [][\A s \in SeriesIn(db'.of) : db.enr[s] \subseteq db'.enr[s]]_vars

============================================================================
