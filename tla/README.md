# GoAnimes in TLA+

GoAnimes turns RSS feeds of anime releases into a Stremio catalog: one process
fetches the feeds, groups the releases into series, asks metadata services about
each series, keeps the catalog in memory for the Stremio handlers and in a SQL
database across restarts.  This directory specifies the parts of it that are
concurrent or can fail halfway, checks them with TLC and proves their safety
properties, and the refinement of a common abstract specification, with TLAPS.

## Inventory

| Component | State | Operations | Meets |
|---|---|---|---|
| RSS sync, `internal/core/rsssync` | `mu`, `syncRunning`, probe and build fingerprints; in `Run` the previous items and a copy of the rows | `Run`, `RSSMainFeedsChanged` | store, database, feeds, metadata services, GoAI overrides |
| Catalog store, `adapters/state` | `snap` under `mu`, `saveMu` | `Set`, `SetAndPersist`, `PersistSnapshot`, `MergeAniListEnrichment`, `SeriesByID`, `Snapshot` | sync and handlers share it |
| Catalog persistence, `adapters/storage` | tables `rss_sources`, `catalog_series`, `catalog_item`, `series_enrichment`, the row with `items_json` | `SaveCatalogSnapshot` (one transaction), `LoadCatalogSnapshot` (several reads), sources | sync, store, hydration, status page |
| Stremio handlers, `ginapi`, `core/stremio` | none | `getMeta` enriches one series lazily and saves; the others read | store |
| Grouping, MAL merge, row merge, `core/domain` | none | `AssignSeriesFields`, `BuildSeriesList`, `MergeCatalogItemsByID`, `MergeSnapshotSeriesBySharedMalID`, `MergeAniListEnrichment` | sync, store, persistence |
| Sync loop, rebuild, status | tickers, contexts with a time limit | `fire`, `pollAndMaybeFire`, `postRebuild`, `getSyncStatus` | sync |
| GoAI audit | tables `goai_series_audit`, `goai_release_audit` | worker pass, admin list and re-audit, overrides in `Run` | database, sync |
| HTTP getter, translators, metadata clients, parsers | rate limits | retries, fallback, parsing | sync, handlers |

What is hard in it:

- *Two writers of one catalog.*  A sync works for minutes on copies of what it
  read, while pages change memory and save all of it.  Three mutexes are
  involved (`RSSSyncService.mu`, `CatalogStore.saveMu`, `CatalogStore.mu`).
- *Memory before database.*  A sync publishes before it saves; the save may fail,
  the process may die, and the next sync starts from the database.
- *Errors that are dropped.*  The load at the start of a sync, the hydration at
  start-up and the save of a page ignore or only log their errors.
- *Grouping twice.*  Items are grouped by title, merged by MyAnimeList id, and
  grouped by title again when they are saved.
- *Fingerprints.*  A poll and a sync share what they know of the feeds and
  interleave; a wrong fingerprint hides a change.
- *The audit worker* reads, waits for an answer and writes, while an
  administrator asks for another audit and a save replaces the tables it refers to.

- *A sync that never got its time.*  The time limit of a request runs while it
  waits for the mutex; load, requests and save then fail one after the other.
- *One service of many fails.*  Nine passes fill the same rows from six services, each
  of which fails or answers in part; AniDB bans clients that ask twice a day.

What makes each part correct: one sync at a time; no item is lost without cause;
memory and database agree when no save is owed; a published catalog is coherent;
every request ends (CatalogSync).  A poll that sees no change means the catalog was
built from what the feeds show (FeedPoll).  A tick or rebuild leads to a sync that
starts after it, and a release that later syncs skip has led to its anime
(SyncScheduler, FeedFetch).  An audit that was asked for happens, and no release is
asked about twice (GoaiAudit).  Passes and merges only add to rows, do not repeat
requests and fill every row that shares an id (Enrichment).

The modules and what they use:

```
SyncService  <--implements--  SyncScheduler --extends--> FeedFetch
     ^---------implements---  CatalogSync
FeedPoll     GoaiAudit     Enrichment
```

CatalogSync, FeedPoll, GoaiAudit and Enrichment are views of the same program from
different sides: what one of them has as a step (a sync that publishes, a row that gains fields, the body
of a feed), another takes apart.  Composing them would multiply state that does not
interact: the items of CatalogSync do not depend on fingerprints, audits change no
row but one id, and a pass sees no other goroutine until it publishes.

## CatalogSync

Models `Run`, `CatalogStore`, load and save, `getMeta`, sources, hydration and
crashes.

| Variable | Code |
|---|---|
| `sources` | table `rss_sources` |
| `db` | what `LoadCatalogSnapshot` would return |
| `mem` | `CatalogStore.snap`: items with their `SeriesID`, `Series`, `AniListBySeries` |
| `runMu`, `saveMu` | the holders of the two mutexes; `CatalogStore.mu` is held across steps only by `PersistSnapshot`, for reading, and is `MemReadLocked` |
| `tx` | what the open transaction of a save has written |
| `rpc`, `run` | each goroutine that calls `Run`: where it is, `prevSnap.Items` or `merged`, `anilistCache` |
| `vpc`, `vs` | each goroutine in `getMeta`: where it is, its series |
| `unsaved`, `lastSave`, `run[r].mayDrop` | history, read by properties only |

A catalog is `of` (the series of each item, `None` for an item it does not have),
`series` (the Discover list) and `enr` (the metadata row of each series).  A row is
the set of its filled fields, so a merge is a union.  One field, `MalField`, decides
merges; the id in it is a function of the series, because a title leads to one
anime.  `db.enr` is the effective value of a load, from `series_enrichment` or, when
nothing is there, from `items_json`.  The feeds show any set of items at any time;
failing fetches, caps and time limits make that set smaller.  An item keeps the
title, and so the series, its id was made with.

Actions follow the code in its order: `RequestRun`, `AcquireRun`, `LoadItems` and
`LoadRows` (the statements of a load are not one transaction), `CloneLiveRows`,
`ListSources`, `FetchFeeds`, `Enrich`, `Publish` or `PublishEmpty` (memory is set),
`WriteTx`, `CommitRun` or `FailRun` and `ResetMemory`.  A page is `OpenMeta`, any
number of `MergeMeta`, `PersistMeta`, `WriteTx`, `CommitMeta` or `FailMeta`, or
`SkipMeta`.  `WriteTx` regroups the items of memory too, as `EnsureSnapshotGrouped`
does through the slice both hold.  `Restart` is a death at any step, with
hydration.  The operators named `...Unlocked`, `...Unknown`, `DropStale` and the like
stand before the definition they vary and are not part of the specification: they
are the mistakes each property is known to catch.

Left out: the aliasing of the inner maps of a row between sync and memory, torn
reads of maps that `Snapshot` shares (Go aborts on them: a `Restart`), legacy JSON
formats, season and episode of an item, and the flags read by the status page.

## FeedPoll

Models `RSSMainFeedsChanged` and `pollAndMaybeFire` beside the part of `Run` that
handles fingerprints.

| Variable | Code |
|---|---|
| `feed`, `sources` | what each main feed shows; table `rss_sources` |
| `probe`, `baseline`, `loaded` | `rssProbeByURL`, `rssLastBuildByURL`, `rssLastBuildOnce` |
| `mem.fp`, `db.fp` | `RSSMainFeedBuildByURL` of the catalog in memory and in `items_json` |
| `mem.built`, `db.built` | history: the feed bodies whose items the catalog has |
| `rpc`, `run` | the sync that holds `RSSSyncService.mu`; that there is only one is `OneSync` of CatalogSync |
| `ppc`, `poll` | the sync loop: its poll, or (`syncing`) its own sync |
| `blind`, `run.missed`, `run.lossy`, `poll.saw`, `poll.overlap` | history, read by properties only |

A fingerprint is the body it is of; the ETag and Last-Modified of a validating
feed stand for the body, too.  A step of a sync is one request, one locked access to
the probes, or one write of memory or database; the steps of a poll are the same.
A poll reads `syncRunning` and
loads the baseline in two steps (`PollStarts`, `PollLoads`), since a sync may start in
between.  Its comparison is one step: it holds the baseline's lock throughout, and
reads each probe once; that the poll then forgets the probes of unlisted feeds is in
the same step (`PollDecides`), as no property looks between the two.  A body that parses is taken to have items.  A sync is
started by the loop's tick (`FullTick`), by a poll (`PollFires`) or by a rebuild or
start-up goroutine (`Rebuild`), the last at any moment of a poll.

`BaselineIsBuilt` says when fingerprints can be trusted: a poll that finds the
fingerprint of the baseline again misses nothing.  It does not hold for all feeds.
The events that make a feed `blind` are exactly the assignments to `blind`:

- the first poll without a baseline adopts what the feeds show (`PollAdopts`);
- a sync could not fetch or parse the feed, or a poll stored or pruned its probe while
  the sync was fetching, and the fingerprint it persists is not the previous one;
- a sync went on without the previous catalog, or there were no sources (`lossy`);
- the first poll takes its baseline from a catalog whose save failed, or while a sync is
  making the next one, or hydration failed.

A sync that fetches and parses the feed, and is not disturbed by a poll, ends it.  No
interleaving, crash or failed save other than these does.

## SyncService, SyncScheduler and FeedFetch

`SyncService` is what the program promises of its syncs, in seven actions: requests
wait (`asked`), one is served at a time (`serving`), what it publishes (`served`) has
all that is `stored`, a page's save changes nothing that is stored, and a death loses
the requests and what was not stored.  Its input `excused` says when less is
promised.  Two specifications implement it, each with what the other leaves out:

| SyncService | SyncScheduler | CatalogSync |
|---|---|---|
| `asked`, `serving` | goroutines in `waiting`, the one inside `Run` | the same of `rpc` |
| `stored`, `served` | releases of `db`, of `mem` | items of `db.of`, of `mem.of` |
| `excused` | never | a failed load or no source in a running sync, or a failed save not yet made good (`~NothingToDrop`) |
| `LoadFaults` | no | yes: hydration may fail |

`SyncScheduler` has time limits, panics and crashes, `CatalogSync` pages, transactions
and failing reads.  `SyncScheduler` has the goroutines that ask, and `FeedFetch` is
what a sync does between load and publication, as `collectMergedCatalogItems` does it.

| Variable | Code |
|---|---|
| `mu`, `started`, `running` | `RSSSyncService.mu`, `syncRunStartedUnix`, `syncRunning` |
| `jpc`, `late` | where each goroutine is in its call of `Run`; whose context has ended |
| `lpc`, `fullTick` | the `select` of `SyncLoop.Run`; the channel of the full ticker |
| `mem`, `db` | the releases in memory; those in the database |
| `spc` | `getSyncStatus` and `SyncRunStartedAt`, which read two atomics in three reads |
| `fpc`, `work`, `get` | where the fetch is, its local variables, the GET under way |
| `db.tried`, `work.tried`, `ended`, `bornLate` | history, read by properties only |

`Start` to `Unlock` are the steps of `Run` in order, with the deferred calls
(`LowerFlag`, `Unlock`); `Panic` is a panic that the goroutine recovers: the loop and
the start-up do (`Recovers`), in a requested sync it ends the process.  `TimeUp` is the end of a context at
any moment, also in the queue: then the load counts as an empty catalog
(`LoadPrevious`), the list of sources fails and the sync ends (`ListSources`).  The
loop takes a full tick even while a sync runs (`TakeFull`), but starts or obeys a
poll only when none does (`TakePoll`, `ProbeFires`).  In `FeedFetch` an attempt may
be throttled and tried again after the wait of `RetryWait`; a row with a stored info
hash is skipped with its slug (`MainAnswers`); slugs are fetched once each, up to
the cap and while time is left.

Left out: the torrents and metadata requested between the merge and the publication
(they only add to items and rows), the path without sources and failing
database reads (CatalogSync), and what a poll compares (FeedPoll).

`KnownReleasesAreExpanded` is what can be promised of the skipping: a stored release
that is skipped belongs to an anime whose feed was fetched or given up.  It names
the reasons by the assignments to `tried`; an anime that was given up is not tried
again when the releases that lead to it have hashes.

## GoaiAudit

Models the worker's pass, the re-audit requests, and syncs and pages as far as audits
see them.

| Variable | Code |
|---|---|
| `pg` | whether the database is Postgres, where foreign keys cascade |
| `items`, `ids` | table `catalog_item`; the TVDB ids GoAI gave in `series_enrichment` |
| `audited`, `current`, `flagged` | table `goai_series_audit`: rows, prompt version, `needs_reaudit` |
| `rel` | table `goai_release_audit` |
| `mem` | items and TVDB ids in `CatalogStore.snap` |
| `spc`, `batch`, `at`, `copy` | a sync: its items, their season and episode, its copy of the ids |
| `wpc`, `todo`, `cur`, `keys`, `key`, `title` | the worker: where it is, the series left, this series, the releases left, the release asked about |
| `apc`, `target` | `POST /reaudit`, which deletes and then flags |
| `owed`, `settled` | history, read by properties only |

Every statement is a step.  A pass visits the series that have items, in order
(`CheckSeries`), asks about one that needs it (`SampleSeries`, `StoreSeries`,
`WriteId`), then about its releases without audit (`ListReleases`, `AskRelease`,
`StoreRelease`).  An answer is stored under the episode it names.  Any error ends the
pass (`PassFails`), also the foreign key that refuses the audit of a series that a
sync has dropped (`StoreRefused`).  `SaveCatalog` is the delete and insert of a save;
on Postgres it empties the audit tables.  A season, episode and special is a
number; 0 is an answer that `ApplyGoaiReleaseAuditOverrides` does not use.

Left out: the lists for administrators, aliases of series, prompts and parsing.

## Enrichment

Models the passes of `rss_sync_enrich.go`, with the clock that AniDB's day and the
airing of episodes need.

| Variable | Code |
|---|---|
| `db`, `mem` | the rows in the database; those in memory, `snap.AniListBySeries` |
| `cache` | `anilistCache` of the running sync |
| `pass`, `todo`, `at`, `call` | the pass (or `"saving"`), the items it has not reached, the one it works on, the request under way |
| `since`, `late`, `now` | `now` of the AniDB pass, the end of the context, the time |
| `faults` | how many failures there were, for the bound |
| `unread`, `refreshed`, `missed`, `unsaved`, `rested` | history, read by properties only |

`Begin` makes the sync's copy: the rows of the database, with what is empty there
taken from memory, or only those of memory when the load fails (its error is dropped).
`Publish` is the end of `Run`: `MergeSnapshotSeriesBySharedMalID` merges the rows of
series with one MyAnimeList id into the row of one of them, `pruneAniListCache`
deletes the others, and memory gets the result.  `Save` and `SaveFails` are the
transaction after it, under the sync's own context: a sync whose time is up is
published and not stored.  `Die` may come at any moment, also between syncs; the next
process has the rows of the database, or none when it cannot read them.

`Ask` goes to the next item that is due (`Due`), passing over the others, and an
answer or failure is a step of its own.  AniList's answer replaces the row
(`AniListAnswers`); all others are merged (`Fill`).  Jikan and then Kitsu are asked
when AniList fails and a field is missing.  Episode lists are asked for once per id and
merged into all rows that share it.  A list of MyAnimeList or TheTVDB may break off
at a page.  Translators leave a title as it is when none answers.

Left out: hero images (their choice depends on two more services and is read by
no other pass), the pauses between requests, TheTVDB's token, the pages that enrich rows
meanwhile (CatalogSync), and the choice between two filled titles.

Every series has items in every sync, so which of the twins keeps the row is left open
(`Homes`: the one with the most items).  Items that a failed load drops are in CatalogSync.

What the model shows beside its properties: the next sync splits twins again by their
titles, so the one whose row was deleted starts blank in every sync, AniList answers for it
again, and AniDB is asked again on the same day (`NoRepeatWithinDay` names it); ids and
translations that a sync published and could not store give way to the stored ones at
the next sync (`KeptUnlessRefreshed` names it); an AniList answer takes the ids of
TheTVDB and IMDb, the translations and AniDB's stamp out of the row it replaces;
Jikan and Kitsu set the version AniList's rows have, so a series they filled while
AniList was down is not asked about again for that reason; AniDB's day is counted
from the start of the pass.

## Runs

| Run | Instance | Shows |
|---|---|---|
| `CatalogSync.cfg` | 2 items in 2 series of one anime, 1 field, 1 source, 2 syncing goroutines, 1 page; loads and saves may fail | all safety properties, ownership of the mutexes and the refinement of SyncService among them |
| `CatalogSyncLive.cfg` | 1 item, 2 syncing goroutines, 1 page, failing loads and saves | `SyncEnds`, `MetaEnds` |
| `CatalogSyncBlindLoad.cfg` | 1 syncing goroutine, loads may fail | a failed load deletes items (`EntriesStay` is violated) |
| `CatalogSyncMalMerge.cfg` | 1 syncing goroutine, nothing fails | the save undoes the MAL merge (`MalMergeIsKept` is violated) |
| `CatalogSyncLostRow.cfg` | 1 syncing goroutine, 1 page, nothing fails | a stored row loses a field (`StoredRowsAreKept` is violated) |
| `FeedPoll.cfg` | 1 feed with 2 bodies that parse and 1 that does not; everything may fail | `BaselineIsBuilt`, `ChangesAreSeen` |
| `FeedPollLive.cfg` | 1 feed with 2 bodies, failing saves | `ChangesGetBuilt`, `PollsSettle` and the safety half of the latter, `QuietStaysQuiet` |
| `FeedPollOverlap.cfg` | 1 feed with 2 bodies, nothing fails | a catalog has the fingerprint of a body it was not built from (`FingerprintsAreBuilt` is violated) |
| `SyncScheduler.cfg` | loop and one rebuild, 1 feed, 2 anime of a release each, cap 1, 2 attempts; time limits, panics that are recovered, failing saves, crashes | all properties of SyncScheduler, the refinement of SyncService among them |
| `GoaiAudit.cfg` | 1 series of 2 releases, both databases, a first start or audits of an old version | all properties of GoaiAudit but the next |
| `GoaiAuditOverrides.cfg` | the same | the season and episode that GoAI gave are parsed from the title again (`OverridesReachTheCatalog` is violated) |
| `Enrichment.cfg` | 2 series that share the ids of AniDB and MyAnimeList, 1 episode, every service, a day of 2 units, 3 units in all, 3 failures | all properties of Enrichment |

Two items in two series that share an anime are the least that a merge, a lost item
and a dropped series need at once; one field is enough because rows only tell filled
from empty; two syncing goroutines make the mutex matter, one of them being queued
while the other runs; one page is enough because pages hold `saveMu` for their whole
save.  One feed with two good bodies and a broken one lets a probe, a baseline, a
stored fingerprint and what the feed shows now all differ; two feeds with faults are
too many states to check, and what relates them (a poll stops at the first error,
prunes, and compares all) rests on the proofs of `BaselineIsBuilt` and
`ChangesAreSeen`, which hold for every set of URLs.  `Shown` is what each feed may
show.  Bodies that are alike are symmetric, except in the liveness run.

In SyncScheduler the release of one anime has an info hash and that of the other has
none, so a sync skips one and not the other; a cap of 1 is reached with an anime
left; a server asks for no wait or for one over the limit; the loop and one rebuild
let one goroutine queue behind the other and its time run out there.  That one
goroutine stands for the start-up's, which recovers its panics, as well as for those of
`POST /rebuild`, which do not: a panic there is a `Crash`.  A feed that is
not Erai's (a branch of `MainAnswers`) is left to the proofs.  In GoaiAudit the first
release may be taken for the second and the second never for the first, so answers
under other coordinates, an override by title and an old audit all occur; one
series is enough because series meet only in the order of a pass, which the safety
proofs cover for any set of series.  In Enrichment two series share
the ids of AniDB, Kitsu and MyAnimeList; one is unknown to Jikan, the other has a next
episode, so twins come to be, are merged and part again; three units let AniDB be asked, rest,
and be asked again.  `MaxTime`
(the clock stops there, and syncs go on) and `MaxFaults` (failed calls, loads and saves,
time limits and deaths) are the bounds a specification has: three failures are a late
sync, a death after it and a failed load, or any other three.  What a service leaves out of
its answer is not counted.  The other specifications are finite for finite constants.
The proofs cover every other size.

The five violated properties quote comments of the code; `PROJECT.json` lists
them under `findings`.

Fairness: a goroutine inside `Run` or past its first merge in `getMeta` takes its next
step (weak fairness), and gets a mutex that is free again and again (strong
fairness on `AcquireRun`, `Publish`, `PublishEmpty`, `ResetMemory`, `PersistMeta`):
a Go mutex hands itself to a waiter that has waited for a millisecond, and a
waiting writer stops new readers of an `RWMutex`.  Nobody is obliged to ask for a
sync, to open a page, or to let a source be read; all network calls carry time
limits, which is why a step that waits for one ends.  In FeedPoll a sync and a poll
that have begun go on (weak fairness), and a loop that is idle again and again takes
its full tick (strong fairness on `FullTick`): `select` chooses at random among ready
tickers.  `ChangesGetBuilt` supposes that the process is not restarted for ever,
`PollsSettle` that the feeds and sources stay as they are and saves succeed; both
are run without failing requests and reads, which could fail for ever.  In
SyncScheduler a sync that has the mutex goes on (weak fairness on `RunOf`: all its
requests have time limits), a waiting one gets it (strong fairness on `Start`), a
poll ends, and the full tick is taken (strong fairness on `TakeFull`).  Nobody needs
to ask, and a time limit need not end.  In GoaiAudit the worker and the start-up go on
(weak fairness), and from some time on passes do not fail and the process does not
die: an outage that lasts lets nothing be asked.  Requests, syncs and saves may go on
for ever: `EveryReleaseIsAsked` holds under a stream of saves that delete audits,
since a pass keeps its list of releases to ask about.

## Proofs

`CatalogSyncProofs` proves for every value of the constants, from the assumptions
named in `CatalogSync` (a finite set of items, series that are numbers, a free
mutex is held by no goroutine):

- `TypeCorrect`: `TypeOK` is inductive.
- `OneSync`: who is inside `Run` holds `runMu`; inductive with types.
- `StoreKeeps`, `ServedKeeps`: from `ItemsInv`.  That items are not lost is not
  inductive by itself.  `ItemsInv` adds that only the holder of `saveMu` has a
  transaction open (`OneSaver`), that an open transaction holds the items of memory
  (`TxHoldsItems`), that between the saves of syncs memory has the items of the
  database or nothing at all with no page open (`MemoryHoldsItems`), and that a sync
  that has read the items still has every stored one (`RunHoldsItems`): a page may
  save during a sync, but what it saves is what was stored.
- `StoreMatches`, `RowsHaveSeries`: from `MatchInv`: what is stored or in an open
  transaction is in the form a save gives it, and a transaction equals what memory
  would be saved as unless a page has just enriched memory.
- `PublishesCoherent`: the preference among twins is antisymmetric, so twins agree
  on one canonical series, and only that one keeps items.
- `LocksOwned`: from `OneSync` and `OneSaver`.  The mutexes are waited for in the order
  `runMu`, `saveMu`, `CatalogStore.mu`, and who saves waits for none; with every mutex
  owned by someone who goes on to release it, nobody waits in a circle or for a
  goroutine that is gone.  `SyncEnds` and `MetaEnds` rest on it.
- `MergeIsDetermined`, `MergeIsIdempotent`: the merge by MyAnimeList id has one outcome
  for every catalog, and nothing to do on that outcome.  That there is a preferred
  series at all is an induction: of the numbers of items the twins lack there is a
  least one (`LeastNumber`), and of the series that lack so many a smallest.
- `SavesAreStable`: a save of what a load returned stores the same again.

`CatalogSyncRefinement` proves `Implements`: every step of CatalogSync is a step of
SyncService or leaves its variables alone.  It uses `ItemsInv` and the ownership of
the mutexes: the one goroutine inside `Run` is the holder of `runMu` (`InsideIsOwner`),
what a sync started from is still stored when it publishes (`RunHoldsItems`), the
items that a commit stores are those of memory (`TxHoldsItems`), and a page that saves
while nothing is excused stores what is stored already (`MemoryHoldsItems`).

`FeedPollProofs` does the same for `FeedPoll`, from `BodyAssumption`,
`UrlAssumption` and `FaultAssumption` (the empty fingerprint is no body, feeds show
bodies); `Url` and `Body` may be infinite.

- `TypeCorrect`: `TypeOK` is inductive.
- `BaselineBuilt`: from `BuiltInv`.  That the baseline is built from the catalog in
  memory is not inductive: a restart puts the stored catalog in memory and a sync
  puts its own there.  `BuiltInv` adds that the stored catalog has the baseline too
  (`StoredIsBuilt`), that a sync which has loaded it starts with all of that
  (`RunStartsBuilt`), that the probe of a feed this sync has parsed and nobody has
  touched since is of a body in its catalog, as is the fingerprint made of it
  (`ProbesAreBuilt`, `FingerprintsAreClean`), and that memory and then the database
  are what the sync made until it ends (`PublishedRun`).  Polls change probes at any
  moment of a sync; `BuiltProbes` shows that they harm none of this as long as what
  they touch counts as missed.
- `ChangesSeen`: from `BuiltInv` and `SeenInv`.  `SeenInv` says that under a poll that
  no sync has joined none runs, that conditional headers stand for what a 304 leaves
  in the probe, and so that the probe of every feed that has answered is what it
  showed.
- `QuietStays`: `Quiet` is kept by every step but a change of feeds or sources and a
  restart, and no poll asks for a sync in it.  That probes and baseline agree with
  the feeds is not enough: a sync or a poll that began before may still bring an
  older body, an older list of sources or an older fingerprint, so `Quiet` says that
  what they have in hand is current as well (`QuietRun`, `QuietPoll`).  The proof is
  for requests, reads and saves that may all fail, which the liveness run leaves
  out.  `PublishedRun` of `BuiltInv` says that what a refresh makes the baseline is
  the fingerprint the sync persisted, and `SeenInv` that a poll has one request.

`SyncSchedulerProofs`, from the assumptions of `FeedFetch` and `JobAssumption`:

- `TypeCorrect`: `TypeOK`, which relates the loop, the calls of `Run` and the fetch, is
  inductive together with `Inv`.
- `Implements`: every step of SyncScheduler is a step of SyncService or leaves its
  variables alone.  For that the one goroutine inside `Run` must be the holder of the
  mutex (`MutexHeld`), and what it started from must still be what is stored when it
  publishes (`PreviousIsStored`), for which nobody else may save and a sync out of
  time may not get that far.
- `LateIsHarmless`: from `LateStaysOut`.  `FlagsFollow` and `StatusNames`: from the order
  in which the two atomics are set (`FlagIsUp`) and from `StatusExcused`.
- `KnownExpanded`: from `SlugsPending`, `AllTried` and `StoredIsTried`: every anime that a
  release of the batch leads to is queued, under way or dealt with, and all are dealt
  with before the merge.
- `FetchesEnd`: `StepsLeft` counts the attempts and waits that the GET under way has left,
  one whole GET for every feed and anime that may still be asked, and the ends of the
  two loops; every step of a fetch takes from it and nothing adds to it, because a GET
  under way always has an attempt left (`GetInTime`) and the anime that main feeds lead
  to are counted from the start.  The sets of sources and anime are finite by
  hypothesis.  It is the part of `ServesEveryRequest` that needs no fairness.

`GoaiAuditProofs`, for any series, releases, answers and old audits:

- `OwedFlagged`: not inductive by itself.  `AskedIsNotOwed` adds that nothing is
  owed to the series GoAI is answering for, whose flag the answer clears.
- `AnsweredRest`: `SettledIsStored` keeps the row of a settled release, though answers for
  other releases overwrite rows, and `KeysAreOpen` says that the list a pass works
  through has none that was settled since.
- `IdsStay`: `IdsAreCopied`, a sync has a copy of every id in memory, and `DownIsQuiet`.

`EnrichmentProofs`, for any rows, ids, services and answers:

- `MergesCompose`: the merge of rows is associative and idempotent, so the several
  places that merge the same rows (database with memory at the start, pages, a sync's
  passes, twins) cannot disagree by doing it twice or grouped differently.
- `MergedRowIsFold`: `MergedRow` says of each field what twins get (of an id, that of the
  first twin that has one; of the next airing, that of the last).  A twin that joins changes
  it as one more round of the program's loop does.
- `Kept`: `CopyKeeps`, the copy has what memory and database had when the sync began (or memory
  alone, when the load failed), which holds because `MergeAniListEnrichment` keeps what is filled
  (`MergeKeeps`), the merged row what each twin has (`MergedFills`), and the one
  assignment that is no merge needs its field empty (`LookedUpIsMissing`).  A row of a
  series without twins is its own merge (`MergedAlone`).
- `NoRepeat`: `RestedIsStamped`, every row of an anime that AniDB answered for carries the
  time of the answer: in the copy while the passes run, in memory otherwise, and in the
  database for answers that were saved.  The losses that the property names are the steps that
  would break it: AniList's new row, a death with answers unsaved, and a stored row that still
  has an id which memory has lost.
- `FullLists`: `KitsuIsListed` and `MalIsListed`, the loop invariants of the two passes:
  the rows of the ids they are done with have the list.  The merge of twins keeps it, as
  a merged row has the ids of its twins and all their titles.

The induction theorems of the library take an operator as parameter, which the installed
provers cannot instantiate; where a proof needs induction it takes a
least element instead (`NatLessThanWellFounded`, or `FS_StrictSubsetOrderingWellFounded`
for finite sets, with `WFMin`).

Only model-checked, because liveness under fairness is out of the prover's reach:
`SyncEnds`, `MetaEnds`, `ChangesGetBuilt`, `PollsSettle`, `ServesEveryRequest`,
`TicksLeadToSyncs`, `EveryReleaseIsAsked` and `ReauditsAreServed`.

## Not modelled

- *Hero images* (the last part of `rss_sync_enrich.go`, TMDB): they need rows, sizes of
  images and two services, fill one field that no other pass reads, and would multiply
  the states of Enrichment, which are millions as it is.
- *Pacing of the clients and TheTVDB's token*: a mutex around a time stamp.  A pause is
  read under the mutex and waited for without it, so two callers may go out
  together; that is listed as a hazard without a property, as a clock of milliseconds
  would be needed.
- *Parsing* of RSS, titles and answers: regular expressions and JSON; the constants
  `SeriesOf`, `EpisodeOf`, `SlugOf`, `Br` and `Hashed` stand for what they yield.
- *Stremio responses and the lists for administrators*: they only read.
- *Observability, middleware, migrations, configuration*: no state that the catalog
  depends on.
- *Torn reads* of maps that `Snapshot` shares: Go aborts, and that is a restart.
- A re-audit that is requested while GoAI answers for the same series is lost: the
  answer clears the flag.  `OwedAuditsAreFlagged` leaves it out by name.
