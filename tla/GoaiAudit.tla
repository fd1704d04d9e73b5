----------------------------- MODULE GoaiAudit -----------------------------
(***************************************************************************)
(* The GoAI audit of GoAnimes.  A background worker asks GoAI which series *)
(* and which episode the stored release titles are, one pass per tick and  *)
(* one question at a time; the answers are rows of the database.  Admins   *)
(* ask for a series to be audited again.  Meanwhile syncs and /meta pages  *)
(* replace the whole stored catalog, which on Postgres takes the audits    *)
(* with it, and a sync applies the answers to the items it has collected.  *)
(*                                                                         *)
(* The worker, an admin and a sync work on the same tables with no common  *)
(* lock: each statement is a step of its own.  What a sync does besides,   *)
(* the merge of series among it, is in CatalogSync.                        *)
(***************************************************************************)
EXTENDS Naturals, FiniteSets

CONSTANTS
  Item,          \* catalog items, by their titles
  NoTitle,       \* the empty title
  Series,        \* series ids, numbered in the order of the worker's query
  Known,         \* the series with a metadata row
  Episode,       \* season, episode and special, numbered in the query's order
  SeriesOf,      \* the series and the episode that an item's title parses to
  EpisodeOf,
  Feeds,         \* what the feeds may show
  SeriesAnswers, \* whether GoAI may name a TVDB id for a series
  Answers,       \* the episodes that GoAI may take a title for
  OldRows,       \* release audits of an earlier version of the prompt
  Databases      \* whether the database is Postgres

\* Answers with season or episode 0.
NoEpisode == 0
None == 0

Row == [series : Series, episode : Episode, title : Item \cup {NoTitle},
        answer : Episode, current : BOOLEAN]

ASSUME ItemAssumption == NoTitle \notin Item /\ Feeds \subseteq SUBSET Item
ASSUME SeriesAssumption ==
  /\ Series \subseteq Nat \ {None}
  /\ Known \subseteq Series
  /\ SeriesOf \in [Item -> Series]
ASSUME EpisodeAssumption ==
  /\ Episode \subseteq Nat
  /\ EpisodeOf \in [Item -> Episode]
ASSUME AnswerAssumption ==
  /\ SeriesAnswers \subseteq BOOLEAN
  /\ Answers \in [Item \cup {NoTitle} -> SUBSET Episode]
  /\ OldRows \subseteq Row
  /\ Databases \subseteq BOOLEAN

VARIABLES
  pg,          \* the database is Postgres, where foreign keys cascade
  items,       \* table catalog_item
  ids,         \* series whose stored metadata row has the TVDB id GoAI gave
  audited,     \* table goai_series_audit: the series with a row,
  current,     \*   of these, with the prompt version of this program,
  flagged,     \*   and with needs_reaudit
  rel,         \* table goai_release_audit
  mem,         \* the items and the TVDB ids in memory
  spc, batch,  \* where a sync is, the items it will publish,
  at, copy,    \*   their episodes, and its copy of the TVDB ids
  wpc,         \* where the worker is,
  todo, cur,   \*   the series of this pass it has yet to visit, and this one,
  keys,        \*   the episodes of this series it has yet to ask about,
  key, title,  \*   and the one it asks about, by a title
  apc, target, \* where POST /reaudit is, and its series
  owed,        \* history: re-audits accepted and not yet asked of GoAI
  settled      \* history: releases whose answer is stored as their own

series == <<audited, current, flagged>>
sync == <<spc, batch, at, copy>>
asking == <<cur, keys, key, title>>
worker == <<wpc, todo, asking>>
admin == <<apc, target>>
history == <<owed, settled>>
vars == <<pg, items, ids, series, rel, mem, sync, worker, admin, history>>

Releases == Series \X Episode
Memory == [items : SUBSET Item, ids : SUBSET Series]

SeriesIn(S) == {SeriesOf[i] : i \in S}
ItemsOf(s) == {i \in items : SeriesOf[i] = s}
ReleaseItems(s, e) == {i \in ItemsOf(s) : EpisodeOf[i] = e}
HasRow(s, e) == \E r \in rel : r.series = s /\ r.episode = e /\ r.current

\* A series is audited when it never was, when that was asked for, and when
\* the prompt has changed.
NeedsFirstAudit(s) == s \notin audited \/ s \notin current
NeedsAudit(s) == s \notin audited \/ s \in flagged \/ s \notin current

TypeOK ==
  /\ pg \in BOOLEAN
  /\ items \subseteq Item
  /\ ids \subseteq Known
  /\ audited \subseteq Series
  /\ current \subseteq audited
  /\ flagged \subseteq audited
  /\ rel \subseteq Row
  /\ mem \in Memory
  /\ spc \in {"idle", "loaded", "publishing"}
  /\ batch \subseteq Item
  /\ at \in [Item -> Episode]
  /\ copy \subseteq Series
  /\ wpc \in {"idle", "next", "sampling", "asking series", "writing id",
              "listing", "next release", "asking release", "down"}
  /\ todo \subseteq Series
  /\ cur \in Series \cup {None}
  /\ wpc \notin {"idle", "next", "down"} => cur \in Series
  /\ keys \subseteq Episode
  /\ key \in Episode \cup {None}
  /\ wpc = "asking release" => key \in Episode
  /\ title \in Item \cup {NoTitle}
  /\ apc \in {"idle", "flagging"}
  /\ target \in Series \cup {None}
  /\ apc = "flagging" => target \in Series
  /\ owed \subseteq Series
  /\ settled \subseteq Releases

\* A first start, or one with a catalog that an earlier version audited.
Init ==
  /\ pg \in Databases
  /\ \/ items = {} /\ rel = {} /\ audited = {}
     \/ /\ items = {i \in Item : \E r \in OldRows : r.title = i}
        /\ rel = OldRows
        /\ audited = {r.series : r \in OldRows}
  /\ ids = {} /\ current = {} /\ flagged = {}
  /\ mem = [items |-> items, ids |-> {}]
  /\ spc = "idle" /\ batch = {} /\ copy = {}
  /\ at = EpisodeOf
  /\ wpc = "idle" /\ todo = {} /\ cur = None /\ keys = {} /\ key = None /\ title = NoTitle
  /\ apc = "idle" /\ target = None
  /\ owed = {} /\ settled = {}

----------------------------------------------------------------------------
(* Syncs and pages, as far as the audits see them *)

\* A save replaces the catalog.  On Postgres the audits of every series, also
\* of those that are stored again, go with the rows of catalog_series.
SaveCatalog(newItems, newIds) ==
  /\ items' = newItems
  /\ ids' = {s \in newIds \cap Known : newItems = {} \/ s \in SeriesIn(newItems)}
  /\ IF pg THEN /\ audited' = {} /\ current' = {} /\ flagged' = {}
                /\ rel' = {} /\ settled' = {}
           ELSE UNCHANGED <<series, rel, settled>>

\* A sync begins with the stored catalog, or without it when it could not be
\* read, and with the ids in memory.
SyncLoadsStored ==
  /\ spc = "idle"
  /\ spc' = "loaded"
  /\ batch' = items
  /\ copy' = ids
  /\ UNCHANGED <<pg, items, ids, series, rel, mem, at, worker, admin, history>>
SyncLoads ==
  /\ spc = "idle"
  /\ spc' = "loaded"
  /\ \/ batch' = items /\ copy' = ids \cup mem.ids
     \/ batch' = {} /\ copy' = mem.ids
  /\ UNCHANGED <<pg, items, ids, series, rel, mem, at, worker, admin, history>>

\* With no source registered it publishes an empty catalog.
SyncFindsNoSource ==
  /\ spc = "loaded"
  /\ spc' = "publishing"
  /\ batch' = {}
  /\ UNCHANGED <<pg, items, ids, series, rel, mem, at, copy, worker, admin, history>>

\* The usable answer stored for the very release, or else one given for the
\* title.  The latest of several comes first; which one that is is left open.
OfRelease(i) == {r \in rel : r.series = SeriesOf[i] /\ r.episode = EpisodeOf[i]
                             /\ r.answer # NoEpisode}
OfTitle(i) == {r \in rel : r.series = SeriesOf[i] /\ r.title = i /\ r.answer # NoEpisode}
Override(i) ==
  IF OfRelease(i) # {} THEN {r.answer : r \in OfRelease(i)}
  ELSE IF OfTitle(i) # {} THEN {r.answer : r \in OfTitle(i)} ELSE {EpisodeOf[i]}
\* A release the feeds bring has no series yet, and so no answer; those that are
\* stored have one (the feeds' copies are skipped by their info hash).
Overrides(stored) ==
  {w \in [Item -> Episode] :
     \A i \in Item : w[i] \in IF i \in stored THEN Override(i) ELSE {EpisodeOf[i]}}

\* EnsureSnapshotGrouped reads every episode from the title again.
Regroup(w) == [i \in Item |-> EpisodeOf[i]]

\* The feeds add items to the catalog and the answers of GoAI are applied to
\* all of them, unless they cannot be read; then the catalog is regrouped.
SyncOverrides ==
  /\ spc = "loaded"
  /\ spc' = "publishing"
  /\ \E new \in Feeds : batch' = batch \cup new
  /\ \E w \in Overrides(batch) \cup {EpisodeOf} : at' = Regroup(w)
  /\ UNCHANGED <<pg, items, ids, series, rel, mem, copy, worker, admin, history>>

ForgetSync ==
  /\ spc' = "idle"
  /\ batch' = {} /\ copy' = {}
  /\ at' = EpisodeOf

\* SetAndPersist, under one lock with PersistSnapshot; the save may fail.
SyncPublishes ==
  /\ spc = "publishing"
  /\ ForgetSync
  /\ mem' = [items |-> batch, ids |-> {s \in copy : batch = {} \/ s \in SeriesIn(batch)}]
  /\ \/ SaveCatalog(batch, mem'.ids)
     \/ UNCHANGED <<items, ids, series, rel, settled>>
  /\ UNCHANGED <<pg, worker, admin, owed>>

\* A /meta page enriched a series in memory and persists the snapshot.
PageSaves ==
  /\ mem.items # {}
  /\ SaveCatalog(mem.items, mem.ids)
  /\ UNCHANGED <<pg, mem, sync, worker, admin, owed>>

----------------------------------------------------------------------------
(* GoaiAuditWorker.Run *)

GoTo(from, to) == wpc = from /\ wpc' = to

Tick ==
  /\ GoTo("idle", "next")
  /\ todo' = SeriesIn(items)
  /\ UNCHANGED <<pg, items, ids, series, rel, mem, sync, asking, admin, history>>

PassEnds ==
  /\ GoTo("next", "idle")
  /\ todo = {}
  /\ UNCHANGED <<pg, items, ids, series, rel, mem, sync, todo, asking, admin, history>>

StopAt(pc) ==
  /\ wpc' = pc
  /\ todo' = {} /\ cur' = None /\ keys' = {} /\ key' = None /\ title' = NoTitle

\* The foreign keys of Postgres refuse an audit of a series that is gone.
Storable == pg => cur \in SeriesIn(items)
Refused == wpc \in {"asking series", "asking release"} /\ ~Storable

\* Whatever fails ends the pass.
PassFails ==
  /\ wpc \notin {"idle", "down"}
  /\ ~(wpc = "next" /\ todo = {})
  /\ ~Refused
  /\ StopAt("idle")
  /\ UNCHANGED <<pg, items, ids, series, rel, mem, sync, admin, history>>

First(S, x) == x \in S /\ \A y \in S : x <= y

CheckAndSkip ==
  /\ wpc = "next"
  /\ \E s \in todo :
       /\ First(todo, s)
       /\ cur' = s
       /\ todo' = todo \ {s}
       /\ wpc' = IF NeedsAudit(s) THEN "sampling" ELSE "next"
  /\ UNCHANGED <<pg, items, ids, series, rel, mem, sync, keys, key, title, admin, history>>
CheckAndClear ==
  /\ wpc = "next"
  /\ \E s \in todo :
       /\ First(todo, s)
       /\ cur' = s
       /\ todo' = todo \ {s}
       /\ wpc' = IF NeedsAudit(s) THEN "sampling" ELSE "listing"
       /\ flagged' = flagged \ {s}
  /\ UNCHANGED <<pg, items, ids, audited, current, rel, mem, sync, keys, key, title,
                 admin, history>>
CheckSeries ==
  /\ wpc = "next"
  /\ \E s \in todo :
       /\ First(todo, s)
       /\ cur' = s
       /\ todo' = todo \ {s}
       /\ wpc' = IF NeedsAudit(s) THEN "sampling" ELSE "listing"
  /\ UNCHANGED <<pg, items, ids, series, rel, mem, sync, keys, key, title, admin, history>>

\* A series whose items are gone is passed over.
SampleSeries ==
  /\ wpc = "sampling"
  /\ IF ItemsOf(cur) = {}
     THEN wpc' = "next" /\ cur' = None /\ UNCHANGED owed
     ELSE wpc' = "asking series" /\ owed' = owed \ {cur} /\ UNCHANGED cur
  /\ UNCHANGED <<pg, items, ids, series, rel, mem, sync, todo, keys, key, title, admin,
                 settled>>

\* The answer is stored over whatever the row has become, its flag included.
StoreSeries(hasId) ==
  /\ wpc = "asking series"
  /\ Storable
  /\ wpc' = IF hasId THEN "writing id" ELSE "listing"
  /\ audited' = audited \cup {cur}
  /\ current' = current \cup {cur}
  /\ flagged' = flagged \ {cur}
  /\ UNCHANGED <<pg, items, ids, rel, mem, sync, todo, asking, admin, history>>

\* Only a stored metadata row takes the id; its absence is no error.
WriteId ==
  /\ GoTo("writing id", "listing")
  /\ ids' = ids \cup ({cur} \cap Known \cap SeriesIn(items))
  /\ UNCHANGED <<pg, items, series, rel, mem, sync, todo, asking, admin, history>>

ListAllReleases ==
  /\ GoTo("listing", "next release")
  /\ keys' = {EpisodeOf[i] : i \in ItemsOf(cur)}
  /\ UNCHANGED <<pg, items, ids, series, rel, mem, sync, todo, cur, key, title, admin, history>>
ListReleases ==
  /\ GoTo("listing", "next release")
  /\ keys' = {e \in {EpisodeOf[i] : i \in ItemsOf(cur)} : ~HasRow(cur, e)}
  /\ UNCHANGED <<pg, items, ids, series, rel, mem, sync, todo, cur, key, title, admin, history>>

\* One of the newest items of the release, or of the series when it is gone.
Sample(s, e) ==
  IF ReleaseItems(s, e) # {} THEN ReleaseItems(s, e)
  ELSE IF ItemsOf(s) # {} THEN ItemsOf(s) ELSE {NoTitle}

AskRelease ==
  /\ GoTo("next release", "asking release")
  /\ \E e \in keys :
       /\ First(keys, e)
       /\ key' = e
       /\ keys' = keys \ {e}
       /\ title' \in Sample(cur, e)
  /\ UNCHANGED <<pg, items, ids, series, rel, mem, sync, todo, cur, admin, history>>

\* The answer is stored as the audit of the release it names, which need not
\* be the one that was asked about.
StoreRelease(e) ==
  /\ GoTo("asking release", "next release")
  /\ Storable
  /\ rel' = {r \in rel : r.series # cur \/ r.episode # e}
              \cup {[series |-> cur, episode |-> e, title |-> title, answer |-> e, current |-> TRUE]}
  /\ settled' = IF e = key THEN settled \cup {<<cur, e>>} ELSE settled
  /\ key' = None /\ title' = NoTitle
  /\ UNCHANGED <<pg, items, ids, series, mem, sync, todo, cur, keys, admin, owed>>

SeriesDone ==
  /\ GoTo("next release", "next")
  /\ keys = {}
  /\ cur' = None
  /\ UNCHANGED <<pg, items, ids, series, rel, mem, sync, todo, keys, key, title, admin, history>>

\* The row is refused, which ends the pass.
StoreRefused ==
  /\ Refused
  /\ StopAt("idle")
  /\ UNCHANGED <<pg, items, ids, series, rel, mem, sync, admin, history>>

----------------------------------------------------------------------------
(* GoaiAuditAdminService *)

Requested(s) == owed' = IF cur = s /\ wpc = "asking series" THEN owed ELSE owed \cup {s}

\* POST /reaudit with scope full deletes the release audits first.
ClearReleases(s) ==
  /\ apc = "idle"
  /\ apc' = "flagging"
  /\ target' = s
  /\ rel' = {r \in rel : r.series # s}
  /\ settled' = {k \in settled : k[1] # s}
  /\ UNCHANGED <<pg, items, ids, series, mem, sync, worker, owed>>

KeepReleases(s) ==
  /\ apc = "idle"
  /\ apc' = "flagging"
  /\ target' = s
  /\ UNCHANGED <<pg, items, ids, series, rel, mem, sync, worker, history>>

\* A series with no audit yet is refused, its release audits cleared or not.
FlagAnySeries ==
  /\ apc = "flagging"
  /\ apc' = "idle"
  /\ target' = None
  /\ flagged' = flagged \cup {target}
  /\ Requested(target)
  /\ UNCHANGED <<pg, items, ids, audited, current, rel, mem, sync, worker, settled>>
FlagSeries ==
  /\ apc = "flagging"
  /\ apc' = "idle"
  /\ target' = None
  /\ \/ /\ target \in audited
        /\ flagged' = flagged \cup {target}
        /\ Requested(target)
     \/ UNCHANGED <<flagged, owed>>
  /\ UNCHANGED <<pg, items, ids, audited, current, rel, mem, sync, worker, settled>>

----------------------------------------------------------------------------
(* The process dies and starts again, with or without the stored catalog. *)
Die ==
  /\ wpc # "down"
  /\ StopAt("down")
  /\ ForgetSync
  /\ apc' = "idle" /\ target' = None
  /\ UNCHANGED <<pg, items, ids, series, rel, mem, history>>

StartUp ==
  /\ GoTo("down", "idle")
  /\ mem' \in {[items |-> items, ids |-> IF items = {} THEN {} ELSE ids],
               [items |-> {}, ids |-> {}]}
  /\ UNCHANGED <<pg, items, ids, series, rel, sync, todo, asking, admin, history>>

SyncNext ==
  \/ SyncLoads \/ SyncFindsNoSource \/ SyncOverrides \/ SyncPublishes

WorkerNext ==
  \/ Tick \/ PassEnds \/ CheckSeries \/ SampleSeries \/ WriteId
  \/ \E hasId \in SeriesAnswers : StoreSeries(hasId)
  \/ ListReleases \/ AskRelease \/ SeriesDone \/ StoreRefused
  \/ \E e \in Answers[title] : StoreRelease(e)

AdminNext ==
  \/ \E s \in Series : ClearReleases(s) \/ KeepReleases(s)
  \/ FlagSeries

Next ==
  \/ wpc # "down" /\ (SyncNext \/ PageSaves \/ AdminNext)
  \/ WorkerNext \/ PassFails
  \/ Die \/ StartUp

Spec == Init /\ [][Next]_vars

\* The ticker goes on, the calls to GoAI have a time limit, and from some time
\* on passes no longer fail and the process does not die.
LiveSpec ==
  /\ Spec
  /\ WF_vars(WorkerNext) /\ WF_vars(StartUp)
  /\ <>[][~PassFails /\ ~Die]_vars

----------------------------------------------------------------------------
(* Properties *)

\* A re-audit that was accepted is not forgotten before GoAI is asked: whatever
\* the worker, its failures, syncs and restarts do, the series needs an audit.
\* A request made while GoAI answers for the series is not among these: the
\* answer clears its flag.
OwedAuditsAreFlagged == owed \subseteq {s \in Series : NeedsAudit(s)}

\* GoAI is not asked again about a release whose answer is stored as its own,
\* unless an admin cleared it or a save on Postgres took it.
AnsweredReleasesRest == wpc = "asking release" => <<cur, key>> \notin settled

\* A TVDB id of GoAI that a sync brought to memory stays there with its series,
\* though saves of older copies take it out of the database again.  (An id that
\* is taken out of the database before a sync has read it is lost.)
IdsStayInMemory ==
  [][StartUp \/ \A s \in mem.ids : s \in SeriesIn(mem'.items) => s \in mem'.ids]_vars

\* Every release in the catalog gets its question to GoAI or an audit, though
\* passes fail for a while, saves delete audits, and new releases come.
EveryReleaseIsAsked ==
  \A s \in Series, e \in Episode :
    ReleaseItems(s, e) # {} ~>
      \/ wpc = "asking release" /\ cur = s /\ key = e
      \/ HasRow(s, e)
      \/ ReleaseItems(s, e) = {}

\* A series flagged for a re-audit is audited, unless it leaves the catalog.
ReauditsAreServed ==
  \A s \in Series : s \in flagged ~> (s \notin flagged \/ ItemsOf(s) = {})

\* What GoAI said of a stored release is what the catalog shows: 'rewrites item
\* season/episode/is_special using persisted GoAI release audit'.
OverridesReachTheCatalog ==
  [][spc = "loaded" /\ spc' = "publishing" =>
       \E w \in Overrides(batch) : \A i \in batch \cap batch' : at'[i] = w[i]]_vars

=============================================================================
