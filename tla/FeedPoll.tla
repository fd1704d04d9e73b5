------------------------------ MODULE FeedPoll ------------------------------
(***************************************************************************)
(* How GoAnimes notices that a main RSS feed has changed.  The sync loop   *)
(* polls the feeds (RSSMainFeedsChanged) with conditional requests and     *)
(* starts a sync when what they show differs from the fingerprints of the  *)
(* last build, the baseline.  Polls and syncs share the probes (the last   *)
(* answer of each feed) and the baseline, and a rebuild or the start-up    *)
(* sync may run in the middle of a poll.                                   *)
(*                                                                         *)
(* A catalog is, per feed, a fingerprint (fp) and, as history, the bodies  *)
(* its items come from (built).  Only one sync runs at a time, which       *)
(* CatalogSync shows, so a sync is one set of variables here.              *)
(***************************************************************************)
EXTENDS Naturals

CONSTANTS
  Url,        \* main feed URLs
  Body,       \* contents of a feed, told apart by their SHA-256
  Shown,      \* the bodies each feed may show
  NoBody,     \* an empty fingerprint
  Broken,     \* bodies that ParseFeedWithEraiSlugs rejects
  Validating, \* feeds served with an ETag or Last-Modified
  GetFaults,  \* whether requests may fail after their retries
  LoadFaults, \* whether reads of the database may fail
  SaveFaults  \* whether a save may fail

ASSUME BodyAssumption == NoBody \notin Body /\ Broken \subseteq Body
ASSUME UrlAssumption == Validating \subseteq Url /\ Shown \in [Url -> SUBSET Body]
ASSUME FaultAssumption ==
  GetFaults \in BOOLEAN /\ LoadFaults \in BOOLEAN /\ SaveFaults \in BOOLEAN

VARIABLES
  feed,      \* what each feed shows
  sources,   \* table rss_sources
  probe,     \* rssProbeByURL
  baseline,  \* rssLastBuildByURL
  loaded,    \* rssLastBuildOnce is done
  mem,       \* the catalog in memory
  db,        \* the stored catalog
  rpc, run,  \* where the running sync is, and its local variables
  ppc, poll, \* where the sync loop is, and the local variables of its poll
  blind      \* history: feeds whose fingerprint something has put ahead of the catalog

vars == <<feed, sources, probe, baseline, loaded, mem, db, rpc, run, ppc, poll, blind>>

world == <<feed, sources>>
syncing == <<rpc, run>>
polling == <<ppc, poll, loaded>>

----------------------------------------------------------------------------
Fingerprints == [Url -> Body \cup {NoBody}]
NoFingerprints == [u \in Url |-> NoBody]
NothingBuilt == [u \in Url |-> {}]
Known(fp) == {u \in Url : fp[u] # NoBody}

Catalog == [fp : Fingerprints, built : [Url -> SUBSET Body]]
NoCatalog == [fp |-> NoFingerprints, built |-> NothingBuilt]

\* The local variables of Run: the previous fingerprints, the catalog it makes,
\* the sources it read and has still to fetch, the body in hand.  History:
\* missed, the feeds whose probe is not of a body this sync has built, and
\* lossy, that the previous catalog was not (fully) used.
RunLocals == [prev : Fingerprints, fp : Fingerprints, built : [Url -> SUBSET Body],
              listed : SUBSET Url, todo : SUBSET Url,
              url : SUBSET Url, body : Body \cup {NoBody},
              missed : SUBSET Url, lossy : BOOLEAN]
NoRun == [prev |-> NoFingerprints, fp |-> NoFingerprints, built |-> NothingBuilt,
          listed |-> {}, todo |-> {}, url |-> {}, body |-> NoBody,
          missed |-> {}, lossy |-> FALSE]

\* The local variables of RSSMainFeedsChanged: the sources it read and has still
\* to ask, the feed being asked, the body its conditional headers stand for and
\* the body of a 200.  History: saw, what each feed showed, and overlap, that a
\* sync started meanwhile.
PollLocals == [listed : SUBSET Url, todo : SUBSET Url, url : SUBSET Url,
               asked : Body \cup {NoBody}, got : Body \cup {NoBody},
               saw : Fingerprints, overlap : BOOLEAN]
NoPoll == [listed |-> {}, todo |-> {}, url |-> {}, asked |-> NoBody, got |-> NoBody,
           saw |-> NoFingerprints, overlap |-> FALSE]

RunPc == {"idle", "locked", "loaded", "fetching", "got", "publishing", "saving", "saved"}
PollPc == {"idle", "starting", "listing", "asking", "waiting", "answered", "adopting",
           "changed", "syncing"}

TypeOK ==
  /\ feed \in [Url -> Body]
  /\ sources \subseteq Url
  /\ probe \in Fingerprints
  /\ baseline \in Fingerprints
  /\ loaded \in BOOLEAN
  /\ mem \in Catalog
  /\ db \in Catalog
  /\ rpc \in RunPc
  /\ run \in RunLocals
  /\ ppc \in PollPc
  /\ poll \in PollLocals
  /\ blind \subseteq Url
  /\ run.url # {} <=> rpc = "got"
  /\ rpc = "got" => run.body \in Body
  /\ poll.url # {} <=> ppc \in {"waiting", "answered"}
  /\ ppc = "syncing" => rpc # "idle"

\* First start: no source, no catalog.
Init ==
  /\ feed \in [Url -> Body] /\ \A u \in Url : feed[u] \in Shown[u]
  /\ sources = {}
  /\ probe = NoFingerprints
  /\ baseline = NoFingerprints
  /\ loaded = FALSE
  /\ mem = NoCatalog
  /\ db = NoCatalog
  /\ rpc = "idle"
  /\ run = NoRun
  /\ ppc = "idle"
  /\ poll = NoPoll
  /\ blind = {}

----------------------------------------------------------------------------
(* RSSSyncService.Run *)

\* The mutex is taken, by the loop (a tick, or a poll that saw a change) or by
\* a rebuild or the start-up sync.
Lock ==
  /\ rpc = "idle"
  /\ rpc' = "locked"
  /\ UNCHANGED <<world, probe, baseline, loaded, mem, db, run, blind>>

FullTick == ppc = "idle" /\ Lock /\ ppc' = "syncing" /\ UNCHANGED poll
PollFires == ppc = "changed" /\ Lock /\ ppc' = "syncing" /\ UNCHANGED poll
Rebuild ==
  /\ Lock
  /\ UNCHANGED ppc
  /\ poll' = IF ppc \in {"idle", "changed"} THEN poll ELSE [poll EXCEPT !.overlap = TRUE]

RunStep(from, to) ==
  /\ rpc = from
  /\ rpc' = to
  /\ UNCHANGED <<world, polling>>

EndRunSilently ==
  /\ rpc' = "idle"
  /\ run' = NoRun
  /\ UNCHANGED <<world, probe, loaded, ppc, poll>>
EndRun ==
  /\ rpc' = "idle"
  /\ run' = NoRun
  /\ ppc' = IF ppc = "syncing" THEN "idle" ELSE ppc
  /\ UNCHANGED <<world, probe, loaded, poll>>

\* A failed load is ignored and counts as an empty catalog.
LoadPrevious ==
  /\ RunStep("locked", "loaded")
  /\ \/ run' = [NoRun EXCEPT !.prev = db.fp, !.built = db.built]
     \/ LoadFaults /\ run' = [NoRun EXCEPT !.lossy = TRUE]
  /\ UNCHANGED <<probe, baseline, mem, db, blind>>

\* Without sources the new catalog has neither items nor fingerprints.
ListRunSources ==
  /\ UNCHANGED <<probe, baseline, mem, db, blind>>
  /\ \/ /\ sources # {}
        /\ RunStep("loaded", "fetching")
        /\ run' = [run EXCEPT !.listed = sources, !.todo = sources, !.missed = sources]
     \/ /\ sources = {}
        /\ RunStep("loaded", "publishing")
        /\ run' = [NoRun EXCEPT !.prev = run.prev, !.lossy = TRUE]
RunListFails ==
  /\ LoadFaults
  /\ rpc = "loaded"
  /\ EndRun
  /\ UNCHANGED <<baseline, mem, db, blind>>

FetchConditionally ==
  \E u \in run.todo :
    /\ RunStep("fetching", IF probe[u] = feed[u] THEN "fetching" ELSE "got")
    /\ run' = IF probe[u] = feed[u]
              THEN [run EXCEPT !.todo = @ \ {u}]
              ELSE [run EXCEPT !.todo = @ \ {u}, !.url = {u}, !.body = feed[u]]
    /\ UNCHANGED <<probe, baseline, mem, db, blind>>
\* Run asks without conditional headers, so the answer is the body.
Fetch ==
  \E u \in run.todo :
    /\ RunStep("fetching", "got")
    /\ run' = [run EXCEPT !.todo = @ \ {u}, !.url = {u}, !.body = feed[u]]
    /\ UNCHANGED <<probe, baseline, mem, db, blind>>

\* After an error the other sources are fetched; this one keeps its probe.
FetchFails ==
  \E u \in run.todo :
    /\ GetFaults
    /\ RunStep("fetching", "fetching")
    /\ run' = [run EXCEPT !.todo = @ \ {u}]
    /\ UNCHANGED <<probe, baseline, mem, db, blind>>

\* MergeCatalogItemsByID: the items of a body join those of the previous catalog.
MergeItems(built, u, b) == [built EXCEPT ![u] = @ \cup {b}]

\* The probe is recorded before the body is parsed.
Ingest ==
  \E u \in run.url :
    /\ RunStep("got", "fetching")
    /\ probe' = [probe EXCEPT ![u] = run.body]
    /\ run' = IF run.body \in Broken
              THEN [run EXCEPT !.url = {}, !.body = NoBody, !.missed = @ \cup {u}]
              ELSE [run EXCEPT !.url = {}, !.body = NoBody, !.missed = @ \ {u},
                               !.built = MergeItems(run.built, u, run.body)]
    /\ UNCHANGED <<baseline, mem, db, blind>>

FingerprintOfBuilt(u) ==
  IF u \in run.listed \ run.missed THEN probe[u] ELSE NoBody
\* rssMainFeedBuildForPersist: the probe, or else the previous fingerprint.
FingerprintOf(u) ==
  IF u \notin run.listed THEN NoBody
  ELSE IF probe[u] # NoBody THEN probe[u] ELSE run.prev[u]

ForPersist ==
  /\ run.todo = {}
  /\ RunStep("fetching", "publishing")
  /\ run' = [run EXCEPT !.fp = [u \in Url |-> FingerprintOf(u)]]
  /\ UNCHANGED <<probe, baseline, mem, db, blind>>

\* SetAndPersist replaces the catalog in memory and then saves it.  A
\* fingerprint this sync has not built may be ahead of the catalog, and the
\* baseline may be ahead of one that did not start from the stored catalog.
Ahead == IF run.lossy THEN Url ELSE {u \in run.missed : run.fp[u] # run.prev[u]}

Publish ==
  /\ RunStep("publishing", "saving")
  /\ mem' = [fp |-> run.fp, built |-> run.built]
  /\ blind' = blind \cup Ahead
  /\ UNCHANGED <<probe, baseline, db, run>>

Save ==
  /\ RunStep("saving", "saved")
  /\ db' = [fp |-> run.fp, built |-> run.built]
  /\ UNCHANGED <<probe, baseline, mem, run, blind>>

SaveFailsRefreshing ==
  /\ SaveFaults
  /\ rpc = "saving"
  /\ EndRun
  /\ baseline' = mem.fp
  /\ UNCHANGED <<mem, db, blind>>
\* After a failed save the baseline is left as it is.
SaveFails ==
  /\ SaveFaults
  /\ rpc = "saving"
  /\ EndRun
  /\ UNCHANGED <<baseline, mem, db, blind>>

RefreshNever ==
  /\ rpc = "saved"
  /\ EndRun
  /\ UNCHANGED <<baseline, blind, mem, db>>
\* refreshRSSLastBuildFromMem; a catalog without fingerprints leaves the
\* baseline.  The feeds this sync has built are no longer blind.
Refresh ==
  /\ rpc = "saved"
  /\ EndRun
  /\ IF Known(mem.fp) = {}
     THEN UNCHANGED <<baseline, blind>>
     ELSE /\ baseline' = mem.fp
          /\ blind' = blind \ (run.listed \ run.missed)
  /\ UNCHANGED <<mem, db>>

----------------------------------------------------------------------------
(* pollAndMaybeFire and RSSMainFeedsChanged *)

PollStep(from, to) ==
  /\ ppc = from
  /\ ppc' = to
  /\ UNCHANGED <<world, mem, db>>

\* A poll does not start while a sync is running.
PollStarts ==
  /\ rpc = "idle"
  /\ PollStep("idle", "starting")
  /\ UNCHANGED <<probe, baseline, loaded, blind, syncing, poll>>

\* ensureRSSLastBuildLoaded, once per process: from memory, or from the
\* database when memory has no fingerprint.  The baseline of a catalog that is
\* not stored, or that a sync is about to replace, may be ahead of the next one.
LoadedBaseline == IF Known(mem.fp) # {} THEN mem.fp ELSE db.fp
PollLoads ==
  /\ PollStep("starting", "listing")
  /\ loaded' = TRUE
  /\ \/ /\ loaded
        /\ UNCHANGED <<baseline, blind>>
     \/ /\ ~loaded
        /\ baseline' = LoadedBaseline
        /\ blind' = IF mem = db /\ rpc = "idle" THEN blind ELSE Url
     \/ /\ ~loaded /\ LoadFaults /\ Known(mem.fp) = {}
        /\ baseline' = NoFingerprints
        /\ UNCHANGED blind
  /\ UNCHANGED <<probe, syncing, poll>>

PollLists ==
  /\ UNCHANGED <<probe, baseline, loaded, syncing, blind>>
  /\ \/ /\ sources # {}
        /\ PollStep("listing", "asking")
        /\ poll' = [poll EXCEPT !.listed = sources, !.todo = sources]
     \/ /\ sources = {} \/ LoadFaults
        /\ PollStep("listing", "idle")
        /\ poll' = NoPoll

\* The conditional headers are those of the probe, or else of the baseline.
ConditionOf(u) ==
  IF u \notin Validating THEN NoBody
  ELSE IF probe[u] # NoBody THEN probe[u] ELSE baseline[u]
PollAsks ==
  \E u \in poll.todo :
    /\ PollStep("asking", "waiting")
    /\ poll' = [poll EXCEPT !.todo = @ \ {u}, !.url = {u}, !.asked = ConditionOf(u)]
    /\ UNCHANGED <<probe, baseline, loaded, syncing, blind>>

\* The feed answers: 304 (got is empty) or 200.  An error ends the poll.
PollAnswered ==
  \E u \in poll.url :
    /\ PollStep("waiting", "answered")
    /\ poll' = [poll EXCEPT !.saw[u] = feed[u],
                            !.got = IF poll.asked = feed[u] THEN NoBody ELSE feed[u]]
    /\ UNCHANGED <<probe, baseline, loaded, syncing, blind>>
PollAskFails ==
  /\ GetFaults
  /\ PollStep("waiting", "idle")
  /\ poll' = NoPoll
  /\ UNCHANGED <<probe, baseline, loaded, syncing, blind>>

\* A sync that is fetching has not built what a poll makes of the probes of us.
Miss(us) == IF rpc \in {"fetching", "got"}
            THEN [run EXCEPT !.missed = @ \cup (us \cap run.listed)] ELSE run

PollStoresBaseline ==
  \E u \in poll.url :
    /\ PollStep("answered", "asking")
    /\ probe' = [probe EXCEPT ![u] = IF poll.got = NoBody THEN baseline[u] ELSE poll.got]
    /\ run' = Miss({u})
    /\ poll' = [poll EXCEPT !.url = {}, !.asked = NoBody, !.got = NoBody]
    /\ UNCHANGED <<baseline, loaded, rpc, blind>>
\* 200 replaces the probe, 304 fills an empty one from the baseline.
PollStores ==
  \E u \in poll.url :
    /\ PollStep("answered", "asking")
    /\ probe' = [probe EXCEPT ![u] = CASE poll.got # NoBody -> poll.got
                                       [] poll.got = NoBody /\ @ # NoBody -> @
                                       [] OTHER -> baseline[u]]
    /\ run' = Miss({u})
    /\ poll' = [poll EXCEPT !.url = {}, !.asked = NoBody, !.got = NoBody]
    /\ UNCHANGED <<baseline, loaded, rpc, blind>>

\* A listed feed without probe, one without baseline, one that differs, or a
\* baseline of a feed that is no longer listed.
ListedDiffers == \E u \in poll.listed : probe[u] = NoBody \/ probe[u] # baseline[u]
Differs == ListedDiffers \/ ~(Known(baseline) \subseteq poll.listed)

\* Without any baseline the poll goes on to adopt one; otherwise it compares and
\* forgets the probes of feeds that are not listed.  The code does one after the
\* other, here they are one step: a sync that gets between them overlaps the
\* poll, and acts as one that comes just before or just after does.
PollDecides ==
  /\ poll.todo = {} /\ poll.url = {}
  /\ UNCHANGED <<baseline, loaded, rpc, blind>>
  /\ \/ /\ Known(baseline) = {}
        /\ PollStep("asking", "adopting")
        /\ UNCHANGED <<probe, run, poll>>
     \/ /\ Known(baseline) # {}
        /\ poll' = NoPoll
        /\ PollStep("asking", IF Differs THEN "changed" ELSE "idle")
        /\ probe' = [u \in Url |-> IF u \in poll.listed THEN probe[u] ELSE NoBody]
        /\ run' = Miss(Url \ poll.listed)

\* The first poll takes what the feeds show as the baseline, and no sync follows.
PollAdopts ==
  /\ PollStep("adopting", "idle")
  /\ IF poll.listed \subseteq Known(probe)
     THEN /\ baseline' = [u \in Url |-> IF u \in poll.listed THEN probe[u] ELSE NoBody]
          /\ blind' = Url
     ELSE UNCHANGED <<baseline, blind>>
  /\ poll' = NoPoll
  /\ UNCHANGED <<probe, loaded, syncing>>

\* The change is dropped when a sync is running; it would show again.
PollYields ==
  /\ rpc # "idle"
  /\ PollStep("changed", "idle")
  /\ UNCHANGED <<probe, baseline, loaded, syncing, blind, poll>>

----------------------------------------------------------------------------
(* The environment *)

\* A page persists the catalog that is in memory.
PersistSnapshot ==
  /\ mem.built # NothingBuilt
  /\ db' = mem
  /\ UNCHANGED <<world, probe, baseline, mem, syncing, polling, blind>>

FeedChanges ==
  /\ \E u \in Url : \E b \in Shown[u] : feed' = [feed EXCEPT ![u] = b]
  /\ UNCHANGED <<sources, probe, baseline, mem, db, syncing, polling, blind>>

SourcesChange ==
  /\ \E u \in Url : sources' = IF u \in sources THEN sources \ {u} ELSE sources \cup {u}
  /\ UNCHANGED <<feed, probe, baseline, mem, db, syncing, polling, blind>>

\* The process dies and starts again.  Memory is hydrated from the database
\* unless that fails or there is no item.
Hydrated == IF db.built = NothingBuilt THEN NoCatalog ELSE db
Restart ==
  /\ \/ mem' = Hydrated /\ UNCHANGED blind
     \/ LoadFaults /\ mem' = NoCatalog /\ blind' = Url
  /\ probe' = NoFingerprints
  /\ baseline' = NoFingerprints
  /\ loaded' = FALSE
  /\ rpc' = "idle"
  /\ run' = NoRun
  /\ ppc' = "idle"
  /\ poll' = NoPoll
  /\ UNCHANGED <<world, db>>

RunNext ==
  \/ LoadPrevious \/ ListRunSources \/ RunListFails \/ Fetch \/ FetchFails \/ Ingest
  \/ ForPersist \/ Publish \/ Save \/ SaveFails \/ Refresh

PollNext ==
  \/ PollStarts \/ PollLoads \/ PollLists \/ PollAsks \/ PollAnswered \/ PollAskFails
  \/ PollStores \/ PollDecides \/ PollAdopts \/ PollFires \/ PollYields

Next ==
  \/ FullTick \/ Rebuild \/ RunNext \/ PollNext
  \/ PersistSnapshot \/ FeedChanges \/ SourcesChange \/ Restart

Spec == Init /\ [][Next]_vars

\* A sync and a poll that have begun go on.  A loop that is idle again and again
\* takes its full tick (select chooses at random between two tickers that are
\* ready).  Nobody is obliged to ask for a rebuild.
Fairness ==
  /\ WF_vars(RunNext)
  /\ WF_vars(PollNext)
  /\ SF_vars(FullTick)

LiveSpec == Spec /\ Fairness

----------------------------------------------------------------------------
(* Properties *)

\* The fingerprint of a feed, in the baseline and in the catalogs, is of a body
\* the catalog was built from, so a poll that finds it again misses nothing;
\* except for feeds made blind by an adopted baseline, by a sync that could not
\* fetch or parse them (or did not load or keep the old catalog) while the probe
\* had moved on, or by a baseline taken from a catalog that was not stored or
\* while a sync was making the next.
BuiltFrom(fp, cat, u) == fp[u] = NoBody \/ fp[u] \in cat.built[u]
BaselineIsBuilt ==
  \A u \in Url \ blind :
    /\ BuiltFrom(baseline, mem, u)
    /\ BuiltFrom(mem.fp, mem, u)
    /\ BuiltFrom(db.fp, db, u)

\* A poll that ends without seeing a change has seen, of every listed feed, a
\* body the catalog has, unless a sync started under it or the feed is blind.
ChangesAreSeen ==
  [][PollDecides /\ ppc' = "idle" /\ ~poll.overlap =>
       \A u \in poll.listed \ blind : poll.saw[u] \in mem.built[u]]_vars

\* What a listed feed goes on showing reaches the catalog (unless the process
\* dies again and again): a full sync does not trust the fingerprints.
ChangesGetBuilt ==
  \A u \in Url, b \in Body :
    <>[](u \in sources /\ feed[u] = b) /\ <>[][~Restart]_vars =>
      <>[](b \in mem.built[u])

\* When feeds and sources stay as they are and saves succeed, polls stop asking
\* for syncs.
PollsSettle ==
  <>[][~FeedChanges /\ ~SourcesChange /\ ~Restart /\ ~SaveFails]_vars =>
    <>[][~PollFires]_vars

\* The feeds show what the last build and the last answers are of, every source
\* has a fingerprint and nothing else has one, and the sync and the poll under
\* way, which may have begun before, have nothing else in hand.
Quiet ==
  /\ sources # {}
  /\ \A u \in Url : baseline[u] = IF u \in sources THEN feed[u] ELSE NoBody
  /\ \A u \in sources : probe[u] = feed[u]
  /\ rpc \in {"fetching", "got"} => run.listed = sources
  /\ rpc = "got" => \A u \in run.url : run.body = feed[u]
  /\ rpc \in {"publishing", "saving", "saved"} => run.fp = baseline
  /\ loaded /\ ppc # "changed"
  /\ ppc \in {"asking", "waiting", "answered", "adopting"} => poll.listed = sources
  /\ ppc = "answered" => \A u \in poll.url : poll.got \in {NoBody, feed[u]}

\* While feeds and sources stay as they are, nothing that polls and syncs do to
\* probes and baseline, however they interleave and whatever fails in them,
\* makes a poll ask for a sync again.
QuietStaysQuiet ==
  [][Quiet /\ UNCHANGED world /\ ~Restart => Quiet' /\ ~PollFires]_vars

\* rss_main_feed_build.go:3 says that a fingerprint is of the body used for the
\* last catalog build.
FingerprintsAreBuilt == \A u \in Url : BuiltFrom(mem.fp, mem, u)

=============================================================================
