---------------------------- MODULE SyncScheduler ----------------------------
(***************************************************************************)
(* Who starts syncs of GoAnimes and what becomes of them.  The sync loop   *)
(* has a full ticker and a poll ticker, POST /rebuild and the start-up     *)
(* start goroutines of their own; all of them call RSSSyncService.Run with *)
(* a context whose time is already running while they wait for its mutex.  *)
(* GET /sync-status reads two atomics that Run sets.                       *)
(*                                                                         *)
(* The body of Run is FeedFetch between a load and a save.  A database     *)
(* that fails for other reasons than the time limit is in CatalogSync,     *)
(* what a poll compares in FeedPoll.                                       *)
(***************************************************************************)
EXTENDS FeedFetch

CONSTANTS
  Loop,      \* the goroutine of the sync loop
  Rebuilder, \* goroutines of POST /rebuild, and of the start-up
  Recovers,  \* the goroutines that recover from a panic
  NoJob,     \* the holder of a free mutex
  SaveFaults \* whether a save may fail

Job == Rebuilder \cup {Loop}

ASSUME JobAssumption ==
  /\ Loop \notin Rebuilder
  /\ NoJob \notin Job
  /\ Recovers \subseteq Job
  /\ SaveFaults \in BOOLEAN

VARIABLES
  mu,         \* holder of RSSSyncService.mu
  started,    \* syncRunStartedUnix is not 0
  running,    \* syncRunning
  jpc,        \* where each goroutine is with its call of Run
  late,       \* the goroutines whose time limit is over
  lpc,        \* where the sync loop is; down when the process is
  fullTick,   \* a tick in the channel of the full ticker, which holds one
  mem, db,    \* the releases in memory and the catalog in the database
  spc,        \* where GET /sync-status is
  ended,      \* history: a sync ended since the handler read syncRunning
  bornLate    \* history: the sync that holds mu began after its time

jobs == <<mu, started, running, jpc, late, bornLate>>
loop == <<lpc, fullTick>>
status == <<spc, ended>>
vars == <<jobs, loop, status, mem, db, fetching>>

JobPc == {"idle", "waiting", "flagging", "loading", "listing", "collecting",
          "publishing", "saving", "lowering", "unlocking"}
InRun(j) == jpc[j] \notin {"idle", "waiting"}

\* The loop is in Run when it fires, a time limit belongs to a call of Run, and
\* releases are collected inside one.
LoopFires == lpc = "firing" <=> jpc[Loop] # "idle"
LimitsRun == \A j \in late : jpc[j] # "idle"
RunCollects == fpc # "off" => \E j \in Job : jpc[j] = "collecting"

TypeOK ==
  /\ mu \in Job \cup {NoJob}
  /\ started \in BOOLEAN
  /\ running \in BOOLEAN
  /\ jpc \in [Job -> JobPc]
  /\ late \subseteq Job
  /\ lpc \in {"select", "probing", "firing", "stopped", "down"}
  /\ fullTick \in BOOLEAN
  /\ mem \subseteq Entry
  /\ db \in Catalog
  /\ spc \in {"idle", "saw running", "saw it again"}
  /\ ended \in BOOLEAN
  /\ bornLate \in BOOLEAN
  /\ FetchTypeOK
  /\ LoopFires /\ LimitsRun /\ RunCollects

Init ==
  /\ mu = NoJob
  /\ started = FALSE
  /\ running = FALSE
  /\ jpc = [j \in Job |-> "idle"]
  /\ late = {}
  /\ lpc = "select"
  /\ fullTick = FALSE
  /\ mem = {}
  /\ db = NoCatalog
  /\ spc = "idle"
  /\ ended = FALSE
  /\ bornLate = FALSE
  /\ fpc = "off"
  /\ work = NoWork
  /\ get = NoGet

----------------------------------------------------------------------------
(* RSSSyncService.Run *)

JobStep(j, from, to) == jpc[j] = from /\ jpc' = [jpc EXCEPT ![j] = to]

\* The time limit of a request begins with the request, before the mutex.
TimeUp(j) ==
  /\ jpc[j] # "idle"
  /\ late' = late \cup {j}
  /\ UNCHANGED <<mu, started, running, jpc, bornLate, loop, status, mem, db, fetching>>

StartUnlocked(j) ==
  /\ JobStep(j, "waiting", "flagging")
  /\ mu' = j
  /\ started' = TRUE
  /\ bornLate' = (j \in late)
  /\ UNCHANGED <<running, late, loop, status, mem, db, fetching>>
StartUntimed(j) ==
  /\ mu = NoJob
  /\ JobStep(j, "waiting", "flagging")
  /\ mu' = j
  /\ running' = TRUE
  /\ bornLate' = (j \in late)
  /\ UNCHANGED <<started, late, loop, status, mem, db, fetching>>
\* The mutex is taken and the start time stored.
Start(j) ==
  /\ mu = NoJob
  /\ JobStep(j, "waiting", "flagging")
  /\ mu' = j
  /\ started' = TRUE
  /\ bornLate' = (j \in late)
  /\ UNCHANGED <<running, late, loop, status, mem, db, fetching>>

RaiseFlag(j) ==
  /\ JobStep(j, "flagging", "loading")
  /\ running' = TRUE
  /\ UNCHANGED <<mu, started, late, bornLate, loop, status, mem, db, fetching>>

\* A load that the time limit ends counts as an empty catalog.
LoadPrevious(j) ==
  /\ JobStep(j, "loading", "listing")
  /\ work' = [NoWork EXCEPT !.prev = IF j \in late THEN NoCatalog ELSE db]
  /\ UNCHANGED <<mu, started, running, late, bornLate, loop, status, mem, db, fpc, get>>

ListIgnoringError(j) ==
  /\ JobStep(j, "listing", "collecting")
  /\ BeginFetch(work.prev)
  /\ UNCHANGED <<mu, started, running, late, bornLate, loop, status, mem, db>>
ListAndReturn(j) ==
  /\ UNCHANGED <<mu, started, running, late, bornLate, status, mem, db, fullTick>>
  /\ \/ /\ j \notin late
        /\ JobStep(j, "listing", "collecting")
        /\ BeginFetch(work.prev)
        /\ UNCHANGED lpc
     \/ /\ j \in late
        /\ JobStep(j, "listing", "idle")
        /\ lpc' = IF j = Loop THEN "select" ELSE lpc
        /\ UNCHANGED fetching
\* Then the list of sources fails too, and the sync ends.
ListSources(j) ==
  /\ UNCHANGED <<mu, started, running, late, bornLate, loop, status, mem, db>>
  /\ \/ /\ j \notin late
        /\ JobStep(j, "listing", "collecting")
        /\ BeginFetch(work.prev)
     \/ /\ j \in late
        /\ JobStep(j, "listing", "lowering")
        /\ UNCHANGED fetching

\* The .torrent and metadata requests between the merge and the save only add
\* to items and rows, and stop when time is up.
Collect(j) ==
  /\ UNCHANGED <<mu, started, running, late, bornLate, loop, status, mem, db>>
  /\ \/ /\ jpc[j] = "collecting"
        /\ FetchNext(j \in late)
        /\ UNCHANGED jpc
     \/ /\ fpc = "merging"
        /\ JobStep(j, "collecting", "publishing")
        /\ fpc' = "off"
        /\ UNCHANGED <<work, get>>

Publish(j) ==
  /\ JobStep(j, "publishing", "saving")
  /\ mem' = Merged.items
  /\ UNCHANGED <<mu, started, running, late, bornLate, loop, status, db, fetching>>

\* A save needs its time; when it fails, memory is ahead of the database.  It
\* stores what this sync published: nobody else changes the releases.
Save(j) ==
  /\ j \notin late
  /\ JobStep(j, "saving", "lowering")
  /\ db' = Merged
  /\ UNCHANGED <<mu, started, running, late, bornLate, loop, status, mem, fetching>>
SaveFails(j) ==
  /\ SaveFaults \/ j \in late
  /\ JobStep(j, "saving", "lowering")
  /\ UNCHANGED <<mu, started, running, late, bornLate, loop, status, mem, db, fetching>>

PanicPastDefers(j) ==
  /\ j \in Recovers
  /\ jpc[j] \in {"loading", "listing", "collecting", "publishing", "saving"}
  /\ jpc' = [jpc EXCEPT ![j] = "unlocking"]
  /\ fpc' = "off"
  /\ UNCHANGED <<mu, started, running, late, bornLate, loop, status, mem, db, work, get>>
\* A panic anywhere in Run is recovered by its goroutine: the loop's and that of
\* the start-up do.  In a goroutine of POST /rebuild it ends the process (Crash).
\* Either way the deferred calls run.
Panic(j) ==
  /\ j \in Recovers
  /\ jpc[j] \in {"loading", "listing", "collecting", "publishing", "saving"}
  /\ jpc' = [jpc EXCEPT ![j] = "lowering"]
  /\ fpc' = "off"
  /\ UNCHANGED <<mu, started, running, late, bornLate, loop, status, mem, db, work, get>>

LowerFlag(j) ==
  /\ JobStep(j, "lowering", "unlocking")
  /\ running' = FALSE
  /\ ended' = (spc # "idle")
  /\ UNCHANGED <<mu, started, late, bornLate, loop, spc, mem, db, fetching>>

\* The start time is cleared, the mutex released, and the goroutine returns.
UnlockAndHang(j) ==
  /\ JobStep(j, "unlocking", "idle")
  /\ started' = FALSE
  /\ mu' = NoJob
  /\ bornLate' = FALSE
  /\ late' = late \ {j}
  /\ work' = NoWork
  /\ get' = NoGet
  /\ UNCHANGED <<running, loop, status, mem, db, fpc>>
Unlock(j) ==
  /\ JobStep(j, "unlocking", "idle")
  /\ started' = FALSE
  /\ mu' = NoJob
  /\ bornLate' = FALSE
  /\ late' = late \ {j}
  /\ lpc' = IF j = Loop THEN "select" ELSE lpc
  /\ work' = NoWork
  /\ get' = NoGet
  /\ UNCHANGED <<running, fullTick, status, mem, db, fpc>>

----------------------------------------------------------------------------
(* SyncLoop.Run *)

quiet == <<mu, started, running, late, bornLate, status, mem, db, fetching>>

\* A tick that finds the channel full is dropped.
FullTickerFires ==
  /\ lpc \notin {"stopped", "down"}
  /\ fullTick' = TRUE
  /\ UNCHANGED <<quiet, jpc, lpc>>

LoopStep(from, to) == lpc = from /\ lpc' = to

\* fire
TakeFullIfIdle ==
  /\ lpc = "select" /\ fullTick
  /\ fullTick' = FALSE
  /\ \/ running /\ UNCHANGED <<jpc, lpc>>
     \/ ~running /\ lpc' = "firing" /\ JobStep(Loop, "idle", "waiting")
  /\ UNCHANGED quiet
TakeFull ==
  /\ fullTick
  /\ fullTick' = FALSE
  /\ LoopStep("select", "firing")
  /\ JobStep(Loop, "idle", "waiting")
  /\ UNCHANGED quiet

\* pollAndMaybeFire, at any tick of the poll ticker: skipped while a sync is
\* running, and its finding is dropped when one has begun during the poll.
TakePoll ==
  /\ ~running
  /\ LoopStep("select", "probing")
  /\ UNCHANGED <<quiet, jpc, fullTick>>
ProbeEnds ==
  /\ LoopStep("probing", "select")
  /\ UNCHANGED <<quiet, jpc, fullTick>>
ProbeFires ==
  /\ ~running
  /\ LoopStep("probing", "firing")
  /\ JobStep(Loop, "idle", "waiting")
  /\ UNCHANGED <<quiet, fullTick>>

\* SIGTERM: select may choose among the other channels before it sees it.
LoopStops ==
  /\ LoopStep("select", "stopped")
  /\ fullTick' = FALSE
  /\ UNCHANGED <<quiet, jpc>>

----------------------------------------------------------------------------
(* The HTTP handlers, the process *)

\* Every request starts a goroutine; the start-up does too.
PostRebuild(j) ==
  /\ lpc # "down"
  /\ JobStep(j, "idle", "waiting")
  /\ UNCHANGED <<quiet, loop>>

still == <<jobs, loop, mem, db, fetching>>

\* getSyncStatus reads syncRunning, and SyncRunStartedAt reads it once more
\* before the start time.
StatusSeesRunning ==
  /\ spc = "idle" /\ running
  /\ spc' = "saw running"
  /\ ended' = FALSE
  /\ UNCHANGED still
StatusSeesItAgain ==
  /\ spc = "saw running" /\ running
  /\ spc' = "saw it again"
  /\ UNCHANGED <<still, ended>>
StatusNamesStart ==
  /\ spc = "saw it again" /\ started
  /\ spc' = "idle"
  /\ ended' = FALSE
  /\ UNCHANGED still
StatusHasNoStart ==
  /\ \/ spc = "saw running" /\ ~running
     \/ spc = "saw it again" /\ ~started
  /\ spc' = "idle"
  /\ ended' = FALSE
  /\ UNCHANGED still

\* The process ends at any step, also after SIGTERM: no sync is waited for.
Crash ==
  /\ lpc # "down"
  /\ lpc' = "down"
  /\ mu' = NoJob
  /\ started' = FALSE
  /\ running' = FALSE
  /\ jpc' = [j \in Job |-> "idle"]
  /\ late' = {}
  /\ bornLate' = FALSE
  /\ fullTick' = FALSE
  /\ spc' = "idle"
  /\ ended' = FALSE
  /\ mem' = db.items \* what StartUp reads
  /\ fpc' = "off"
  /\ work' = NoWork
  /\ get' = NoGet
  /\ UNCHANGED db

StartUp ==
  /\ LoopStep("down", "select")
  /\ UNCHANGED <<quiet, jpc, fullTick>>

RunOf(j) ==
  \/ RaiseFlag(j) \/ LoadPrevious(j) \/ ListSources(j) \/ Collect(j)
  \/ Publish(j) \/ Save(j) \/ SaveFails(j) \/ LowerFlag(j) \/ Unlock(j)

LoopNext ==
  \/ TakeFull \/ TakePoll \/ ProbeEnds \/ ProbeFires \/ LoopStops

Next ==
  \/ \E j \in Job : Start(j) \/ RunOf(j) \/ Panic(j) \/ TimeUp(j)
  \/ \E j \in Rebuilder : PostRebuild(j)
  \/ LoopNext
  \/ FullTickerFires
  \/ StatusSeesRunning \/ StatusSeesItAgain \/ StatusNamesStart \/ StatusHasNoStart
  \/ Crash \/ StartUp

Spec == Init /\ [][Next]_vars

\* A sync that has the mutex goes on, since all its requests have time limits; a
\* mutex that is free again and again is not refused for ever (Go mutexes do not
\* starve); a poll ends; select chooses at random among what is ready.
Fairness ==
  /\ \A j \in Job : WF_vars(RunOf(j)) /\ SF_vars(Start(j))
  /\ WF_vars(ProbeEnds \/ ProbeFires)
  /\ SF_vars(TakeFull)

LiveSpec == Spec /\ Fairness

----------------------------------------------------------------------------
(* Properties *)

\* The syncs of GoAnimes are those of SyncService: asked for by who waits for
\* the mutex, served to who is inside Run.
Waiting == {j \in Job : jpc[j] = "waiting"}
Inside == IF \E j \in Job : InRun(j) THEN CHOOSE j \in Job : InRun(j) ELSE NoJob
Service == INSTANCE SyncService WITH
  asked   <- Waiting,
  serving <- Inside,
  stored  <- db.items,
  served  <- mem,
  excused <- FALSE,
  LoadFaults <- FALSE

\* At most one sync runs, each after its request, and what it publishes has all
\* that is stored, though its time may run out at any step, a panic or the death
\* of the process may end it, and its load and save may fail for it.
ImplementsService == Service!Spec

\* Every tick the loop took and every accepted rebuild gets its sync.
ServesEveryRequest == Service!Fairness

\* A sync whose time was over before it got the mutex changes nothing.
LateSyncsChangeNothing == [][bornLate /\ ~Crash => UNCHANGED <<mem, db>>]_vars

\* The flags of the status page: nobody inside Run shows no flag and no mutex,
\* and a raised flag has a start time.
FlagsFollowRun ==
  /\ running => started
  /\ started => \E j \in Job : InRun(j)
  /\ (\A j \in Job : ~InRun(j)) => mu = NoJob

\* A status that says a sync is running names its start, unless it ended meanwhile.
StatusNamesTheStart == [][StatusHasNoStart => ended]_vars

\* A stored release whose info hash makes later syncs skip it (and the way to its
\* anime) belongs to an anime that was expanded, or was given up because a GET
\* failed, the cap or the time limit was reached, or the source is not Erai.
KnownReleasesAreExpanded ==
  \A e \in db.items \cap Hashed : SlugOf[e] \in db.tried

\* A fetch comes to its end by itself: no step of it, of another goroutine or of
\* the loop leaves it more to do than before, whatever the feeds show, however
\* often servers ask to wait, and whether its time is limited or not.
FetchesAdvance ==
  [][fpc # "off" /\ fpc' # "off" =>
       UNCHANGED fetching \/ (StepsLeft' >= 0 /\ StepsLeft' < StepsLeft)]_vars

\* After a full tick a sync of the loop begins, whatever polls, rebuilds and
\* panics do meanwhile, unless the process ends.
TicksLeadToSyncs == fullTick ~> (jpc[Loop] = "flagging" \/ lpc \in {"stopped", "down"})

==============================================================================
