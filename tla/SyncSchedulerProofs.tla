------------------------- MODULE SyncSchedulerProofs -------------------------
(***************************************************************************)
(* Proofs of the safety properties of SyncScheduler, and that it           *)
(* implements SyncService, for any jobs, feeds, anime and releases.        *)
(***************************************************************************)
EXTENDS SyncScheduler, FiniteSetTheorems, TLAPS

(* The inductive invariant. *)

\* Who is inside Run holds the mutex.
MutexHeld ==
  /\ \A j \in Job : InRun(j) <=> mu = j
  /\ started <=> mu # NoJob

\* The flag is up while its sync is between raising and lowering it.
Raised == {"loading", "listing", "collecting", "publishing", "saving", "lowering"}
FlagIsUp == running <=> \E j \in Job : mu = j /\ jpc[j] \in Raised

\* A sync that began late never gets past the list of sources.
LateStaysOut ==
  bornLate => \A j \in Job :
    mu = j => j \in late /\ jpc[j] \in {"flagging", "loading", "listing", "lowering", "unlocking"}

\* A status that has seen the flag up misses it only when a sync has ended.
StatusExcused == spc # "idle" => running \/ ended

\* Slugs that were queued, or that a release taken so far leads to, are being
\* dealt with; before the merge, all of them have been.
Pending == work.tried \cup work.jobs \cup work.job
SlugsPending ==
  /\ work.queued \subseteq Pending
  /\ \A e \in work.batch : SlugOf[e] \in Pending
  /\ fpc \in {"sources", "asking main", "slugs", "merging"} => work.job = {}
  /\ fpc = "merging" => work.jobs = {}
AllTried ==
  \A j \in Job : jpc[j] \in {"publishing", "saving"} => \A e \in work.batch : SlugOf[e] \in work.tried
StoredIsTried == \A e \in db.items : SlugOf[e] \in db.tried

\* A sync in time works on what is stored, and saves what it published.
PreviousIsStored ==
  /\ \A j \in Job :
       jpc[j] \in {"collecting", "publishing", "saving"} \/ (jpc[j] = "listing" /\ j \notin late) =>
         work.prev = db
  /\ \A j \in Job : jpc[j] = "saving" => mem = Merged.items

Inv ==
  /\ MutexHeld /\ FlagIsUp /\ LateStaysOut /\ StatusExcused
  /\ SlugsPending /\ AllTried /\ StoredIsTried /\ PreviousIsStored

----------------------------------------------------------------------------
(* Types *)

LEMMA Constants ==
  /\ NoWork \in Work /\ NoCatalog \in Catalog /\ NoGet \in Get
  /\ \A e \in Entry : SlugOf[e] \in Slug
  /\ \A entries \in SUBSET Entry : SlugsOf(entries) \in SUBSET Slug
  BY EntryAssumption, LimitAssumption
  DEF NoWork, Work, NoCatalog, Catalog, NoGet, Get, Failures, Pauses, SlugsOf

LEMMA PauseType ==
  ASSUME NEW n \in Failures, NEW asked \in RetryAfter PROVE RetryWait(n, asked) \in Pauses
  BY DEF Pauses

LEMMA MergedType == ASSUME work \in Work PROVE Merged \in Catalog
  BY DEF Merged, Work, Catalog

LEMMA FetchSteps ==
  ASSUME FetchTypeOK, SlugsPending, NEW STATE isLate, FetchNext(isLate)
  PROVE  /\ FetchTypeOK' /\ SlugsPending'
         /\ work'.prev = work.prev /\ fpc # "off" /\ fpc' # "off"
<1> DEFINE Kept == work' \in Work /\ work'.prev = work.prev
<1>1. ASSUME Kept, SlugsPending', fpc # "off", fpc' \in FetchPc \ {"off"}, get' \in Get
      PROVE  FetchTypeOK' /\ work'.prev = work.prev /\ fpc' # "off"
  BY <1>1 DEF FetchTypeOK
<1>2. CASE PickSource
  <2> PICK s \in work.todo : work' = [work EXCEPT !.todo = @ \ {s}, !.source = {s}]
    BY <1>2 DEF PickSource
  <2>1. Kept /\ work'.job = work.job /\ work'.queued = work.queued /\ work'.batch = work.batch
        /\ work'.tried = work.tried /\ work'.jobs = work.jobs
    BY DEF FetchTypeOK, Work
  <2>2. FetchStep("sources", "asking main") /\ get' \in Get
    BY <1>2, Constants DEF PickSource
  <2>3. SlugsPending'
    BY <2>1, <2>2 DEF SlugsPending, Pending, FetchStep
  <2> QED
    BY <1>1, <2>1, <2>2, <2>3 DEF FetchStep, FetchPc
<1>3. CASE MainFails(isLate) \/ SourcesDone
  <2>1. Kept /\ work'.job = work.job /\ work'.queued = work.queued /\ work'.batch = work.batch
        /\ work'.tried = work.tried /\ work'.jobs = work.jobs
    BY <1>3 DEF MainFails, SourcesDone, FetchTypeOK, Work
  <2>2. get' \in Get /\ fpc \in {"asking main", "sources"} /\ fpc' \in {"sources", "slugs"}
    BY <1>3, Constants DEF MainFails, SourcesDone, FetchStep, FetchTypeOK
  <2>3. SlugsPending'
    BY <2>1, <2>2 DEF SlugsPending, Pending
  <2> QED
    BY <1>1, <2>1, <2>2, <2>3 DEF FetchPc
<1>4. CASE MainAnswers(isLate)
  <2> DEFINE slugs(shown) == SlugsOf(Unknown(shown))
             news(shown) == Unknown(shown) \cap Br
  <2> PICK shown \in SUBSET Entry, s \in work.source :
        work' = IF s \in Erai
                THEN [work EXCEPT !.source = {}, !.batch = @ \cup news(shown),
                                  !.queued = @ \cup slugs(shown),
                                  !.jobs = @ \cup (slugs(shown) \ work.queued)]
                ELSE [work EXCEPT !.source = {}, !.batch = @ \cup news(shown),
                                  !.tried = @ \cup SlugsOf(news(shown))]
    BY <1>4 DEF MainAnswers
  <2>1. FetchStep("asking main", "sources") /\ get' \in Get
    BY <1>4, Constants DEF MainAnswers
  <2>2. news(shown) \in SUBSET Entry /\ Unknown(shown) \in SUBSET Entry
    BY EntryAssumption DEF Unknown
  <2>3. slugs(shown) \in SUBSET Slug /\ SlugsOf(news(shown)) \in SUBSET Slug
    BY <2>2, Constants
  <2>4. \A e \in news(shown) : SlugOf[e] \in slugs(shown) /\ SlugOf[e] \in SlugsOf(news(shown))
    BY DEF SlugsOf
  <2> HIDE DEF slugs, news
  <2>5. CASE s \in Erai
    <3>1. /\ Kept /\ work'.job = work.job /\ work'.tried = work.tried
          /\ work'.batch = work.batch \cup news(shown)
          /\ work'.queued = work.queued \cup slugs(shown)
          /\ work'.jobs = work.jobs \cup (slugs(shown) \ work.queued)
      BY <2>2, <2>3, <2>5 DEF FetchTypeOK, Work
    <3>2. SlugsPending'
      BY <3>1, <2>1, <2>4 DEF SlugsPending, Pending, FetchStep
    <3> QED
      BY <1>1, <3>1, <3>2, <2>1 DEF FetchStep, FetchPc
  <2>6. CASE s \notin Erai
    <3>1. /\ Kept /\ work'.job = work.job /\ work'.queued = work.queued
          /\ work'.batch = work.batch \cup news(shown)
          /\ work'.tried = work.tried \cup SlugsOf(news(shown))
          /\ work'.jobs = work.jobs
      BY <2>2, <2>3, <2>6 DEF FetchTypeOK, Work
    <3>2. SlugsPending'
      BY <3>1, <2>1, <2>4 DEF SlugsPending, Pending, FetchStep
    <3> QED
      BY <1>1, <3>1, <3>2, <2>1 DEF FetchStep, FetchPc
  <2> QED
    BY <2>5, <2>6
<1>5. CASE PickSlug(isLate)
  <2> PICK g \in work.jobs : work' = [work EXCEPT !.jobs = @ \ {g}, !.job = {g}]
    BY <1>5 DEF PickSlug
  <2>1. Kept /\ work'.job = {g} /\ work'.queued = work.queued /\ work'.batch = work.batch
        /\ work'.tried = work.tried /\ work'.jobs = work.jobs \ {g}
    BY DEF FetchTypeOK, Work
  <2>2. FetchStep("slugs", "asking slug") /\ get' \in Get
    BY <1>5, Constants DEF PickSlug
  <2>3. SlugsPending'
    BY <2>1, <2>2 DEF SlugsPending, Pending, FetchStep
  <2> QED
    BY <1>1, <2>1, <2>2, <2>3 DEF FetchStep, FetchPc
<1>6. CASE SlugsDone(isLate)
  <2> work' = [work EXCEPT !.jobs = {}, !.tried = @ \cup work.jobs]
    BY <1>6 DEF SlugsDone
  <2>1. Kept /\ work'.job = work.job /\ work'.queued = work.queued /\ work'.batch = work.batch
        /\ work'.tried = work.tried \cup work.jobs /\ work'.jobs = {}
    BY DEF FetchTypeOK, Work
  <2>2. FetchStep("slugs", "merging") /\ get' \in Get
    BY <1>6 DEF SlugsDone, FetchTypeOK
  <2>3. SlugsPending'
    BY <2>1, <2>2 DEF SlugsPending, Pending, FetchStep
  <2> QED
    BY <1>1, <2>1, <2>2, <2>3 DEF FetchStep, FetchPc
<1>7. CASE SlugFails(isLate) \/ SlugBroken(isLate)
  <2>1. Kept /\ work'.job = {} /\ work'.queued = work.queued /\ work'.batch = work.batch
        /\ work'.tried = work.tried \cup work.job /\ work'.jobs = work.jobs
    <3>1. CASE work' = [work EXCEPT !.job = {}, !.tried = @ \cup work.job]
      BY <3>1 DEF FetchTypeOK, Work
    <3>2. CASE work' = [work EXCEPT !.job = {}, !.ok = @ + 1, !.tried = @ \cup work.job]
      <4> DEFINE n == work.ok + 1
      <4>1. n \in Nat
        BY DEF FetchTypeOK, Work
      <4> HIDE DEF n
      <4>2. work' = [work EXCEPT !.job = {}, !.ok = n, !.tried = @ \cup work.job]
        BY <3>2 DEF n
      <4> QED
        BY <4>1, <4>2 DEF FetchTypeOK, Work
    <3> QED
      BY <1>7, <3>1, <3>2 DEF SlugFails, SlugBroken
  <2>2. FetchStep("asking slug", "slugs") /\ get' \in Get
    BY <1>7, Constants DEF SlugFails, SlugBroken
  <2>3. SlugsPending'
    BY <2>1, <2>2 DEF SlugsPending, Pending, FetchStep
  <2> QED
    BY <1>1, <2>1, <2>2, <2>3 DEF FetchStep, FetchPc
<1>8. CASE SlugAnswers(isLate)
  <2>0. work.ok + 1 \in Nat
    BY DEF FetchTypeOK, Work
  <2> PICK shown \in SUBSET {e \in Br : SlugOf[e] \in work.job}, n \in Nat :
        work' = [work EXCEPT !.job = {}, !.ok = n, !.batch = @ \cup shown,
                             !.tried = @ \cup work.job]
    BY <1>8, <2>0 DEF SlugAnswers
  <2> shown \in SUBSET Entry
    BY EntryAssumption
  <2>1. Kept /\ work'.job = {} /\ work'.queued = work.queued
        /\ work'.batch = work.batch \cup shown
        /\ work'.tried = work.tried \cup work.job /\ work'.jobs = work.jobs
    BY DEF FetchTypeOK, Work
  <2>2. FetchStep("asking slug", "slugs") /\ get' \in Get
    BY <1>8, Constants DEF SlugAnswers
  <2>3. SlugsPending'
    BY <2>1, <2>2 DEF SlugsPending, Pending, FetchStep
  <2> QED
    BY <1>1, <2>1, <2>2, <2>3 DEF FetchStep, FetchPc
<1>9. CASE TryAgain(isLate) \/ WaitIsOver
  <2>1. UNCHANGED <<fpc, work>>
    BY <1>9 DEF TryAgain, WaitIsOver
  <2>2. ASSUME TryAgain(isLate) PROVE fpc # "off" /\ get' \in Get
    <3> DEFINE n == get.failed + 1
    <3>1. fpc # "off" /\ n < Attempts
      BY <2>2 DEF TryAgain
    <3>2. get.failed \in Failures
      BY DEF FetchTypeOK, Get
    <3>3. n \in Failures
      <4>1. Attempts \in Nat /\ Attempts <= MainAttempts + PerAnimeAttempts
        <5>1. Attempts = MainAttempts \/ Attempts = PerAnimeAttempts
          BY DEF Attempts
        <5> QED
          BY <5>1, LimitAssumption
      <4> QED
        BY <3>1, <3>2, <4>1, LimitAssumption DEF Failures
    <3>4. \E asked \in RetryAfter : get' = [failed |-> n, pause |-> RetryWait(n, asked)]
      BY <2>2 DEF TryAgain
    <3> HIDE DEF n
    <3>5. \E pause \in Pauses : get' = [failed |-> n, pause |-> pause]
      BY <3>3, <3>4, PauseType
    <3> QED
      BY <3>1, <3>3, <3>5 DEF Get
  <2>3. ASSUME WaitIsOver PROVE fpc # "off" /\ get' \in Get
    <3>1. 0 \in Pauses
      BY DEF Pauses
    <3> QED
      BY <2>3, <3>1 DEF WaitIsOver, FetchTypeOK, Get
  <2> QED
    BY <1>1, <1>9, <2>1, <2>2, <2>3 DEF SlugsPending, Pending, FetchTypeOK
<1> QED
  BY <1>2, <1>3, <1>4, <1>5, <1>6, <1>7, <1>8, <1>9 DEF FetchNext

LEMMA LoopIsJob == Loop \in Job /\ NoJob \notin Job
  BY JobAssumption DEF Job

\* A sync starts with no work but the catalog it loaded.
Fresh(w, p) == /\ w \in Work /\ w.prev = p
               /\ w.queued = {} /\ w.batch = {} /\ w.jobs = {} /\ w.job = {}

LEMMA FreshWork ==
  ASSUME NEW p \in Catalog
  PROVE  Fresh([NoWork EXCEPT !.prev = p], p) /\ Fresh([NoWork EXCEPT !.prev = p, !.todo = Source], p)
  BY DEF Fresh, NoWork, Work

LEMMA NoWorkIsFresh == Fresh(NoWork, NoCatalog)
  BY Constants DEF Fresh, NoWork

Basics ==
  /\ mu \in Job \cup {NoJob}
  /\ started \in BOOLEAN /\ running \in BOOLEAN
  /\ jpc \in [Job -> JobPc]
  /\ late \subseteq Job
  /\ lpc \in {"select", "probing", "firing", "stopped", "down"}
  /\ fullTick \in BOOLEAN
  /\ mem \subseteq Entry /\ db \in Catalog
  /\ spc \in {"idle", "saw running", "saw it again"}
  /\ ended \in BOOLEAN /\ bornLate \in BOOLEAN
  /\ FetchTypeOK

LEMMA TypeOKParts == TypeOK <=> Basics /\ LoopFires /\ LimitsRun /\ RunCollects
  BY DEF TypeOK, Basics

----------------------------------------------------------------------------
(* The steps of Run *)

LEMMA RunSteps ==
  ASSUME TypeOK, Inv, NEW j \in Job, Start(j) \/ RunOf(j) \/ Panic(j) \/ TimeUp(j)
  PROVE  TypeOK' /\ Inv'
<1> USE LoopIsJob, TypeOKParts DEF Inv, JobStep, status, loop, fetching
<1>types. Basics' /\ LoopFires' /\ LimitsRun' /\ RunCollects' => TypeOK'
  BY DEF TypeOK, Basics
<1>1. CASE Start(j)
  <2>p1. bornLate' \in BOOLEAN
    BY <1>1 DEF Start
  <2>1. Basics'
    BY <1>1, <2>p1 DEF Start, Basics, JobPc, FetchTypeOK
  <2>2. LoopFires' /\ LimitsRun' /\ RunCollects'
    BY <1>1 DEF Start, Basics, LoopFires, LimitsRun, RunCollects, MutexHeld, InRun
  <2>3. MutexHeld' /\ FlagIsUp' /\ StatusExcused'
    BY <1>1 DEF Start, Basics, MutexHeld, FlagIsUp, StatusExcused, InRun, Raised
  <2>4. LateStaysOut'
    BY <1>1 DEF Start, Basics, LateStaysOut, MutexHeld, InRun
  <2>5. SlugsPending' /\ AllTried' /\ StoredIsTried'
    BY <1>1 DEF Start, Basics, SlugsPending, Pending, AllTried, StoredIsTried
  <2>6. PreviousIsStored'
    BY <1>1 DEF Start, Basics, PreviousIsStored, MutexHeld, InRun
  <2> QED
    BY <1>types, <2>1, <2>2, <2>3, <2>4, <2>5, <2>6
<1>2. CASE RaiseFlag(j)
  <2>1. Basics'
    BY <1>2 DEF RaiseFlag, Basics, JobPc, FetchTypeOK
  <2>2. LoopFires' /\ LimitsRun' /\ RunCollects'
    BY <1>2 DEF RaiseFlag, Basics, LoopFires, LimitsRun, RunCollects, MutexHeld, InRun
  <2>3. MutexHeld' /\ FlagIsUp' /\ StatusExcused'
    BY <1>2 DEF RaiseFlag, Basics, MutexHeld, FlagIsUp, StatusExcused, InRun, Raised
  <2>4. LateStaysOut'
    BY <1>2 DEF RaiseFlag, Basics, LateStaysOut, MutexHeld, InRun
  <2>5. SlugsPending' /\ AllTried' /\ StoredIsTried'
    BY <1>2 DEF RaiseFlag, Basics, SlugsPending, Pending, AllTried, StoredIsTried
  <2>6. PreviousIsStored'
    BY <1>2 DEF RaiseFlag, Basics, PreviousIsStored, MutexHeld, InRun
  <2> QED
    BY <1>types, <2>1, <2>2, <2>3, <2>4, <2>5, <2>6
<1>3. CASE LoadPrevious(j)
  <2> DEFINE prev == IF j \in late THEN NoCatalog ELSE db
  <2>p2. prev \in Catalog /\ work' = [NoWork EXCEPT !.prev = prev]
    BY <1>3, Constants DEF LoadPrevious, Basics
  <2> HIDE DEF prev
  <2>p3. Fresh(work', prev)
    BY <2>p2, FreshWork
  <2>p1. Fresh(work', work'.prev) /\ (j \notin late => work'.prev = db)
    BY <2>p3 DEF Fresh, prev
  <2>1. Basics'
    BY <1>3, <2>p1 DEF LoadPrevious, Fresh, Basics, JobPc, FetchTypeOK
  <2>2. LoopFires' /\ LimitsRun' /\ RunCollects'
    BY <1>3, <2>p1 DEF LoadPrevious, Fresh, Basics, LoopFires, LimitsRun, RunCollects, MutexHeld, InRun
  <2>3. MutexHeld' /\ FlagIsUp' /\ StatusExcused'
    BY <1>3, <2>p1 DEF LoadPrevious, Fresh, Basics, MutexHeld, FlagIsUp, StatusExcused, InRun, Raised
  <2>4. LateStaysOut'
    BY <1>3, <2>p1 DEF LoadPrevious, Fresh, Basics, LateStaysOut, MutexHeld, InRun
  <2>5. SlugsPending' /\ AllTried' /\ StoredIsTried'
    BY <1>3, <2>p1 DEF LoadPrevious, Fresh, Basics, SlugsPending, Pending, AllTried, StoredIsTried
  <2>6. PreviousIsStored'
    BY <1>3, <2>p1 DEF LoadPrevious, Fresh, Basics, PreviousIsStored, MutexHeld, InRun
  <2> QED
    BY <1>types, <2>1, <2>2, <2>3, <2>4, <2>5, <2>6
<1>4. CASE ListSources(j)
  <2>p1. CASE jpc'[j] = "collecting"
    <3>1. Fresh(work', work.prev) /\ fpc' = "sources" /\ UNCHANGED get /\ j \notin late
          /\ jpc[j] = "listing" /\ jpc' = [jpc EXCEPT ![j] = "collecting"]
          /\ UNCHANGED <<mu, started, running, late, bornLate, loop, status, mem, db>>
      BY <1>4, <2>p1, FreshWork DEF ListSources, BeginFetch, FetchStep, Basics, FetchTypeOK, Work
    <3>2. Basics'
      BY <2>p1, <3>1 DEF Fresh, Basics, JobPc, FetchTypeOK, FetchPc
    <3>3. LoopFires' /\ LimitsRun' /\ RunCollects'
      BY <2>p1, <3>1 DEF Fresh, Basics, LoopFires, LimitsRun, RunCollects, MutexHeld, InRun
    <3>4. MutexHeld' /\ FlagIsUp' /\ StatusExcused'
      BY <2>p1, <3>1 DEF Fresh, Basics, MutexHeld, FlagIsUp, StatusExcused, InRun, Raised
    <3>5. LateStaysOut'
      BY <2>p1, <3>1 DEF Fresh, Basics, LateStaysOut, MutexHeld, InRun
    <3>6. SlugsPending' /\ AllTried' /\ StoredIsTried'
      BY <2>p1, <3>1 DEF Fresh, Basics, SlugsPending, Pending, AllTried, StoredIsTried
    <3>7. PreviousIsStored'
      BY <2>p1, <3>1 DEF Fresh, Basics, PreviousIsStored, MutexHeld, InRun
    <3> QED
      BY <1>types, <3>2, <3>3, <3>4, <3>5, <3>6, <3>7
  <2>1. CASE jpc'[j] # "collecting"
    <3>1. jpc[j] = "listing" /\ j \in late /\ jpc' = [jpc EXCEPT ![j] = "lowering"]
          /\ UNCHANGED <<mu, started, running, late, bornLate, loop, status, mem, db, fetching>>
      BY <1>4, <2>1 DEF ListSources, Basics
    <3>2. Basics'
      BY <3>1 DEF Basics, JobPc, FetchTypeOK
    <3>3. LoopFires' /\ LimitsRun' /\ RunCollects'
      BY <3>1 DEF Basics, LoopFires, LimitsRun, RunCollects, MutexHeld, InRun
    <3>4. MutexHeld' /\ FlagIsUp' /\ StatusExcused'
      BY <3>1 DEF Basics, MutexHeld, FlagIsUp, StatusExcused, InRun, Raised
    <3>5. LateStaysOut'
      BY <3>1 DEF Basics, LateStaysOut, MutexHeld, InRun
    <3>6. SlugsPending' /\ AllTried' /\ StoredIsTried'
      BY <3>1 DEF Basics, SlugsPending, Pending, AllTried, StoredIsTried
    <3>7. PreviousIsStored'
      BY <3>1 DEF Basics, PreviousIsStored, MutexHeld, InRun
    <3> QED
      BY <1>types, <3>2, <3>3, <3>4, <3>5, <3>6, <3>7
  <2> QED
    BY <2>p1, <2>1
<1>5. CASE Publish(j)
  <2>p1. Merged.items \subseteq Entry
    BY MergedType DEF Basics, FetchTypeOK, Catalog
  <2>1. Basics'
    BY <1>5, <2>p1 DEF Publish, Basics, JobPc, FetchTypeOK
  <2>2. LoopFires' /\ LimitsRun' /\ RunCollects'
    BY <1>5, <2>p1 DEF Publish, Basics, LoopFires, LimitsRun, RunCollects, MutexHeld, InRun
  <2>3. MutexHeld' /\ FlagIsUp' /\ StatusExcused'
    BY <1>5, <2>p1 DEF Publish, Basics, MutexHeld, FlagIsUp, StatusExcused, InRun, Raised
  <2>4. LateStaysOut'
    BY <1>5, <2>p1 DEF Publish, Basics, LateStaysOut, MutexHeld, InRun
  <2>5. SlugsPending' /\ AllTried' /\ StoredIsTried'
    BY <1>5, <2>p1 DEF Publish, Basics, SlugsPending, Pending, AllTried, StoredIsTried
  <2>6. PreviousIsStored'
    BY <1>5, <2>p1 DEF Publish, Basics, PreviousIsStored, Merged, MutexHeld, InRun
  <2> QED
    BY <1>types, <2>1, <2>2, <2>3, <2>4, <2>5, <2>6
<1>6. CASE Save(j)
  <2>p1. Merged \in Catalog /\ \A e \in Merged.items : SlugOf[e] \in Merged.tried
    BY <1>6, MergedType DEF Save, Basics, FetchTypeOK, Merged, PreviousIsStored, AllTried, StoredIsTried
  <2>p2. Merged.items = mem /\ UNCHANGED Merged
    BY <1>6 DEF Save, PreviousIsStored, Merged
  <2>1. Basics'
    BY <1>6, <2>p1, <2>p2 DEF Save, Basics, JobPc, FetchTypeOK
  <2>2. LoopFires' /\ LimitsRun' /\ RunCollects'
    BY <1>6, <2>p1, <2>p2 DEF Save, Basics, LoopFires, LimitsRun, RunCollects, MutexHeld, InRun
  <2>3. MutexHeld' /\ FlagIsUp' /\ StatusExcused'
    BY <1>6, <2>p1, <2>p2 DEF Save, Basics, MutexHeld, FlagIsUp, StatusExcused, InRun, Raised
  <2>4. LateStaysOut'
    BY <1>6, <2>p1, <2>p2 DEF Save, Basics, LateStaysOut, MutexHeld, InRun
  <2>5. SlugsPending' /\ AllTried' /\ StoredIsTried'
    BY <1>6, <2>p1, <2>p2 DEF Save, Basics, SlugsPending, Pending, AllTried, StoredIsTried
  <2>6. PreviousIsStored'
    BY <1>6, <2>p1, <2>p2 DEF Save, Basics, PreviousIsStored, MutexHeld, InRun
  <2> QED
    BY <1>types, <2>1, <2>2, <2>3, <2>4, <2>5, <2>6
<1>7. CASE SaveFails(j)
  <2>1. Basics'
    BY <1>7 DEF SaveFails, Basics, JobPc, FetchTypeOK
  <2>2. LoopFires' /\ LimitsRun' /\ RunCollects'
    BY <1>7 DEF SaveFails, Basics, LoopFires, LimitsRun, RunCollects, MutexHeld, InRun
  <2>3. MutexHeld' /\ FlagIsUp' /\ StatusExcused'
    BY <1>7 DEF SaveFails, Basics, MutexHeld, FlagIsUp, StatusExcused, InRun, Raised
  <2>4. LateStaysOut'
    BY <1>7 DEF SaveFails, Basics, LateStaysOut, MutexHeld, InRun
  <2>5. SlugsPending' /\ AllTried' /\ StoredIsTried'
    BY <1>7 DEF SaveFails, Basics, SlugsPending, Pending, AllTried, StoredIsTried
  <2>6. PreviousIsStored'
    BY <1>7 DEF SaveFails, Basics, PreviousIsStored, MutexHeld, InRun
  <2> QED
    BY <1>types, <2>1, <2>2, <2>3, <2>4, <2>5, <2>6
<1>8. CASE Panic(j)
  <2>1. Basics'
    BY <1>8 DEF Panic, Basics, JobPc, FetchTypeOK, FetchPc
  <2>2. LoopFires' /\ LimitsRun' /\ RunCollects'
    BY <1>8 DEF Panic, Basics, LoopFires, LimitsRun, RunCollects, MutexHeld, InRun
  <2>3. MutexHeld' /\ FlagIsUp' /\ StatusExcused'
    BY <1>8 DEF Panic, Basics, MutexHeld, FlagIsUp, StatusExcused, InRun, Raised
  <2>4. LateStaysOut'
    BY <1>8 DEF Panic, Basics, LateStaysOut, MutexHeld, InRun
  <2>5. SlugsPending' /\ AllTried' /\ StoredIsTried'
    BY <1>8 DEF Panic, Basics, SlugsPending, Pending, AllTried, StoredIsTried
  <2>6. PreviousIsStored'
    BY <1>8 DEF Panic, Basics, PreviousIsStored, MutexHeld, InRun
  <2> QED
    BY <1>types, <2>1, <2>2, <2>3, <2>4, <2>5, <2>6
<1>9. CASE TimeUp(j)
  <2>1. Basics'
    BY <1>9 DEF TimeUp, Basics, FetchTypeOK
  <2>2. LoopFires' /\ LimitsRun' /\ RunCollects'
    BY <1>9 DEF TimeUp, Basics, LoopFires, LimitsRun, RunCollects, MutexHeld, InRun
  <2>3. MutexHeld' /\ FlagIsUp' /\ StatusExcused'
    BY <1>9 DEF TimeUp, Basics, MutexHeld, FlagIsUp, StatusExcused, InRun, Raised
  <2>4. LateStaysOut'
    BY <1>9 DEF TimeUp, Basics, LateStaysOut, MutexHeld, InRun
  <2>5. SlugsPending' /\ AllTried' /\ StoredIsTried'
    BY <1>9 DEF TimeUp, Basics, SlugsPending, Pending, AllTried, StoredIsTried
  <2>6. PreviousIsStored'
    BY <1>9 DEF TimeUp, Basics, PreviousIsStored, Merged, MutexHeld, InRun
  <2> QED
    BY <1>types, <2>1, <2>2, <2>3, <2>4, <2>5, <2>6
<1>10. CASE LowerFlag(j)
  <2>1. Basics'
    BY <1>10 DEF LowerFlag, Basics, JobPc, FetchTypeOK
  <2>2. LoopFires' /\ LimitsRun' /\ RunCollects'
    BY <1>10 DEF LowerFlag, Basics, LoopFires, LimitsRun, RunCollects, MutexHeld, InRun
  <2>3. MutexHeld' /\ FlagIsUp' /\ StatusExcused'
    BY <1>10 DEF LowerFlag, Basics, MutexHeld, FlagIsUp, StatusExcused, InRun, Raised
  <2>4. LateStaysOut'
    BY <1>10 DEF LowerFlag, Basics, LateStaysOut, MutexHeld, InRun
  <2>5. SlugsPending' /\ AllTried' /\ StoredIsTried'
    BY <1>10 DEF LowerFlag, Basics, SlugsPending, Pending, AllTried, StoredIsTried
  <2>6. PreviousIsStored'
    BY <1>10 DEF LowerFlag, Basics, PreviousIsStored, MutexHeld, InRun
  <2> QED
    BY <1>types, <2>1, <2>2, <2>3, <2>4, <2>5, <2>6
<1>11. CASE Unlock(j)
  <2>p1. Fresh(work', NoCatalog) /\ get' \in Get
    BY <1>11, NoWorkIsFresh, Constants DEF Unlock
  <2>1. Basics'
    BY <1>11, <2>p1 DEF Unlock, Fresh, Basics, JobPc, FetchTypeOK, FetchPc
  <2>2. LoopFires' /\ LimitsRun' /\ RunCollects'
    BY <1>11, <2>p1 DEF Unlock, Fresh, Basics, LoopFires, LimitsRun, RunCollects, MutexHeld, InRun
  <2>3. MutexHeld' /\ FlagIsUp' /\ StatusExcused'
    BY <1>11, <2>p1 DEF Unlock, Fresh, Basics, MutexHeld, FlagIsUp, StatusExcused, InRun, Raised
  <2>4. LateStaysOut'
    BY <1>11, <2>p1 DEF Unlock, Fresh, Basics, LateStaysOut, MutexHeld, InRun
  <2>5. SlugsPending' /\ AllTried' /\ StoredIsTried'
    BY <1>11, <2>p1 DEF Unlock, Fresh, Basics, SlugsPending, Pending, AllTried, StoredIsTried
  <2>6. PreviousIsStored'
    BY <1>11, <2>p1 DEF Unlock, Fresh, Basics, PreviousIsStored, MutexHeld, InRun
  <2> QED
    BY <1>types, <2>1, <2>2, <2>3, <2>4, <2>5, <2>6
<1>12. CASE Collect(j) /\ fpc' # "off"
  <2>1. /\ jpc[j] = "collecting" /\ UNCHANGED jpc /\ FetchNext(j \in late)
        /\ UNCHANGED <<mu, started, running, late, bornLate, loop, status, mem, db>>
    BY <1>12 DEF Collect
  <2>2. FetchTypeOK' /\ SlugsPending' /\ work'.prev = work.prev
    BY <2>1, FetchSteps DEF Basics
  <2>3. Basics' /\ LoopFires' /\ LimitsRun' /\ RunCollects'
    BY <2>1, <2>2 DEF Basics, LoopFires, LimitsRun, RunCollects
  <2>4. MutexHeld' /\ FlagIsUp' /\ LateStaysOut' /\ StatusExcused' /\ StoredIsTried'
    BY <2>1 DEF MutexHeld, FlagIsUp, LateStaysOut, StatusExcused, StoredIsTried, InRun
  <2>5. AllTried' /\ PreviousIsStored'
    BY <2>1, <2>2 DEF AllTried, PreviousIsStored, MutexHeld, InRun
  <2> QED
    BY <1>types, <2>2, <2>3, <2>4, <2>5
<1>13. CASE Collect(j) /\ fpc' = "off"
  <2>1. /\ fpc = "merging" /\ jpc[j] = "collecting"
        /\ jpc' = [jpc EXCEPT ![j] = "publishing"] /\ UNCHANGED <<work, get>>
        /\ UNCHANGED <<mu, started, running, late, bornLate, loop, status, mem, db>>
    BY <1>13, FetchSteps DEF Collect, Basics
  <2>2. Basics' /\ LoopFires' /\ LimitsRun' /\ RunCollects'
    BY <1>13, <2>1 DEF Basics, JobPc, FetchTypeOK, FetchPc, LoopFires, LimitsRun, RunCollects
  <2>3. MutexHeld' /\ FlagIsUp' /\ LateStaysOut' /\ StatusExcused' /\ StoredIsTried'
    BY <2>1 DEF Basics, MutexHeld, FlagIsUp, LateStaysOut, StatusExcused, StoredIsTried, InRun, Raised
  <2>4. SlugsPending' /\ AllTried'
    BY <1>13, <2>1 DEF Basics, SlugsPending, Pending, AllTried
  <2>5. PreviousIsStored'
    BY <2>1 DEF Basics, PreviousIsStored, MutexHeld, InRun, Merged
  <2> QED
    BY <1>types, <2>2, <2>3, <2>4, <2>5
<1> QED
  BY <1>1, <1>2, <1>3, <1>4, <1>5, <1>6, <1>7, <1>8, <1>9, <1>10, <1>11, <1>12, <1>13 DEF RunOf

----------------------------------------------------------------------------
(* The other steps *)

Waking == \/ \E j \in Rebuilder : PostRebuild(j)
          \/ TakeFull \/ ProbeFires
Turning == TakePoll \/ ProbeEnds \/ LoopStops \/ FullTickerFires \/ StartUp
Watching == StatusSeesRunning \/ StatusSeesItAgain \/ StatusNamesStart \/ StatusHasNoStart

\* Who starts to wait for the mutex changes nothing else of Run.
LEMMA WakingStep ==
  ASSUME TypeOK, Waking
  PROVE  \E j \in Job : /\ jpc[j] = "idle" /\ jpc' = [jpc EXCEPT ![j] = "waiting"]
                        /\ UNCHANGED <<quiet, mu, started, running, late, bornLate, status,
                                       mem, db, fetching>>
                        /\ j = Loop => lpc' = "firing"
                        /\ j # Loop => UNCHANGED lpc
                        /\ lpc' \in {"select", "probing", "firing", "stopped", "down"}
                        /\ fullTick' \in BOOLEAN
<1>1. CASE \E j \in Rebuilder : PostRebuild(j)
  BY <1>1, JobAssumption DEF PostRebuild, JobStep, quiet, loop, Job, TypeOK
<1>2. CASE TakeFull \/ ProbeFires
  BY <1>2, LoopIsJob DEF TakeFull, ProbeFires, JobStep, LoopStep, quiet, TypeOK
<1> QED
  BY <1>1, <1>2 DEF Waking

LEMMA OtherSteps ==
  ASSUME TypeOK, Inv, Waking \/ Turning \/ Watching \/ Crash \/ UNCHANGED vars
  PROVE  TypeOK' /\ Inv'
<1> USE LoopIsJob, TypeOKParts DEF Inv, status, loop, fetching
<1>types. Basics' /\ LoopFires' /\ LimitsRun' /\ RunCollects' => TypeOK'
  BY DEF TypeOK, Basics
<1>1. CASE Waking
  <2> PICK j \in Job : /\ jpc[j] = "idle" /\ jpc' = [jpc EXCEPT ![j] = "waiting"]
                       /\ UNCHANGED <<quiet, mu, started, running, late, bornLate, status,
                                      mem, db, fetching>>
                       /\ j = Loop => lpc' = "firing"
                       /\ j # Loop => UNCHANGED lpc
                       /\ lpc' \in {"select", "probing", "firing", "stopped", "down"}
                       /\ fullTick' \in BOOLEAN
    BY <1>1, WakingStep
  <2>1. Basics'
    BY DEF Basics, JobPc, FetchTypeOK
  <2>2. LoopFires' /\ LimitsRun' /\ RunCollects'
    BY DEF Basics, LoopFires, LimitsRun, RunCollects
  <2>3. MutexHeld' /\ FlagIsUp' /\ StatusExcused'
    BY DEF Basics, MutexHeld, FlagIsUp, StatusExcused, InRun, Raised
  <2>4. LateStaysOut' /\ SlugsPending' /\ AllTried' /\ StoredIsTried'
    BY DEF Basics, LateStaysOut, MutexHeld, InRun, SlugsPending, Pending, AllTried, StoredIsTried
  <2>5. PreviousIsStored'
    BY DEF Basics, PreviousIsStored, Merged
  <2> QED
    BY <1>types, <2>1, <2>2, <2>3, <2>4, <2>5
<1>2. CASE Turning \/ Watching \/ UNCHANGED vars
  <2>1. /\ UNCHANGED <<jpc, mu, started, running, late, bornLate, mem, db, fetching>>
        /\ lpc' \in {"select", "probing", "firing", "stopped", "down"}
        /\ lpc = "firing" <=> lpc' = "firing"
        /\ fullTick' \in BOOLEAN
    BY <1>2
    DEF Turning, Watching, TakePoll, ProbeEnds, LoopStops, FullTickerFires, StartUp,
        StatusSeesRunning, StatusSeesItAgain, StatusNamesStart, StatusHasNoStart, still, quiet,
        jobs, LoopStep, vars, Basics
  <2>2. /\ spc' \in {"idle", "saw running", "saw it again"} /\ ended' \in BOOLEAN
        /\ StatusExcused'
    BY <1>2
    DEF Turning, Watching, TakePoll, ProbeEnds, LoopStops, FullTickerFires, StartUp,
        StatusSeesRunning, StatusSeesItAgain, StatusNamesStart, StatusHasNoStart, still, quiet,
        jobs, LoopStep, vars, Basics, StatusExcused
  <2>3. Basics' /\ LoopFires' /\ LimitsRun' /\ RunCollects'
    BY <2>1, <2>2 DEF Basics, LoopFires, LimitsRun, RunCollects, FetchTypeOK
  <2>4. MutexHeld' /\ FlagIsUp' /\ LateStaysOut' /\ PreviousIsStored'
    BY <2>1 DEF MutexHeld, FlagIsUp, LateStaysOut, InRun, PreviousIsStored, Merged
  <2>5. SlugsPending' /\ AllTried' /\ StoredIsTried'
    BY <2>1 DEF SlugsPending, Pending, AllTried, StoredIsTried
  <2> QED
    BY <1>types, <2>2, <2>3, <2>4, <2>5
<1>3. CASE Crash
  <2>1. Fresh(work', NoCatalog) /\ get' \in Get /\ fpc' = "off" /\ mem' \subseteq Entry
    BY <1>3, NoWorkIsFresh, Constants DEF Crash, Basics, Catalog
  <2>2. \A j \in Job : jpc'[j] = "idle"
    BY <1>3 DEF Crash
  <2>3. Basics'
    BY <1>3, <2>1 DEF Crash, Fresh, Basics, JobPc, FetchTypeOK, FetchPc
  <2>4. LoopFires' /\ LimitsRun' /\ RunCollects'
    BY <1>3, <2>2 DEF Crash, LoopFires, LimitsRun, RunCollects
  <2>5. MutexHeld' /\ FlagIsUp' /\ LateStaysOut' /\ StatusExcused' /\ PreviousIsStored'
    BY <1>3, <2>2
    DEF Crash, MutexHeld, FlagIsUp, LateStaysOut, StatusExcused, PreviousIsStored, InRun
  <2>6. SlugsPending' /\ AllTried' /\ StoredIsTried'
    BY <1>3, <2>1, <2>2 DEF Crash, Fresh, SlugsPending, AllTried, StoredIsTried
  <2> QED
    BY <1>types, <2>3, <2>4, <2>5, <2>6
<1> QED
  BY <1>1, <1>2, <1>3

LEMMA InitInv == Init => TypeOK /\ Inv
<1> SUFFICES ASSUME Init PROVE TypeOK /\ Inv
  OBVIOUS
<1> USE Constants, LoopIsJob, NoWorkIsFresh DEF Init
<1>1. Basics
  BY DEF Basics, JobPc, FetchTypeOK, FetchPc
<1>2. LoopFires /\ LimitsRun /\ RunCollects
  BY DEF LoopFires, LimitsRun, RunCollects
<1>3. MutexHeld /\ FlagIsUp /\ LateStaysOut /\ StatusExcused /\ PreviousIsStored
  BY DEF MutexHeld, FlagIsUp, LateStaysOut, StatusExcused, PreviousIsStored, InRun
<1>4. SlugsPending /\ AllTried /\ StoredIsTried
  BY DEF Fresh, SlugsPending, AllTried, StoredIsTried, NoCatalog
<1> QED
  BY <1>1, <1>2, <1>3, <1>4, TypeOKParts DEF Inv

LEMMA NextInv == TypeOK /\ Inv /\ [Next]_vars => TypeOK' /\ Inv'
  BY RunSteps, OtherSteps DEF Next, LoopNext, Waking, Turning, Watching

----------------------------------------------------------------------------
(* Theorems *)

\* The state stays in its types; the loop is in Run exactly when it fires.
THEOREM TypeCorrect == Spec => []TypeOK
  BY InitInv, NextInv, PTL DEF Spec

LEMMA FlagsOfInv == ASSUME TypeOK, Inv PROVE FlagsFollowRun
<1>1. mu \in Job \cup {NoJob}
  BY DEF TypeOK
<1>2. running => started
  BY LoopIsJob DEF Inv, MutexHeld, FlagIsUp
<1>3. started => \E j \in Job : InRun(j)
  BY <1>1 DEF Inv, MutexHeld
<1>4. (\A j \in Job : ~InRun(j)) => mu = NoJob
  BY <1>1 DEF Inv, MutexHeld
<1> QED
  BY <1>2, <1>3, <1>4 DEF FlagsFollowRun

\* The flags of the status page follow the sync, also through panics and deaths.
THEOREM FlagsFollow == Spec => []FlagsFollowRun
  BY FlagsOfInv, InitInv, NextInv, PTL DEF Spec

\* A status that misses the start of a sync that it saw running has seen it end.
THEOREM StatusNames == Spec => StatusNamesTheStart
<1>1. TypeOK /\ Inv /\ [Next]_vars => [StatusHasNoStart => ended]_vars
  BY FlagsOfInv DEF FlagsFollowRun, Inv, StatusExcused, StatusHasNoStart
<1> QED
  BY <1>1, InitInv, NextInv, PTL DEF Spec, StatusNamesTheStart

\* Every stored release leads to an anime that was fetched or given up for a
\* reason that the code names, whatever the feeds, the cap and the failures.
THEOREM KnownExpanded == Spec => []KnownReleasesAreExpanded
<1>1. Inv => KnownReleasesAreExpanded
  BY DEF Inv, StoredIsTried, KnownReleasesAreExpanded
<1> QED
  BY <1>1, InitInv, NextInv, PTL DEF Spec

\* What changes memory or the database.
LEMMA LateStep ==
  ASSUME TypeOK, Inv, [Next]_vars, bornLate, ~Crash
  PROVE  UNCHANGED <<mem, db>>
<1>1. ASSUME NEW j \in Job, RunOf(j), ~UNCHANGED <<mem, db>> PROVE FALSE
  <2>1. Publish(j) \/ Save(j)
    BY <1>1 DEF RunOf, RaiseFlag, LoadPrevious, ListSources, Collect, SaveFails, LowerFlag, Unlock
  <2>2. jpc[j] \in {"publishing", "saving"}
    BY <2>1 DEF Publish, Save, JobStep
  <2>3. mu = j
    BY <2>2 DEF Inv, MutexHeld, InRun
  <2> QED
    BY <2>2, <2>3 DEF Inv, LateStaysOut
<1>2. ASSUME NEW j \in Job, Start(j) \/ Panic(j) \/ TimeUp(j) PROVE UNCHANGED <<mem, db>>
  BY <1>2 DEF Start, Panic, TimeUp
<1>3. ASSUME Waking \/ Turning \/ Watching \/ UNCHANGED vars PROVE UNCHANGED <<mem, db>>
  BY <1>3
  DEF Waking, Turning, Watching, PostRebuild, TakeFull, ProbeFires, TakePoll, ProbeEnds,
      LoopStops, FullTickerFires, StartUp, StatusSeesRunning, StatusSeesItAgain,
      StatusNamesStart, StatusHasNoStart, quiet, still, vars
<1> QED
  BY <1>1, <1>2, <1>3 DEF Next, LoopNext, Waking, Turning, Watching

\* A sync whose time was over before it began leaves memory and database alone.
THEOREM LateIsHarmless == Spec => LateSyncsChangeNothing
<1>1. TypeOK /\ Inv /\ [Next]_vars => [bornLate /\ ~Crash => UNCHANGED <<mem, db>>]_vars
  BY LateStep
<1> QED
  BY <1>1, InitInv, NextInv, PTL DEF Spec, LateSyncsChangeNothing

----------------------------------------------------------------------------
(* A fetch ends *)

\* A GET under way has an attempt left.
GetInTime == fpc \in {"asking main", "asking slug"} => get.failed < Attempts

MainCost == 2 * MainAttempts
SlugCost == 2 * PerAnimeAttempts

LEMMA Costs ==
  /\ MainCost \in Nat /\ MainCost >= 2
  /\ SlugCost \in Nat /\ SlugCost >= 2
BY LimitAssumption DEF MainCost, SlugCost

\* One request less to come is worth its cost, and fewer cost no more.
LEMMA OneLess ==
  ASSUME NEW n \in Nat, NEW m \in Nat, NEW cost \in Nat
  PROVE  /\ n * cost \in Nat
         /\ n = m + 1 => n * cost = m * cost + cost
         /\ m <= n => m * cost <= n * cost
<1>1. n * cost \in Nat /\ m * cost \in Nat
  OBVIOUS
<1>2. (m + 1) * cost = m * cost + cost
  OBVIOUS
<1>3. ASSUME m <= n PROVE m * cost <= n * cost
  <2>1. PICK d \in Nat : n = m + d
    <3>1. n - m \in Nat /\ n = m + (n - m)
      BY <1>3
    <3> QED
      BY <3>1
  <2>2. (m + d) * cost = m * cost + d * cost /\ d * cost \in Nat
    OBVIOUS
  <2> QED
    BY <1>1, <2>1, <2>2
<1> QED
  BY <1>1, <1>2, <1>3

\* StepsLeft, place by place.
LEMMA StepsLeftAt ==
  /\ fpc = "sources" =>
       StepsLeft = Cardinality(work.todo) * MainCost + 0 + (Cardinality(Slug) * SlugCost + 2)
  /\ fpc = "asking main" =>
       StepsLeft = Cardinality(work.todo) * MainCost + GetLeft + (Cardinality(Slug) * SlugCost + 2)
  /\ fpc = "slugs" => StepsLeft = Cardinality(work.jobs) * SlugCost + 0 + 1
  /\ fpc = "asking slug" => StepsLeft = Cardinality(work.jobs) * SlugCost + GetLeft + 1
  /\ fpc = "merging" => StepsLeft = 0
  /\ fpc' = "sources" =>
       StepsLeft' = Cardinality(work'.todo) * MainCost + 0 + (Cardinality(Slug) * SlugCost + 2)
  /\ fpc' = "asking main" =>
       StepsLeft' = Cardinality(work'.todo) * MainCost + GetLeft' + (Cardinality(Slug) * SlugCost + 2)
  /\ fpc' = "slugs" => StepsLeft' = Cardinality(work'.jobs) * SlugCost + 0 + 1
  /\ fpc' = "asking slug" => StepsLeft' = Cardinality(work'.jobs) * SlugCost + GetLeft' + 1
  /\ fpc' = "merging" => StepsLeft' = 0
<1>1. StepsLeft =
        CASE fpc \in {"sources", "asking main"} ->
               Cardinality(work.todo) * MainCost
                 + (IF fpc = "asking main" THEN GetLeft ELSE 0) + (Cardinality(Slug) * SlugCost + 2)
          [] fpc \in {"slugs", "asking slug"} ->
               Cardinality(work.jobs) * SlugCost + (IF fpc = "asking slug" THEN GetLeft ELSE 0) + 1
          [] OTHER -> 0
  BY DEF StepsLeft, MainCost, SlugCost
<1>2. StepsLeft' =
        CASE fpc' \in {"sources", "asking main"} ->
               Cardinality(work'.todo) * MainCost
                 + (IF fpc' = "asking main" THEN GetLeft' ELSE 0) + (Cardinality(Slug) * SlugCost + 2)
          [] fpc' \in {"slugs", "asking slug"} ->
               Cardinality(work'.jobs) * SlugCost + (IF fpc' = "asking slug" THEN GetLeft' ELSE 0) + 1
          [] OTHER -> 0
  BY DEF StepsLeft, MainCost, SlugCost
<1> QED
  BY <1>1, <1>2

LEMMA InRange ==
  ASSUME NEW m \in Nat, NEW n \in Nat, NEW x \in 0 .. m + n
  PROVE  x \in Nat
OBVIOUS

LEMMA TwiceLeft ==
  ASSUME NEW a \in Nat, NEW f \in Nat, f < a
  PROVE  /\ 2 * (a - f) - 1 \in Nat /\ 2 * (a - f) - 1 >= 1
         /\ 2 * (a - f) - 0 \in Nat /\ 2 * (a - f) - 0 >= 1
OBVIOUS

\* What is left of a GET: one step at least, and before the first attempt what
\* it costs but for the step that picked it.
LEMMA GetLeftFacts ==
  ASSUME FetchTypeOK, GetInTime, fpc \in {"asking main", "asking slug"}
  PROVE  /\ get.failed \in Nat /\ Attempts \in Nat /\ GetLeft \in Nat
         /\ GetLeft >= 1
<1>1. get.failed \in Nat
  <2>1. get.failed \in 0 .. MainAttempts + PerAnimeAttempts
    BY DEF FetchTypeOK, Get, Failures
  <2>2. MainAttempts \in Nat /\ PerAnimeAttempts \in Nat
    BY LimitAssumption
  <2> QED
    BY <2>1, <2>2, InRange
<1>2. Attempts \in Nat
  BY LimitAssumption DEF Attempts
<1>3. get.failed < Attempts
  BY DEF GetInTime
<1>4. \/ GetLeft = 2 * (Attempts - get.failed) - 1
      \/ GetLeft = 2 * (Attempts - get.failed) - 0
  BY DEF GetLeft
<1> QED
  BY <1>1, <1>2, <1>3, <1>4, TwiceLeft

LEMMA FreshGet ==
  ASSUME get' = NoGet
  PROVE  /\ fpc' = "asking main" => GetLeft' = MainCost - 1 /\ 0 < Attempts'
         /\ fpc' = "asking slug" => GetLeft' = SlugCost - 1 /\ 0 < Attempts'
         /\ get'.failed = 0
<1>1. get'.failed = 0 /\ get'.pause = 0
  BY DEF NoGet
<1>2. GetLeft' = 2 * (Attempts' - get'.failed) - (IF get'.pause = 0 THEN 1 ELSE 0)
  BY DEF GetLeft
<1>3. /\ fpc' = "asking main" => Attempts' = MainAttempts
      /\ fpc' = "asking slug" => Attempts' = PerAnimeAttempts
  BY DEF Attempts
<1>4. GetLeft' = 2 * (Attempts' - 0) - 1
  BY <1>1, <1>2
<1>7. /\ MainAttempts \in Nat /\ 0 < MainAttempts
      /\ PerAnimeAttempts \in Nat /\ 0 < PerAnimeAttempts
  BY LimitAssumption
<1>5. CASE fpc' = "asking main"
  <2>1. GetLeft' = 2 * (MainAttempts - 0) - 1
    BY <1>3, <1>4, <1>5
  <2>2. 2 * (MainAttempts - 0) - 1 = 2 * MainAttempts - 1
    BY <1>7
  <2> QED
    BY <1>1, <1>3, <1>5, <1>7, <2>1, <2>2 DEF MainCost
<1>6. CASE fpc' = "asking slug"
  <2>1. GetLeft' = 2 * (PerAnimeAttempts - 0) - 1
    BY <1>3, <1>4, <1>6
  <2>2. 2 * (PerAnimeAttempts - 0) - 1 = 2 * PerAnimeAttempts - 1
    BY <1>7
  <2> QED
    BY <1>1, <1>3, <1>6, <1>7, <2>1, <2>2 DEF SlugCost
<1> QED
  BY <1>1, <1>5, <1>6

\* The sums of StepsLeftAt, with the products as plain numbers.
LEMMA SumShrinks ==
  ASSUME NEW t \in Nat, NEW u \in Nat, NEW rest \in Nat, NEW g \in Int, NEW h \in Int,
         NEW before, NEW after, before = t + g + rest, after = u + h + rest,
         u + h < t + g, u + h >= 0
  PROVE  after \in Nat /\ after < before
OBVIOUS

LEMMA LessInSum ==
  ASSUME NEW t \in Nat, NEW g \in Nat, NEW h \in Nat, h < g
  PROVE  t + h < t + g /\ t + h >= 0
OBVIOUS

LEMMA SumsEnd ==
  ASSUME NEW t \in Nat, NEW u \in Nat, NEW a \in Nat, u <= a
  PROVE  /\ u + 0 + 1 \in Nat /\ u + 0 + 1 < t + 0 + (a + 2)
         /\ 0 < t + 0 + 1
OBVIOUS

LEMMA SmallerByOne ==
  ASSUME NEW S, NEW x \in S, IsFiniteSet(S)
  PROVE  /\ Cardinality(S \ {x}) \in Nat
         /\ Cardinality(S) = Cardinality(S \ {x}) + 1
<1>1. Cardinality(S \ {x}) = Cardinality(S) - 1 /\ IsFiniteSet(S \ {x})
  BY FS_RemoveElement
<1>2. Cardinality(S) \in Nat /\ Cardinality(S \ {x}) \in Nat
  BY <1>1, FS_CardinalityType
<1> QED
  BY <1>1, <1>2

LEMMA FetchShrinks ==
  ASSUME IsFiniteSet(Source), IsFiniteSet(Slug), FetchTypeOK, GetInTime,
         NEW STATE isLate, FetchNext(isLate)
  PROVE  GetInTime' /\ StepsLeft' \in Nat /\ StepsLeft' < StepsLeft
<1> DEFINE todo == Cardinality(work.todo)
           queue == Cardinality(work.jobs)
           anime == Cardinality(Slug) * SlugCost
<1>1. /\ IsFiniteSet(work.todo) /\ IsFiniteSet(work.jobs)
      /\ todo \in Nat /\ queue \in Nat /\ Cardinality(Slug) \in Nat
      /\ queue <= Cardinality(Slug)
  BY FS_Subset, FS_CardinalityType DEF FetchTypeOK, Work
<1>2. /\ anime \in Nat /\ todo * MainCost \in Nat /\ queue * SlugCost \in Nat
      /\ queue * SlugCost <= anime
  BY <1>1, Costs, OneLess
<1>3. CASE PickSource
  <2> PICK s \in work.todo : work' = [work EXCEPT !.todo = @ \ {s}, !.source = {s}]
    BY <1>3 DEF PickSource
  <2>1. work'.todo = work.todo \ {s}
    BY DEF FetchTypeOK, Work
  <2>2. Cardinality(work'.todo) \in Nat /\ todo = Cardinality(work'.todo) + 1
    BY <1>1, <2>1, SmallerByOne
  <2>3. todo * MainCost = Cardinality(work'.todo) * MainCost + MainCost
        /\ Cardinality(work'.todo) * MainCost \in Nat
    BY <1>1, <2>2, Costs, OneLess
  <2>4. fpc = "sources" /\ fpc' = "asking main" /\ get' = NoGet
    BY <1>3 DEF PickSource, FetchStep
  <2>5. StepsLeft = todo * MainCost + 0 + (anime + 2)
    BY <2>4, StepsLeftAt
  <2>6. StepsLeft' = Cardinality(work'.todo) * MainCost + (MainCost - 1) + (anime + 2)
    BY <2>4, FreshGet, StepsLeftAt
  <2>7. GetInTime'
    BY <2>4, FreshGet DEF GetInTime
  <2> DEFINE u == Cardinality(work'.todo) * MainCost
             t == todo * MainCost
  <2>8. u \in Nat /\ t = u + MainCost /\ t \in Nat /\ anime + 2 \in Nat
    BY <1>2, <2>3
  <2>9. StepsLeft = t + 0 + (anime + 2) /\ StepsLeft' = u + (MainCost - 1) + (anime + 2)
    BY <2>5, <2>6
  <2> HIDE DEF t, u, anime
  <2>10. /\ MainCost - 1 \in Int /\ u + (MainCost - 1) < t + 0
         /\ u + (MainCost - 1) >= 0
    BY <2>8, Costs
  <2> QED
    BY <2>7, <2>8, <2>9, <2>10, SumShrinks
<1>4. CASE MainFails(isLate) \/ MainAnswers(isLate)
  <2>1. work'.todo = work.todo /\ fpc = "asking main" /\ fpc' = "sources"
    BY <1>4 DEF MainFails, MainAnswers, FetchStep, FetchTypeOK, Work
  <2>2. GetLeft \in Nat /\ GetLeft >= 1
    BY <2>1, GetLeftFacts
  <2>3. StepsLeft = todo * MainCost + GetLeft + (anime + 2)
    BY <2>1, StepsLeftAt
  <2>4. StepsLeft' = todo * MainCost + 0 + (anime + 2)
    BY <2>1, StepsLeftAt
  <2>5. GetInTime'
    BY <2>1 DEF GetInTime
  <2> DEFINE t == todo * MainCost
  <2>6. t \in Nat /\ anime + 2 \in Nat
    BY <1>2
  <2>7. StepsLeft = t + GetLeft + (anime + 2) /\ StepsLeft' = t + 0 + (anime + 2)
    BY <2>3, <2>4
  <2> HIDE DEF t, anime
  <2>8. t + 0 < t + GetLeft /\ t + 0 >= 0
    BY <2>2, <2>6
  <2> QED
    BY <2>2, <2>5, <2>6, <2>7, <2>8, SumShrinks
<1>5. CASE SourcesDone
  <2>1. work' = work /\ fpc = "sources" /\ fpc' = "slugs"
    BY <1>5 DEF SourcesDone, FetchStep
  <2>2. StepsLeft = todo * MainCost + 0 + (anime + 2)
    BY <2>1, StepsLeftAt
  <2>3. StepsLeft' = queue * SlugCost + 0 + 1
    BY <2>1, StepsLeftAt
  <2>4. GetInTime'
    BY <2>1 DEF GetInTime
  <2> HIDE DEF todo, queue, anime
  <2> QED
    BY <1>2, <2>2, <2>3, <2>4, SumsEnd
<1>6. CASE PickSlug(isLate)
  <2> PICK g \in work.jobs : work' = [work EXCEPT !.jobs = @ \ {g}, !.job = {g}]
    BY <1>6 DEF PickSlug
  <2>1. work'.jobs = work.jobs \ {g}
    BY DEF FetchTypeOK, Work
  <2>2. Cardinality(work'.jobs) \in Nat /\ queue = Cardinality(work'.jobs) + 1
    BY <1>1, <2>1, SmallerByOne
  <2>3. queue * SlugCost = Cardinality(work'.jobs) * SlugCost + SlugCost
        /\ Cardinality(work'.jobs) * SlugCost \in Nat
    BY <1>1, <2>2, Costs, OneLess
  <2>4. fpc = "slugs" /\ fpc' = "asking slug" /\ get' = NoGet
    BY <1>6 DEF PickSlug, FetchStep
  <2>5. StepsLeft = queue * SlugCost + 0 + 1
    BY <2>4, StepsLeftAt
  <2>6. StepsLeft' = Cardinality(work'.jobs) * SlugCost + (SlugCost - 1) + 1
    BY <2>4, FreshGet, StepsLeftAt
  <2>7. GetInTime'
    BY <2>4, FreshGet DEF GetInTime
  <2> DEFINE u == Cardinality(work'.jobs) * SlugCost
             t == queue * SlugCost
  <2>8. u \in Nat /\ t = u + SlugCost /\ t \in Nat
    BY <1>2, <2>3
  <2>9. StepsLeft = t + 0 + 1 /\ StepsLeft' = u + (SlugCost - 1) + 1
    BY <2>5, <2>6
  <2> HIDE DEF t, u
  <2>10. /\ SlugCost - 1 \in Int /\ u + (SlugCost - 1) < t + 0
         /\ u + (SlugCost - 1) >= 0
    BY <2>8, Costs
  <2> QED
    BY <2>7, <2>8, <2>9, <2>10, SumShrinks
<1>7. CASE SlugsDone(isLate)
  <2>1. fpc = "slugs" /\ fpc' = "merging"
    BY <1>7 DEF SlugsDone, FetchStep
  <2>2. StepsLeft = queue * SlugCost + 0 + 1 /\ StepsLeft' = 0
    BY <2>1, StepsLeftAt
  <2>3. GetInTime'
    BY <2>1 DEF GetInTime
  <2> HIDE DEF queue
  <2> QED
    BY <1>2, <2>2, <2>3, SumsEnd
<1>8. CASE SlugFails(isLate) \/ SlugAnswers(isLate) \/ SlugBroken(isLate)
  <2>1. work'.jobs = work.jobs /\ fpc = "asking slug" /\ fpc' = "slugs"
    BY <1>8 DEF SlugFails, SlugAnswers, SlugBroken, FetchStep, FetchTypeOK, Work
  <2>2. GetLeft \in Nat /\ GetLeft >= 1
    BY <2>1, GetLeftFacts
  <2>3. StepsLeft = queue * SlugCost + GetLeft + 1
    BY <2>1, StepsLeftAt
  <2>4. StepsLeft' = queue * SlugCost + 0 + 1
    BY <2>1, StepsLeftAt
  <2>5. GetInTime'
    BY <2>1 DEF GetInTime
  <2> DEFINE t == queue * SlugCost
  <2>6. t \in Nat
    BY <1>2
  <2>7. StepsLeft = t + GetLeft + 1 /\ StepsLeft' = t + 0 + 1
    BY <2>3, <2>4
  <2> HIDE DEF t
  <2>8. t + 0 < t + GetLeft /\ t + 0 >= 0
    BY <2>2, <2>6
  <2> QED
    BY <2>2, <2>5, <2>6, <2>7, <2>8, SumShrinks
<1>9. CASE TryAgain(isLate) \/ WaitIsOver
  <2>1. fpc \in {"asking main", "asking slug"} /\ UNCHANGED <<fpc, work>>
    BY <1>9 DEF TryAgain, WaitIsOver
  <2>2. /\ get.failed \in Nat /\ Attempts \in Nat /\ GetLeft \in Nat
    BY <2>1, GetLeftFacts
  <2>3. Attempts' = Attempts
    BY <2>1 DEF Attempts
  <2>4. get'.failed \in Nat /\ get'.failed < Attempts /\ GetLeft' \in Nat /\ GetLeft' < GetLeft
    <3>1. CASE TryAgain(isLate)
      <4>1. /\ get.pause = 0 /\ get.failed + 1 < Attempts
            /\ \E wait : get' = [failed |-> get.failed + 1, pause |-> wait]
        BY <3>1 DEF TryAgain
      <4>0. get'.failed = get.failed + 1
        BY <4>1
      <4>2. GetLeft = 2 * (Attempts - get.failed) - 1
        BY <4>1 DEF GetLeft
      <4>3. GetLeft' \in {2 * (Attempts - get'.failed) - 1, 2 * (Attempts - get'.failed)}
        BY <2>2, <2>3, <4>0 DEF GetLeft
      <4> QED
        BY <2>2, <4>0, <4>1, <4>2, <4>3
    <3>2. CASE WaitIsOver
      <4>0. get' = [get EXCEPT !.pause = 0] /\ get.pause > 0
        BY <3>2 DEF WaitIsOver
      <4>1. get'.failed = get.failed /\ get'.pause = 0 /\ get.pause # 0
        BY <4>0 DEF FetchTypeOK, Get
      <4>2. GetLeft = 2 * (Attempts - get.failed)
        BY <2>2, <4>1 DEF GetLeft
      <4>3. GetLeft' = 2 * (Attempts - get.failed) - 1
        BY <2>3, <4>1 DEF GetLeft
      <4>4. get.failed < Attempts
        BY <2>1 DEF GetInTime
      <4> QED
        BY <2>2, <4>1, <4>2, <4>3, <4>4
    <3> QED
      BY <1>9, <3>1, <3>2
  <2>5. GetInTime'
    BY <2>3, <2>4 DEF GetInTime
  <2>6. CASE fpc = "asking main"
    <3> DEFINE t == todo * MainCost
    <3>1. /\ StepsLeft = t + GetLeft + (anime + 2)
          /\ StepsLeft' = t + GetLeft' + (anime + 2)
      BY <2>1, <2>6, StepsLeftAt
    <3>2. t \in Nat /\ anime + 2 \in Nat
      BY <1>2
    <3> HIDE DEF t, anime
    <3>3. t + GetLeft' < t + GetLeft /\ t + GetLeft' >= 0
      BY <2>2, <2>4, <3>2, LessInSum
    <3> QED
      BY <2>2, <2>4, <2>5, <3>1, <3>2, <3>3, SumShrinks
  <2>7. CASE fpc = "asking slug"
    <3> DEFINE t == queue * SlugCost
    <3>1. StepsLeft = t + GetLeft + 1 /\ StepsLeft' = t + GetLeft' + 1
      BY <2>1, <2>7, StepsLeftAt
    <3>2. t \in Nat
      BY <1>2
    <3> HIDE DEF t
    <3>3. t + GetLeft' < t + GetLeft /\ t + GetLeft' >= 0
      BY <2>2, <2>4, <3>2, LessInSum
    <3>4. 1 \in Nat /\ GetLeft \in Int /\ GetLeft' \in Int
      BY <2>2, <2>4
    <3>5. StepsLeft' \in Nat /\ StepsLeft' < StepsLeft
      BY <3>1, <3>2, <3>3, <3>4, SumShrinks
    <3> QED
      BY <2>5, <3>5
  <2> QED
    BY <2>1, <2>6, <2>7
<1> QED
  BY <1>3, <1>4, <1>5, <1>6, <1>7, <1>8, <1>9 DEF FetchNext

\* Outside its own steps a fetch begins, stops, or is left alone.
LEMMA FetchOnlyAdvances ==
  ASSUME IsFiniteSet(Source), IsFiniteSet(Slug), TypeOK, Inv, GetInTime, [Next]_vars
  PROVE  /\ GetInTime'
         /\ fpc # "off" /\ fpc' # "off" =>
              UNCHANGED fetching \/ (StepsLeft' >= 0 /\ StepsLeft' < StepsLeft)
<1>1. ASSUME NEW j \in Job, Collect(j), jpc[j] = "collecting", FetchNext(j \in late)
      PROVE  GetInTime' /\ StepsLeft' >= 0 /\ StepsLeft' < StepsLeft
  <2>1. FetchTypeOK
    BY DEF TypeOK
  <2>2. GetInTime' /\ StepsLeft' \in Nat /\ StepsLeft' < StepsLeft
    BY <1>1, <2>1, FetchShrinks
  <2> QED
    BY <2>2
<1>2. ASSUME NEW j \in Job, LoadPrevious(j) \/ Unlock(j)
      PROVE  fpc = "off" /\ fpc' = "off"
  <2>1. mu = j /\ jpc[j] # "collecting"
    BY <1>2 DEF LoadPrevious, Unlock, JobStep, Inv, MutexHeld, InRun
  <2>2. \A k \in Job : jpc[k] # "collecting"
    BY <2>1 DEF Inv, MutexHeld, InRun
  <2> QED
    BY <1>2, <2>2 DEF LoadPrevious, Unlock, TypeOK, RunCollects
<1>3. ASSUME NEW j \in Job, ListSources(j)
      PROVE  UNCHANGED fetching \/ (fpc = "off" /\ fpc' = "sources")
  BY <1>3 DEF ListSources, BeginFetch, FetchStep
<1>4. ASSUME NEW j \in Job, Collect(j), ~FetchNext(j \in late) \/ jpc[j] # "collecting"
      PROVE  fpc' = "off"
  BY <1>4 DEF Collect
<1>5. ASSUME NEW j \in Job,
             RaiseFlag(j) \/ Publish(j) \/ Save(j) \/ SaveFails(j) \/ LowerFlag(j)
               \/ Start(j) \/ TimeUp(j)
      PROVE  UNCHANGED fetching
  BY <1>5 DEF RaiseFlag, Publish, Save, SaveFails, LowerFlag, Start, TimeUp
<1>6. ASSUME Crash \/ \E j \in Job : Panic(j)
      PROVE  fpc' = "off"
  BY <1>6 DEF Crash, Panic
<1>7. ASSUME Waking \/ Turning \/ Watching \/ UNCHANGED vars
      PROVE  UNCHANGED fetching
  BY <1>7
  DEF Waking, Turning, Watching, PostRebuild, TakeFull, ProbeFires, TakePoll, ProbeEnds,
      LoopStops, FullTickerFires, StartUp, StatusSeesRunning, StatusSeesItAgain,
      StatusNamesStart, StatusHasNoStart, quiet, still, vars
<1>8. ASSUME UNCHANGED fetching PROVE GetInTime'
  BY <1>8 DEF fetching, GetInTime, Attempts
<1>9. ASSUME fpc' \in {"off", "sources"} PROVE GetInTime'
  BY <1>9 DEF GetInTime
<1> QED
  BY <1>1, <1>2, <1>3, <1>4, <1>5, <1>6, <1>7, <1>8, <1>9
  DEF Next, RunOf, LoopNext, Waking, Turning, Watching

\* A fetch takes no more steps than StepsLeft counts when it begins, for any
\* finite sets of sources and anime and any limits: the part of liveness that
\* needs no fairness.
THEOREM FetchesEnd ==
  ASSUME IsFiniteSet(Source), IsFiniteSet(Slug)
  PROVE  Spec => FetchesAdvance
<1>1. Init => GetInTime
  BY DEF Init, GetInTime
<1>2. TypeOK /\ Inv /\ GetInTime /\ [Next]_vars =>
        GetInTime' /\ [fpc # "off" /\ fpc' # "off" =>
                         UNCHANGED fetching \/ (StepsLeft' >= 0 /\ StepsLeft' < StepsLeft)]_vars
  BY FetchOnlyAdvances
<1> QED
  BY <1>1, <1>2, InitInv, NextInv, PTL DEF Spec, FetchesAdvance

----------------------------------------------------------------------------
(* The refinement *)

\* Who is inside Run is who holds the mutex.
LEMMA InsideIsHolder == TypeOK /\ Inv => Inside = mu
<1> SUFFICES ASSUME TypeOK, Inv PROVE Inside = mu
  OBVIOUS
<1>1. CASE \E j \in Job : InRun(j)
  <2>1. Inside \in Job /\ InRun(Inside)
    BY <1>1 DEF Inside
  <2> QED
    BY <2>1 DEF Inv, MutexHeld
<1>2. CASE ~\E j \in Job : InRun(j)
  BY <1>2, FlagsOfInv DEF Inside, FlagsFollowRun
<1> QED
  BY <1>1, <1>2

LEMMA InsideStaysHolder == TypeOK' /\ Inv' => Inside' = mu'
<1> SUFFICES ASSUME TypeOK', Inv' PROVE Inside' = mu'
  OBVIOUS
<1>1. CASE \E j \in Job : InRun(j)'
  <2>1. Inside' \in Job /\ InRun(Inside)'
    BY <1>1 DEF Inside
  <2> QED
    BY <2>1 DEF Inv, MutexHeld
<1>2. CASE ~\E j \in Job : InRun(j)'
  BY <1>2, LoopIsJob DEF Inside, Inv, MutexHeld, TypeOK
<1> QED
  BY <1>1, <1>2

SameStore == UNCHANGED <<mem, db>>

\* Each step of a job is one of the abstract service, or none.
LEMMA JobRefines ==
  ASSUME TypeOK, Inv, TypeOK', Inv', NEW j \in Job, Start(j) \/ RunOf(j) \/ Panic(j) \/ TimeUp(j)
  PROVE  [Service!Next]_Service!vars
<1> USE LoopIsJob DEF Service!Next, Service!vars, JobStep
<1>0. Inside = mu /\ Inside' = mu'
  BY InsideIsHolder, InsideStaysHolder
<1>1. CASE Start(j)
  <2>1. mu = NoJob /\ mu' = j /\ j \in Waiting /\ SameStore
    BY <1>1 DEF Start, Waiting, SameStore
  <2>2. Waiting' = Waiting \ {j}
    BY <1>1 DEF Start, Waiting, TypeOK
  <2>3. Service!Begin(j)
    BY <1>0, <2>1, <2>2 DEF Service!Begin, SameStore
  <2> QED
    BY <2>3
<1>2. CASE RaiseFlag(j) \/ LoadPrevious(j) \/ ListSources(j) \/ Collect(j) \/ LowerFlag(j)
           \/ SaveFails(j) \/ Panic(j) \/ TimeUp(j)
  <2>1. mu' = mu /\ SameStore
    BY <1>2
    DEF RaiseFlag, LoadPrevious, ListSources, Collect, LowerFlag, SaveFails, Panic, TimeUp, SameStore
  <2>2. Waiting' = Waiting
    BY <1>2
    DEF RaiseFlag, LoadPrevious, ListSources, Collect, LowerFlag, SaveFails, Panic, TimeUp,
        Waiting, TypeOK
  <2> QED
    BY <1>0, <2>1, <2>2 DEF SameStore
<1>3. CASE Publish(j)
  <2>1. mu' = mu /\ Waiting' = Waiting /\ UNCHANGED db /\ mem' = Merged.items /\ mu = j
    BY <1>3 DEF Publish, Waiting, TypeOK, Inv, MutexHeld, InRun
  <2>2. db.items \subseteq mem' /\ mem' \subseteq Entry
    BY <1>3, <2>1, MergedType
    DEF Publish, Inv, PreviousIsStored, Merged, TypeOK, FetchTypeOK, Catalog
  <2>3. Service!Publish
    BY <1>0, <2>1, <2>2 DEF Service!Publish
  <2> QED
    BY <2>3
<1>4. CASE Save(j)
  <2>1. mu' = mu /\ Waiting' = Waiting /\ UNCHANGED mem /\ db' = Merged /\ mu = j
    BY <1>4 DEF Save, Waiting, TypeOK, Inv, MutexHeld, InRun
  <2>2. db'.items = mem
    BY <1>4, <2>1 DEF Save, Inv, PreviousIsStored
  <2>3. Service!Save
    BY <1>0, <2>1, <2>2 DEF Service!Save
  <2> QED
    BY <2>3
<1>5. CASE Unlock(j)
  <2>1. mu = j /\ mu' = NoJob /\ SameStore
    BY <1>5 DEF Unlock, Inv, MutexHeld, InRun, SameStore
  <2>2. Waiting' = Waiting
    BY <1>5 DEF Unlock, Waiting, TypeOK
  <2>3. Service!Finish
    BY <1>0, <2>1, <2>2 DEF Service!Finish, SameStore
  <2> QED
    BY <2>3
<1> QED
  BY <1>1, <1>2, <1>3, <1>4, <1>5 DEF RunOf

LEMMA OtherRefines ==
  ASSUME TypeOK, Inv, TypeOK', Inv', Waking \/ Turning \/ Watching \/ Crash \/ UNCHANGED vars
  PROVE  [Service!Next]_Service!vars
<1> USE DEF Service!Next, Service!vars
<1>0. Inside = mu /\ Inside' = mu'
  BY InsideIsHolder, InsideStaysHolder
<1>1. CASE Waking
  <2> PICK j \in Job : /\ jpc[j] = "idle" /\ jpc' = [jpc EXCEPT ![j] = "waiting"]
                       /\ UNCHANGED <<quiet, mu, started, running, late, bornLate, status,
                                      mem, db, fetching>>
    BY <1>1, WakingStep
  <2>1. j \notin Waiting /\ Waiting' = Waiting \cup {j}
    BY DEF Waiting, TypeOK
  <2>2. mu # j
    BY DEF Inv, MutexHeld, InRun
  <2>3. Service!Ask(j)
    BY <1>0, <2>1, <2>2 DEF Service!Ask
  <2> QED
    BY <2>3
<1>2. CASE Turning \/ Watching \/ UNCHANGED vars
  <2>1. UNCHANGED <<jpc, mu, mem, db>>
    BY <1>2
    DEF Turning, Watching, TakePoll, ProbeEnds, LoopStops, FullTickerFires, StartUp,
        StatusSeesRunning, StatusSeesItAgain, StatusNamesStart, StatusHasNoStart, still, quiet,
        jobs, vars
  <2> QED
    BY <1>0, <2>1 DEF Waiting
<1>3. CASE Crash
  <2>1. mu' = NoJob /\ Waiting' = {} /\ mem' = db.items /\ UNCHANGED db
    BY <1>3 DEF Crash, Waiting
  <2>2. Service!Die
    BY <1>0, <2>1 DEF Service!Die
  <2> QED
    BY <2>2
<1> QED
  BY <1>1, <1>2, <1>3

\* What GoAnimes does with requests, memory and database is what SyncService allows.
THEOREM Implements == Spec => ImplementsService
<1>1. Init => Service!Init
  <2> SUFFICES ASSUME Init PROVE Service!Init
    OBVIOUS
  <2>1. Inside = mu
    BY InitInv, InsideIsHolder
  <2> QED
    BY <2>1 DEF Init, Service!Init, Waiting, NoCatalog
<1>2. TypeOK /\ Inv /\ [Next]_vars => [Service!Next]_Service!vars
  <2> SUFFICES ASSUME TypeOK, Inv, [Next]_vars PROVE [Service!Next]_Service!vars
    OBVIOUS
  <2>1. TypeOK' /\ Inv'
    BY NextInv
  <2> QED
    BY <2>1, JobRefines, OtherRefines DEF Next, LoopNext, Waking, Turning, Watching
<1> QED
  BY <1>1, <1>2, InitInv, NextInv, PTL DEF Spec, ImplementsService, Service!Spec

====
