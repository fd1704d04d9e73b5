------------------------------ MODULE FeedFetch ------------------------------
(***************************************************************************)
(* How a sync collects releases: it gets the main feeds, and then the      *)
(* per-anime feed of every Erai anime (slug) that a release it does not    *)
(* know yet leads to.  A GET is tried again after 429, 503 and timeouts,   *)
(* and stops when the time of the sync is up.                              *)
(*                                                                         *)
(* A release is an Entry.  A catalog is its items and, as history, the     *)
(* slugs that were dealt with (tried): their per-anime feed was fetched,   *)
(* or was given up for a reason that the code names.                       *)
(***************************************************************************)
EXTENDS Integers, FiniteSets

CONSTANTS
  Entry,            \* releases, by their stable id
  Slug,             \* Erai anime
  SlugOf,           \* the anime a release links to
  Source,           \* registered main feeds
  Erai,             \* sources with an Erai origin and a token
  Br,               \* releases with [br] in erai:subtitles, and a stream
  Hashed,           \* releases whose info hash the feed shows
  PerAnimeCap,      \* GOANIMES_ERAI_MAX_PER_ANIME_FEEDS, 0 for no limit
  MainAttempts,     \* GETs of a main feed
  PerAnimeAttempts, \* GETs of a per-anime feed
  Backoff,          \* seconds before the second attempt
  RetryAfter        \* seconds a server may ask for, 0 for none

ASSUME EntryAssumption ==
  SlugOf \in [Entry -> Slug] /\ Br \subseteq Entry /\ Hashed \subseteq Entry
ASSUME SourceAssumption == Source # {} /\ Erai \subseteq Source
ASSUME LimitAssumption ==
  /\ PerAnimeCap \in Nat
  /\ MainAttempts \in Nat \ {0}
  /\ PerAnimeAttempts \in Nat \ {0}
  /\ Backoff \in Nat \ {0}
  /\ RetryAfter \subseteq Nat

VARIABLES
  fpc,  \* where collectMergedCatalogItems is
  work, \* its local variables
  get   \* the GET under way

fetching == <<fpc, work, get>>

----------------------------------------------------------------------------
Catalog == [items : SUBSET Entry, tried : SUBSET Slug]
NoCatalog == [items |-> {}, tried |-> {}]

\* todo: sources still to get; batch: releases taken so far; queued: slugQueued;
\* jobs: eraiJobs still to do; job: the one being fetched; ok: perAnimeOK.
Work == [prev : Catalog, todo : SUBSET Source, source : SUBSET Source,
         batch : SUBSET Entry, queued : SUBSET Slug, jobs : SUBSET Slug,
         job : SUBSET Slug, ok : Nat, tried : SUBSET Slug]
NoWork == [prev |-> NoCatalog, todo |-> {}, source |-> {}, batch |-> {},
           queued |-> {}, jobs |-> {}, job |-> {}, ok |-> 0, tried |-> {}]

FetchPc == {"off", "sources", "asking main", "slugs", "asking slug", "merging"}

----------------------------------------------------------------------------
(* GetBytesGETRetry and GetBytesGETRetryWithHeaders *)

MaxWait == 90
MaxRetryAfter == 120

Smaller(a, b) == IF a <= b THEN a ELSE b

\* parseRetryAfter: seconds or a date, capped.
Parsed(asked) == Smaller(asked, MaxRetryAfter)

\* retryWaitAfterThrottle: what the server asked for, or else the backoff, which
\* doubles; neither for longer than MaxWait.
RetryWait(failed, asked) ==
  IF Parsed(asked) > 0
  THEN Smaller(Parsed(asked), MaxWait)
  ELSE Smaller((Backoff * 2 ^ failed) \div 2, MaxWait)

\* failed: attempts of this GET that failed; pause: seconds to wait before the
\* next, 0 to go on.
Failures == 0 .. MainAttempts + PerAnimeAttempts
Pauses == {0} \cup {RetryWait(n, asked) : n \in Failures, asked \in RetryAfter}
Get == [failed : Failures, pause : Pauses]
NoGet == [failed |-> 0, pause |-> 0]

FetchTypeOK ==
  /\ fpc \in FetchPc
  /\ work \in Work
  /\ get \in Get

Attempts == IF fpc = "asking main" THEN MainAttempts ELSE PerAnimeAttempts

TryAgainUncounted(late) ==
  /\ fpc \in {"asking main", "asking slug"}
  /\ get.pause = 0
  /\ ~late
  /\ get.failed + 1 < Attempts
  /\ \E asked \in RetryAfter :
       get' = [failed |-> IF asked > 0 THEN get.failed ELSE get.failed + 1,
               pause  |-> RetryWait(get.failed + 1, asked)]
  /\ UNCHANGED <<fpc, work>>
\* 429, 503 (with or without Retry-After) or a timeout, and an attempt is left.
TryAgain(late) ==
  /\ fpc \in {"asking main", "asking slug"}
  /\ get.pause = 0
  /\ ~late
  /\ get.failed + 1 < Attempts
  /\ \E asked \in RetryAfter :
       get' = [failed |-> get.failed + 1, pause |-> RetryWait(get.failed + 1, asked)]
  /\ UNCHANGED <<fpc, work>>

WaitIsOver ==
  /\ fpc \in {"asking main", "asking slug"}
  /\ get.pause > 0
  /\ get' = [get EXCEPT !.pause = 0]
  /\ UNCHANGED <<fpc, work>>

\* An answer can only come to an attempt that begins in time; the GET fails when
\* the status is another, when it was the last attempt, or when time is up,
\* also during a wait.
CanAnswer(late) == get.pause = 0 /\ ~late
CanFail(late) == get.pause = 0 \/ late

----------------------------------------------------------------------------
(* collectMergedCatalogItems *)

FetchStep(from, to) == fpc = from /\ fpc' = to

BeginFetch(prev) ==
  /\ FetchStep("off", "sources")
  /\ work' = [NoWork EXCEPT !.prev = prev, !.todo = Source]
  /\ UNCHANGED get

PickSource ==
  \E s \in work.todo :
    /\ FetchStep("sources", "asking main")
    /\ work' = [work EXCEPT !.todo = @ \ {s}, !.source = {s}]
    /\ get' = NoGet

\* A GET or parse that fails leaves this feed out.
MainFails(late) ==
  /\ CanFail(late)
  /\ FetchStep("asking main", "sources")
  /\ work' = [work EXCEPT !.source = {}]
  /\ get' = NoGet

\* ParseFeedWithEraiSlugs with skipKnown: a row with a stored info hash is left
\* out, with its slug.  The others lead to their slug, and join if they have [br].
Unknown(shown) == shown \ (work.prev.items \cap Hashed)
SlugsOf(entries) == {SlugOf[e] : e \in entries}

\* Jobs are queued once, and only for Erai sources; the slugs of another source
\* are not expanded.
MainAnswers(late) ==
  /\ CanAnswer(late)
  /\ FetchStep("asking main", "sources")
  /\ \E shown \in SUBSET Entry, s \in work.source :
       LET new   == Unknown(shown)
           slugs == SlugsOf(new)
       IN  work' = IF s \in Erai
                   THEN [work EXCEPT !.source = {}, !.batch = @ \cup (new \cap Br),
                                     !.queued = @ \cup slugs,
                                     !.jobs = @ \cup (slugs \ work.queued)]
                   ELSE [work EXCEPT !.source = {}, !.batch = @ \cup (new \cap Br),
                                     !.tried = @ \cup SlugsOf(new \cap Br)]
  /\ get' = NoGet

SourcesDone ==
  /\ work.todo = {}
  /\ FetchStep("sources", "slugs")
  /\ UNCHANGED <<work, get>>

\* The cap counts the feeds that were got, not those that failed.
CapReached == PerAnimeCap > 0 /\ work.ok >= PerAnimeCap
FirstJob == work.jobs = work.queued

\* The pause before each job but the first ends the loop when time is up.
PickSlug(late) ==
  /\ ~CapReached
  /\ FirstJob \/ ~late
  /\ \E g \in work.jobs :
       /\ FetchStep("slugs", "asking slug")
       /\ work' = [work EXCEPT !.jobs = @ \ {g}, !.job = {g}]
       /\ get' = NoGet

SlugsDone(late) ==
  /\ work.jobs = {} \/ CapReached \/ (~FirstJob /\ late)
  /\ FetchStep("slugs", "merging")
  /\ work' = [work EXCEPT !.jobs = {}, !.tried = @ \cup work.jobs]
  /\ UNCHANGED get

\* One anime that fails does not stop the others.
StopAtFailure(late) ==
  /\ CanFail(late)
  /\ FetchStep("asking slug", "merging")
  /\ work' = [work EXCEPT !.job = {}, !.tried = @ \cup work.job]
  /\ get' = NoGet
SlugFails(late) ==
  /\ CanFail(late)
  /\ FetchStep("asking slug", "slugs")
  /\ work' = [work EXCEPT !.job = {}, !.tried = @ \cup work.job]
  /\ get' = NoGet

\* A body that does not parse counts as got.
SlugAnswers(late) ==
  /\ CanAnswer(late)
  /\ FetchStep("asking slug", "slugs")
  /\ \E shown \in SUBSET {e \in Br : SlugOf[e] \in work.job} :
       work' = [work EXCEPT !.job = {}, !.ok = @ + 1, !.batch = @ \cup shown,
                            !.tried = @ \cup work.job]
  /\ get' = NoGet
SlugBroken(late) ==
  /\ CanAnswer(late)
  /\ FetchStep("asking slug", "slugs")
  /\ work' = [work EXCEPT !.job = {}, !.ok = @ + 1, !.tried = @ \cup work.job]
  /\ get' = NoGet

\* MergeCatalogItemsByID: the previous catalog and the new releases.
Merged == [items |-> work.prev.items \cup work.batch,
           tried |-> work.prev.tried \cup work.tried]

FetchNext(late) ==
  \/ PickSource \/ MainFails(late) \/ MainAnswers(late) \/ SourcesDone
  \/ PickSlug(late) \/ SlugsDone(late)
  \/ SlugFails(late) \/ SlugAnswers(late) \/ SlugBroken(late)
  \/ TryAgain(late) \/ WaitIsOver

----------------------------------------------------------------------------
\* How many steps the fetch can still take: of the GET under way an attempt and
\* a wait for each that is left; such a GET for every source and every anime
\* that may still be asked; and the ends of the two loops.
GetLeft == 2 * (Attempts - get.failed) - (IF get.pause = 0 THEN 1 ELSE 0)
StepsLeft ==
  CASE fpc \in {"sources", "asking main"} ->
         Cardinality(work.todo) * (2 * MainAttempts)
           + (IF fpc = "asking main" THEN GetLeft ELSE 0)
           + (Cardinality(Slug) * (2 * PerAnimeAttempts) + 2)
    [] fpc \in {"slugs", "asking slug"} ->
         Cardinality(work.jobs) * (2 * PerAnimeAttempts)
           + (IF fpc = "asking slug" THEN GetLeft ELSE 0) + 1
    [] OTHER -> 0

==============================================================================
