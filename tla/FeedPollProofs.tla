--------------------------- MODULE FeedPollProofs ---------------------------
(***************************************************************************)
(* Proofs of the safety properties of FeedPoll, for any feeds and bodies.  *)
(***************************************************************************)
EXTENDS FeedPoll, TLAPS

(* The inductive invariant of BaselineIsBuilt. *)

\* The feeds the running sync has fetched, parsed and recorded undisturbed.
Clean == run.listed \ run.missed

\* What a sync has loaded is as good as what was stored.
LoadedRun == rpc \in {"loaded", "fetching", "got", "publishing"} /\ ~run.lossy
RunStartsBuilt ==
  LoadedRun => \A u \in Url \ blind : BuiltFrom(run.prev, run, u) /\ BuiltFrom(baseline, run, u)

\* Of a clean feed, probe and fingerprint are of a body that is built.
ProbesAreBuilt ==
  rpc \in {"fetching", "got"} => \A u \in Clean : probe[u] \in run.built[u]
FingerprintsAreClean ==
  rpc \in {"publishing", "saving", "saved"} =>
    /\ \A u \in Clean : run.fp[u] \in run.built[u]
    /\ \A u \in Url \ run.listed : run.fp[u] = NoBody

\* Memory, and then the database, is what the sync made.
PublishedRun ==
  /\ rpc \in {"saving", "saved"} => mem = [fp |-> run.fp, built |-> run.built]
  /\ rpc = "saved" => db = mem

StoredIsBuilt == \A u \in Url \ blind : BuiltFrom(baseline, db, u)

BuiltInv ==
  /\ BaselineIsBuilt /\ StoredIsBuilt
  /\ RunStartsBuilt /\ ProbesAreBuilt /\ FingerprintsAreClean /\ PublishedRun

(* The inductive invariant of ChangesAreSeen: under a poll that no sync has
   disturbed, no sync runs and probes are what was seen. *)

InPoll == ppc \in {"asking", "waiting", "answered"}
Answered == poll.listed \ (poll.todo \cup poll.url)

Undisturbed ==
  ppc \in {"starting", "listing", "asking", "waiting", "answered", "adopting"}
    /\ ~poll.overlap => rpc = "idle"
ProbesAreSeen ==
  InPoll /\ ~poll.overlap => \A u \in Answered : probe[u] = poll.saw[u] /\ probe[u] \in Body
OneUrl == \A u, v \in poll.url : u = v
Conditions ==
  ppc \in {"waiting", "answered"} /\ ~poll.overlap =>
    \A u \in poll.url :
      poll.asked # NoBody => poll.asked = IF probe[u] # NoBody THEN probe[u] ELSE baseline[u]
Answers ==
  ppc = "answered" =>
    \A u \in poll.url :
      /\ poll.saw[u] \in Body
      /\ IF poll.got = NoBody THEN poll.saw[u] = poll.asked ELSE poll.saw[u] = poll.got

SeenInv == Undisturbed /\ ProbesAreSeen /\ OneUrl /\ Conditions /\ Answers

----------------------------------------------------------------------------
(* Types *)

LEMMA ConstantTypes ==
  /\ NoFingerprints \in Fingerprints
  /\ NoCatalog \in Catalog
  /\ NoRun \in RunLocals /\ NoRun.url = {}
  /\ NoPoll \in PollLocals /\ NoPoll.url = {}
BY DEF NoFingerprints, Fingerprints, NoCatalog, Catalog, NothingBuilt, NoRun, RunLocals,
       NoPoll, PollLocals

\* One lemma for the steps of syncs, one for those of polls, one for the rest.
LEMMA RunTypes == TypeOK /\ RunNext => TypeOK'
<1> SUFFICES ASSUME TypeOK, RunNext PROVE TypeOK'
  OBVIOUS
<1> USE ConstantTypes
<1>1. CASE LoadPrevious
  BY <1>1 DEF TypeOK, LoadPrevious, RunStep, world, polling, RunPc, RunLocals, NoRun, Catalog
<1>2. CASE ListRunSources
  BY <1>2 DEF TypeOK, ListRunSources, RunStep, world, polling, RunPc, RunLocals, NoRun
<1>3. CASE RunListFails
  BY <1>3 DEF TypeOK, RunListFails, EndRun, world, RunPc, PollPc
<1>4. CASE Fetch
  <2> PICK u \in run.todo :
        run' = [run EXCEPT !.todo = @ \ {u}, !.url = {u}, !.body = feed[u]]
    BY <1>4 DEF Fetch
  <2>1. run' \in RunLocals /\ run'.url # {} /\ run'.body \in Body
    BY DEF TypeOK, RunLocals
  <2> QED
    BY <1>4, <2>1 DEF TypeOK, Fetch, RunStep, world, polling, RunPc
<1>5. CASE FetchFails
  BY <1>5 DEF TypeOK, FetchFails, RunStep, world, polling, RunPc, RunLocals
<1>6. CASE Ingest
  <2> PICK u \in run.url :
        /\ probe' = [probe EXCEPT ![u] = run.body]
        /\ run' = IF run.body \in Broken
                  THEN [run EXCEPT !.url = {}, !.body = NoBody, !.missed = @ \cup {u}]
                  ELSE [run EXCEPT !.url = {}, !.body = NoBody, !.missed = @ \ {u},
                                   !.built = MergeItems(run.built, u, run.body)]
    BY <1>6 DEF Ingest
  <2>1. u \in Url /\ probe' \in Fingerprints
    BY DEF TypeOK, RunLocals, Fingerprints
  <2>2. run.built \in [Url -> SUBSET Body] /\ run.body \in Body
    BY <1>6 DEF TypeOK, RunLocals, Ingest, RunStep
  <2>3. MergeItems(run.built, u, run.body) \in [Url -> SUBSET Body]
    BY <2>2 DEF MergeItems
  <2>4. CASE run.body \in Broken
    <3>1. run' \in RunLocals /\ run'.url = {}
      BY <2>1, <2>4 DEF TypeOK, RunLocals
    <3> QED
      BY <1>6, <2>1, <3>1 DEF TypeOK, Ingest, RunStep, world, polling, RunPc
  <2>5. CASE run.body \notin Broken
    <3>1. run' \in RunLocals /\ run'.url = {}
      BY <2>1, <2>3, <2>5 DEF TypeOK, RunLocals
    <3> QED
      BY <1>6, <2>1, <3>1 DEF TypeOK, Ingest, RunStep, world, polling, RunPc
  <2> QED
    BY <2>4, <2>5
<1>7. CASE ForPersist
  BY <1>7 DEF TypeOK, ForPersist, FingerprintOf, RunStep, world, polling, RunPc, RunLocals,
              Fingerprints
<1>8. CASE Publish
  BY <1>8 DEF TypeOK, Publish, Ahead, RunStep, world, polling, RunPc, RunLocals, Catalog
<1>9. CASE Save
  BY <1>9 DEF TypeOK, Save, RunStep, world, polling, RunPc, RunLocals, Catalog
<1>10. CASE SaveFails
  BY <1>10 DEF TypeOK, SaveFails, EndRun, world, RunPc, PollPc
<1>11. CASE Refresh
  BY <1>11 DEF TypeOK, Refresh, EndRun, world, RunPc, PollPc, Catalog
<1> QED
  BY <1>1, <1>2, <1>3, <1>4, <1>5, <1>6, <1>7, <1>8, <1>9, <1>10, <1>11 DEF RunNext

LEMMA MissType ==
  ASSUME TypeOK, NEW us \in SUBSET Url
  PROVE  /\ Miss(us) \in RunLocals
         /\ Miss(us).url = run.url /\ Miss(us).body = run.body
BY DEF TypeOK, Miss, RunLocals

LEMMA PollTypes == TypeOK /\ PollNext => TypeOK'
<1> SUFFICES ASSUME TypeOK, PollNext PROVE TypeOK'
  OBVIOUS
<1> USE ConstantTypes
<1>1. CASE PollStarts
  BY <1>1 DEF TypeOK, PollStarts, PollStep, world, syncing, PollPc
<1>11. CASE PollLoads
  BY <1>11 DEF TypeOK, PollLoads, LoadedBaseline, PollStep, world, syncing, PollPc, Catalog
<1>2. CASE PollLists
  <2>1. poll' \in PollLocals /\ poll'.url = {}
    BY <1>2 DEF TypeOK, PollLists, PollStep, PollPc, PollLocals
  <2> QED
    BY <1>2, <2>1 DEF TypeOK, PollLists, PollStep, world, syncing, PollPc
<1>3. CASE PollAsks
  <2> PICK u \in poll.todo :
        poll' = [poll EXCEPT !.todo = @ \ {u}, !.url = {u}, !.asked = ConditionOf(u)]
    BY <1>3 DEF PollAsks
  <2>1. ConditionOf(u) \in Body \cup {NoBody}
    BY DEF TypeOK, ConditionOf, PollLocals, Fingerprints
  <2>2. poll' \in PollLocals /\ poll'.url # {}
    BY <2>1 DEF TypeOK, PollLocals
  <2> QED
    BY <1>3, <2>2 DEF TypeOK, PollAsks, PollStep, world, syncing, PollPc
<1>4. CASE PollAnswered
  <2> PICK u \in poll.url :
        poll' = [poll EXCEPT !.saw[u] = feed[u],
                             !.got = IF poll.asked = feed[u] THEN NoBody ELSE feed[u]]
    BY <1>4 DEF PollAnswered
  <2>1. u \in Url /\ feed[u] \in Body /\ [poll.saw EXCEPT ![u] = feed[u]] \in Fingerprints
    BY DEF TypeOK, PollLocals, Fingerprints
  <2>2. poll' \in PollLocals /\ poll'.url = poll.url
    BY <2>1 DEF TypeOK, PollLocals
  <2> QED
    BY <1>4, <2>2 DEF TypeOK, PollAnswered, PollStep, world, syncing, PollPc
<1>5. CASE PollAskFails
  BY <1>5 DEF TypeOK, PollAskFails, PollStep, world, syncing, PollPc
<1>6. CASE PollStores
  <2> PICK u \in poll.url :
        /\ probe' = [probe EXCEPT ![u] = CASE poll.got # NoBody -> poll.got
                                           [] poll.got = NoBody /\ @ # NoBody -> @
                                           [] OTHER -> baseline[u]]
        /\ run' = Miss({u})
    BY <1>6 DEF PollStores
  <2>1. u \in Url
    BY DEF TypeOK, PollLocals
  <2>2. probe' \in Fingerprints
    BY <2>1 DEF TypeOK, PollLocals, Fingerprints
  <2>3. run' \in RunLocals /\ run'.url = run.url /\ run'.body = run.body
    BY <2>1, MissType
  <2> QED
    BY <1>6, <2>2, <2>3 DEF TypeOK, PollStores, PollStep, world, PollPc, PollLocals
<1>7. CASE PollDecides
  <2>1. run' = run \/ run' = Miss(Url \ poll.listed)
    BY <1>7 DEF PollDecides
  <2>2. run' \in RunLocals /\ run'.url = run.url /\ run'.body = run.body
    BY <2>1, MissType DEF TypeOK
  <2>3. probe' \in Fingerprints
    BY <1>7 DEF TypeOK, PollDecides, Fingerprints
  <2> QED
    BY <1>7, <2>2, <2>3 DEF TypeOK, PollDecides, PollStep, world, PollPc
<1>8. CASE PollAdopts
  BY <1>8 DEF TypeOK, PollAdopts, PollStep, world, syncing, PollPc, Fingerprints
<1>9. CASE PollFires
  BY <1>9 DEF TypeOK, PollFires, Lock, world, RunPc, PollPc
<1>10. CASE PollYields
  BY <1>10 DEF TypeOK, PollYields, PollStep, world, syncing, PollPc
<1> QED
  BY <1>1, <1>2, <1>3, <1>4, <1>5, <1>6, <1>7, <1>8, <1>9, <1>10, <1>11 DEF PollNext

\* Types: every reachable state is well formed, a request is under way exactly
\* in the states that wait for one, and a loop that syncs has a sync.
THEOREM TypeCorrect == Spec => []TypeOK
<1>1. Init => TypeOK
  BY ConstantTypes DEF Init, TypeOK, RunPc, PollPc
<1>2. TypeOK /\ [Next]_vars => TypeOK'
  <2> SUFFICES ASSUME TypeOK, [Next]_vars PROVE TypeOK'
    OBVIOUS
  <2>1. CASE FullTick
    BY <2>1 DEF TypeOK, FullTick, Lock, world, RunPc, PollPc
  <2>2. CASE Rebuild
    BY <2>2 DEF TypeOK, Rebuild, Lock, world, RunPc, PollLocals
  <2>3. CASE RunNext
    BY <2>3, RunTypes
  <2>4. CASE PollNext
    BY <2>4, PollTypes
  <2>5. CASE PersistSnapshot
    BY <2>5 DEF TypeOK, PersistSnapshot, world, syncing, polling
  <2>6. CASE FeedChanges
    BY <2>6, UrlAssumption DEF TypeOK, FeedChanges, syncing, polling
  <2>7. CASE SourcesChange
    BY <2>7 DEF TypeOK, SourcesChange, syncing, polling
  <2>8. CASE Restart
    BY <2>8, ConstantTypes DEF TypeOK, Restart, Hydrated, world, RunPc, PollPc
  <2>9. CASE UNCHANGED vars
    BY <2>9 DEF TypeOK, vars
  <2> QED
    BY <2>1, <2>2, <2>3, <2>4, <2>5, <2>6, <2>7, <2>8, <2>9 DEF Next
<1> QED
  BY <1>1, <1>2, PTL DEF Spec

----------------------------------------------------------------------------
(* BaselineIsBuilt *)

BuiltVars == <<probe, baseline, mem, db, rpc, run, blind>>

LEMMA BuiltStutters == BuiltInv /\ UNCHANGED BuiltVars => BuiltInv'
BY DEF BuiltInv, BuiltVars, BaselineIsBuilt, StoredIsBuilt, RunStartsBuilt, ProbesAreBuilt,
       FingerprintsAreClean, PublishedRun, LoadedRun, Clean, BuiltFrom

\* A step that neither starts nor ends the fetches of a sync, nor changes the
\* catalogs, may only change probes, and marks what it changes as missed.
LEMMA BuiltProbes ==
  ASSUME TypeOK, BuiltInv, NEW us \in SUBSET Url,
         run' = Miss(us), \A u \in Url \ us : probe'[u] = probe[u],
         UNCHANGED <<baseline, mem, db, rpc, blind>>
  PROVE  BuiltInv'
<1>1. /\ run'.prev = run.prev /\ run'.fp = run.fp /\ run'.built = run.built
      /\ run'.lossy = run.lossy /\ run'.listed = run.listed
      /\ run'.missed = IF rpc \in {"fetching", "got"}
                       THEN run.missed \cup (us \cap run.listed) ELSE run.missed
  BY DEF TypeOK, RunLocals, Miss
<1>2. (BaselineIsBuilt /\ StoredIsBuilt /\ RunStartsBuilt /\ PublishedRun)'
  BY <1>1 DEF BuiltInv, BaselineIsBuilt, StoredIsBuilt, RunStartsBuilt, PublishedRun,
              LoadedRun, BuiltFrom
<1>3. ProbesAreBuilt'
  BY <1>1 DEF TypeOK, RunLocals, BuiltInv, ProbesAreBuilt, Clean
<1>4. FingerprintsAreClean'
  BY <1>1 DEF BuiltInv, FingerprintsAreClean, Clean
<1> QED
  BY <1>2, <1>3, <1>4 DEF BuiltInv

LEMMA RunEnds == BuiltInv /\ EndRun /\ UNCHANGED <<baseline, mem, db, blind>> => BuiltInv'
BY DEF BuiltInv, EndRun, BaselineIsBuilt, StoredIsBuilt, RunStartsBuilt, ProbesAreBuilt,
       FingerprintsAreClean, PublishedRun, LoadedRun, BuiltFrom

LEMMA RunBuilt == TypeOK /\ BuiltInv /\ RunNext => BuiltInv'
<1> SUFFICES ASSUME TypeOK, BuiltInv, RunNext PROVE BuiltInv'
  OBVIOUS
<1>1. CASE LoadPrevious
  <2>1. \/ run'.prev = db.fp /\ run'.built = db.built
        \/ run'.lossy
    BY <1>1 DEF LoadPrevious, NoRun
  <2> QED
    BY <1>1, <2>1
    DEF LoadPrevious, RunStep, BuiltInv, BaselineIsBuilt, StoredIsBuilt, RunStartsBuilt,
        ProbesAreBuilt, FingerprintsAreClean, PublishedRun, LoadedRun, BuiltFrom
<1>2. CASE ListRunSources
  <2>1. CASE rpc' = "fetching"
    <3>1. /\ run'.prev = run.prev /\ run'.built = run.built /\ run'.lossy = run.lossy
          /\ run'.listed = run'.missed
      BY <1>2, <2>1 DEF ListRunSources, RunStep, TypeOK, RunLocals
    <3> QED
      BY <1>2, <2>1, <3>1
      DEF ListRunSources, RunStep, BuiltInv, BaselineIsBuilt, StoredIsBuilt, RunStartsBuilt,
          ProbesAreBuilt, FingerprintsAreClean, PublishedRun, LoadedRun, BuiltFrom, Clean
  <2>2. CASE rpc' = "publishing"
    <3>1. run'.lossy /\ run'.listed = {} /\ run'.fp = NoFingerprints
      BY <1>2, <2>2 DEF ListRunSources, RunStep, NoRun
    <3> QED
      BY <1>2, <2>2, <3>1
      DEF ListRunSources, RunStep, BuiltInv, BaselineIsBuilt, StoredIsBuilt, RunStartsBuilt,
          ProbesAreBuilt, FingerprintsAreClean, PublishedRun, LoadedRun, BuiltFrom, Clean,
          NoFingerprints
  <2> QED
    BY <1>2, <2>1, <2>2 DEF ListRunSources, RunStep
<1>3. CASE RunListFails
  BY <1>3, RunEnds DEF RunListFails
<1>4. CASE Fetch \/ FetchFails
  <2>1. /\ run'.prev = run.prev /\ run'.built = run.built /\ run'.lossy = run.lossy
        /\ run'.listed = run.listed /\ run'.missed = run.missed
    BY <1>4 DEF Fetch, FetchFails, TypeOK, RunLocals
  <2>2. rpc = "fetching" /\ rpc' \in {"fetching", "got"}
    BY <1>4 DEF Fetch, FetchFails, RunStep
  <2>3. UNCHANGED <<probe, baseline, mem, db, blind>>
    BY <1>4 DEF Fetch, FetchFails
  <2> QED
    BY <2>1, <2>2, <2>3
    DEF BuiltInv, BaselineIsBuilt, StoredIsBuilt, RunStartsBuilt, ProbesAreBuilt,
        FingerprintsAreClean, PublishedRun, LoadedRun, BuiltFrom, Clean
<1>5. CASE Ingest
  <2> PICK u \in run.url :
        /\ probe' = [probe EXCEPT ![u] = run.body]
        /\ run' = IF run.body \in Broken
                  THEN [run EXCEPT !.url = {}, !.body = NoBody, !.missed = @ \cup {u}]
                  ELSE [run EXCEPT !.url = {}, !.body = NoBody, !.missed = @ \ {u},
                                   !.built = MergeItems(run.built, u, run.body)]
    BY <1>5 DEF Ingest
  <2>1. rpc = "got" /\ rpc' = "fetching" /\ UNCHANGED <<baseline, mem, db, blind>>
    BY <1>5 DEF Ingest, RunStep
  <2>2. u \in Url /\ probe \in [Url -> Body \cup {NoBody}] /\ run.built \in [Url -> SUBSET Body]
    BY DEF TypeOK, RunLocals, Fingerprints
  <2>3. /\ run'.prev = run.prev /\ run'.lossy = run.lossy /\ run'.listed = run.listed
        /\ \A v \in Url : run.built[v] \subseteq run'.built[v]
        /\ u \in run'.missed \/ run.body \in run'.built[u]
        /\ \A v \in Url \ {u} : v \in run.missed => v \in run'.missed
    BY <2>2 DEF TypeOK, RunLocals, MergeItems
  <2>4. RunStartsBuilt'
    BY <2>1, <2>3 DEF BuiltInv, RunStartsBuilt, LoadedRun, BuiltFrom
  <2>5. ProbesAreBuilt'
    <3> SUFFICES ASSUME NEW v \in run'.listed \ run'.missed
                 PROVE  probe'[v] \in run'.built[v]
      BY DEF ProbesAreBuilt, Clean
    <3>1. v \in Url
      BY <2>3 DEF TypeOK, RunLocals
    <3>2. CASE v = u
      BY <2>2, <2>3, <3>2
    <3>3. CASE v # u
      BY <2>1, <2>2, <2>3, <3>1, <3>3 DEF BuiltInv, ProbesAreBuilt, Clean
    <3> QED
      BY <3>2, <3>3
  <2>6. (BaselineIsBuilt /\ StoredIsBuilt /\ FingerprintsAreClean /\ PublishedRun)'
    BY <2>1 DEF BuiltInv, BaselineIsBuilt, StoredIsBuilt, FingerprintsAreClean, PublishedRun,
                BuiltFrom
  <2> QED
    BY <2>4, <2>5, <2>6 DEF BuiltInv
<1>6. CASE ForPersist
  <2>1. /\ rpc = "fetching" /\ rpc' = "publishing"
        /\ UNCHANGED <<probe, baseline, mem, db, blind>>
    BY <1>6 DEF ForPersist, RunStep
  <2>2. /\ run'.prev = run.prev /\ run'.built = run.built /\ run'.lossy = run.lossy
        /\ run'.listed = run.listed /\ run'.missed = run.missed
        /\ run'.fp = [u \in Url |-> FingerprintOf(u)]
    BY <1>6 DEF ForPersist, TypeOK, RunLocals
  <2>3. \A u \in Clean : probe[u] \in run.built[u] /\ probe[u] # NoBody /\ u \in Url
    BY <2>1, BodyAssumption DEF BuiltInv, ProbesAreBuilt, Clean, TypeOK, RunLocals
  <2>4. FingerprintsAreClean'
    BY <2>1, <2>2, <2>3 DEF FingerprintsAreClean, Clean, FingerprintOf
  <2> QED
    BY <2>1, <2>2, <2>4
    DEF BuiltInv, BaselineIsBuilt, StoredIsBuilt, RunStartsBuilt, ProbesAreBuilt,
        PublishedRun, LoadedRun, BuiltFrom
<1>7. CASE Publish
  <2>1. /\ rpc = "publishing" /\ rpc' = "saving" /\ UNCHANGED <<baseline, db, run>>
        /\ mem' = [fp |-> run.fp, built |-> run.built]
        /\ blind' = blind \cup Ahead
    BY <1>7 DEF Publish, RunStep
  <2>2. FingerprintsAreClean' /\ ProbesAreBuilt' /\ PublishedRun' /\ RunStartsBuilt'
    BY <2>1 DEF BuiltInv, FingerprintsAreClean, ProbesAreBuilt, PublishedRun, RunStartsBuilt,
                LoadedRun, Clean
  <2>3. \A u \in Url \ blind' :
          /\ BuiltFrom(run.fp, run, u)
          /\ BuiltFrom(baseline, run, u)
    <3> SUFFICES ASSUME NEW u \in Url \ blind'
                 PROVE  BuiltFrom(run.fp, run, u) /\ BuiltFrom(baseline, run, u)
      OBVIOUS
    <3>1. u \notin blind /\ ~run.lossy /\ (u \in run.missed => run.fp[u] = run.prev[u])
      BY <2>1 DEF Ahead
    <3>2. BuiltFrom(run.prev, run, u) /\ BuiltFrom(baseline, run, u)
      BY <2>1, <3>1 DEF BuiltInv, RunStartsBuilt, LoadedRun
    <3>3. u \notin run.listed => run.fp[u] = NoBody
      BY <2>1 DEF BuiltInv, FingerprintsAreClean
    <3>4. u \in run.listed /\ u \notin run.missed => run.fp[u] \in run.built[u]
      BY <2>1 DEF BuiltInv, FingerprintsAreClean, Clean
    <3> QED
      BY <3>1, <3>2, <3>3, <3>4 DEF BuiltFrom
  <2>4. BaselineIsBuilt' /\ StoredIsBuilt'
    BY <2>1, <2>3 DEF BuiltInv, BaselineIsBuilt, StoredIsBuilt, BuiltFrom
  <2> QED
    BY <2>2, <2>4 DEF BuiltInv
<1>8. CASE Save
  <2>1. /\ rpc = "saving" /\ rpc' = "saved" /\ UNCHANGED <<baseline, mem, run, blind>>
        /\ db' = mem
    BY <1>8 DEF Save, RunStep, BuiltInv, PublishedRun
  <2> QED
    BY <2>1
    DEF BuiltInv, BaselineIsBuilt, StoredIsBuilt, RunStartsBuilt, ProbesAreBuilt,
        FingerprintsAreClean, PublishedRun, LoadedRun, BuiltFrom, Clean
<1>9. CASE SaveFails
  BY <1>9, RunEnds DEF SaveFails
<1>10. CASE Refresh
  <2>1. CASE UNCHANGED <<baseline, blind>>
    BY <1>10, <2>1, RunEnds DEF Refresh
  <2>2. CASE baseline' = mem.fp /\ blind' = blind \ Clean
    <3>1. /\ rpc = "saved" /\ rpc' = "idle" /\ UNCHANGED <<mem, db>>
          /\ mem = [fp |-> run.fp, built |-> run.built] /\ db = mem
      BY <1>10 DEF Refresh, EndRun, BuiltInv, PublishedRun
    <3>2. \A u \in Url \ blind' : BuiltFrom(mem.fp, mem, u)
      BY <2>2, <3>1 DEF BuiltInv, BaselineIsBuilt, FingerprintsAreClean, BuiltFrom
    <3> QED
      BY <2>2, <3>1, <3>2
      DEF BuiltInv, BaselineIsBuilt, StoredIsBuilt, RunStartsBuilt, ProbesAreBuilt,
          FingerprintsAreClean, PublishedRun, LoadedRun, BuiltFrom
  <2> QED
    BY <1>10, <2>1, <2>2 DEF Refresh, Clean
<1> QED
  BY <1>1, <1>2, <1>3, <1>4, <1>5, <1>6, <1>7, <1>8, <1>9, <1>10 DEF RunNext

LEMMA PollBuilt == TypeOK /\ BuiltInv /\ PollNext => BuiltInv'
<1> SUFFICES ASSUME TypeOK, BuiltInv, PollNext PROVE BuiltInv'
  OBVIOUS
<1>1. CASE PollLoads
  <2>1. UNCHANGED <<probe, mem, db, rpc, run>>
    BY <1>1 DEF PollLoads, PollStep, syncing
  <2>2. CASE UNCHANGED <<baseline, blind>>
    BY <2>1, <2>2, BuiltStutters DEF BuiltVars
  <2>3. CASE baseline' = NoFingerprints /\ UNCHANGED blind
    BY <2>1, <2>3
    DEF BuiltInv, BaselineIsBuilt, StoredIsBuilt, RunStartsBuilt, ProbesAreBuilt,
        FingerprintsAreClean, PublishedRun, LoadedRun, BuiltFrom, NoFingerprints, Clean
  <2>4. CASE /\ baseline' = LoadedBaseline
             /\ blind' = IF mem = db /\ rpc = "idle" THEN blind ELSE Url
    BY <2>1, <2>4
    DEF BuiltInv, BaselineIsBuilt, StoredIsBuilt, RunStartsBuilt, ProbesAreBuilt,
        FingerprintsAreClean, PublishedRun, LoadedRun, BuiltFrom, LoadedBaseline, Clean
  <2> QED
    BY <1>1, <2>2, <2>3, <2>4 DEF PollLoads
<1>2. CASE PollStarts \/ PollLists \/ PollAsks \/ PollAnswered \/ PollAskFails \/ PollYields
  BY <1>2, BuiltStutters
  DEF PollStarts, PollLists, PollAsks, PollAnswered, PollAskFails, PollYields, PollStep,
      syncing, BuiltVars
<1>3. CASE PollStores
  <2>1. PICK u \in poll.url :
          /\ run' = Miss({u})
          /\ \A v \in Url \ {u} : probe'[v] = probe[v]
    BY <1>3 DEF PollStores, TypeOK, Fingerprints
  <2>2. {u} \in SUBSET Url
    BY <2>1 DEF TypeOK, PollLocals
  <2>3. UNCHANGED <<baseline, mem, db, rpc, blind>>
    BY <1>3 DEF PollStores, PollStep
  <2> QED
    BY <2>1, <2>2, <2>3, BuiltProbes
<1>4. CASE PollDecides
  <2>1. UNCHANGED <<baseline, mem, db, rpc, blind>>
    BY <1>4 DEF PollDecides, PollStep
  <2>2. CASE UNCHANGED <<probe, run>>
    BY <2>1, <2>2, BuiltStutters DEF BuiltVars
  <2>3. CASE /\ run' = Miss(Url \ poll.listed)
             /\ probe' = [u \in Url |-> IF u \in poll.listed THEN probe[u] ELSE NoBody]
    <3>1. \A u \in Url \ (Url \ poll.listed) : probe'[u] = probe[u]
      BY <2>3
    <3> QED
      BY <2>1, <2>3, <3>1, BuiltProbes
  <2> QED
    BY <1>4, <2>2, <2>3 DEF PollDecides
<1>5. CASE PollAdopts
  <2>1. CASE UNCHANGED <<baseline, blind>>
    BY <1>5, <2>1, BuiltStutters DEF PollAdopts, PollStep, syncing, BuiltVars
  <2>2. CASE blind' = Url
    BY <1>5, <2>2
    DEF PollAdopts, PollStep, syncing, BuiltInv, BaselineIsBuilt, StoredIsBuilt,
        RunStartsBuilt, ProbesAreBuilt, FingerprintsAreClean, PublishedRun, LoadedRun, Clean
  <2> QED
    BY <1>5, <2>1, <2>2 DEF PollAdopts
<1>6. CASE PollFires
  BY <1>6
  DEF PollFires, Lock, BuiltInv, BaselineIsBuilt, StoredIsBuilt, RunStartsBuilt,
      ProbesAreBuilt, FingerprintsAreClean, PublishedRun, LoadedRun, BuiltFrom
<1> QED
  BY <1>1, <1>2, <1>3, <1>4, <1>5, <1>6 DEF PollNext

LEMMA NextBuilt == TypeOK /\ BuiltInv /\ [Next]_vars => BuiltInv'
<1> SUFFICES ASSUME TypeOK, BuiltInv, [Next]_vars PROVE BuiltInv'
  OBVIOUS
<1>1. CASE FullTick \/ Rebuild
  BY <1>1
  DEF FullTick, Rebuild, Lock, BuiltInv, BaselineIsBuilt, StoredIsBuilt, RunStartsBuilt,
      ProbesAreBuilt, FingerprintsAreClean, PublishedRun, LoadedRun, BuiltFrom
<1>2. CASE RunNext
  BY <1>2, RunBuilt
<1>3. CASE PollNext
  BY <1>3, PollBuilt
<1>4. CASE PersistSnapshot
  BY <1>4
  DEF PersistSnapshot, syncing, BuiltInv, BaselineIsBuilt, StoredIsBuilt, RunStartsBuilt,
      ProbesAreBuilt, FingerprintsAreClean, PublishedRun, LoadedRun, BuiltFrom, Clean
<1>5. CASE FeedChanges \/ SourcesChange \/ UNCHANGED vars
  BY <1>5, BuiltStutters DEF FeedChanges, SourcesChange, vars, syncing, BuiltVars
<1>6. CASE Restart
  <2>1. rpc' = "idle" /\ baseline' = NoFingerprints /\ db' = db /\ blind \subseteq blind'
    BY <1>6 DEF Restart, TypeOK
  <2>2. blind' = Url \/ mem' = db \/ mem' = NoCatalog
    BY <1>6 DEF Restart, Hydrated
  <2> QED
    BY <2>1, <2>2
    DEF BuiltInv, BaselineIsBuilt, StoredIsBuilt, RunStartsBuilt, ProbesAreBuilt,
        FingerprintsAreClean, PublishedRun, LoadedRun, BuiltFrom, NoFingerprints, NoCatalog
<1> QED
  BY <1>1, <1>2, <1>3, <1>4, <1>5, <1>6 DEF Next

LEMMA InitBuilt == Init => BuiltInv
BY DEF Init, BuiltInv, BaselineIsBuilt, StoredIsBuilt, RunStartsBuilt, ProbesAreBuilt,
       FingerprintsAreClean, PublishedRun, LoadedRun, BuiltFrom, NoFingerprints, NoCatalog

\* The fingerprint of a feed is of a body its catalog was built from, in every
\* reachable state and for every feed that none of the named causes made blind.
THEOREM BaselineBuilt == Spec => []BaselineIsBuilt
<1>1. BuiltInv => BaselineIsBuilt
  BY DEF BuiltInv
<1> QED
  BY <1>1, InitBuilt, NextBuilt, TypeCorrect, PTL DEF Spec

----------------------------------------------------------------------------
(* ChangesAreSeen *)

\* A step that leaves polls alone, or that runs under no undisturbed poll.
LEMMA SeenStutters ==
  ASSUME SeenInv, UNCHANGED <<ppc, poll>>,
         UNCHANGED <<probe, baseline, rpc>> \/ rpc # "idle"
  PROVE  SeenInv'
BY DEF SeenInv, Undisturbed, ProbesAreSeen, OneUrl, Conditions, Answers, InPoll, Answered

\* A poll that is not asking has nothing to keep but its one request.
LEMMA SeenElsewhere ==
  ASSUME SeenInv, ppc' \in {"idle", "changed", "syncing"},
         poll' = NoPoll \/ poll' = poll
  PROVE  SeenInv'
BY ConstantTypes
DEF SeenInv, Undisturbed, ProbesAreSeen, OneUrl, Conditions, Answers, InPoll

LEMMA PollSeen == TypeOK /\ SeenInv /\ PollNext => SeenInv'
<1> SUFFICES ASSUME TypeOK, SeenInv, PollNext PROVE SeenInv'
  OBVIOUS
<1>1. CASE PollStarts
  BY <1>1
  DEF PollStarts, PollStep, syncing, SeenInv, Undisturbed, ProbesAreSeen, OneUrl, Conditions,
      Answers, InPoll
<1>8. CASE PollLoads
  BY <1>8
  DEF PollLoads, PollStep, syncing, SeenInv, Undisturbed, ProbesAreSeen, OneUrl, Conditions,
      Answers, InPoll
<1>2. CASE PollLists
  <2>1. CASE ppc' = "idle" /\ poll' = NoPoll
    BY <2>1, SeenElsewhere
  <2>2. CASE poll' = [poll EXCEPT !.listed = sources, !.todo = sources]
    <3>1. /\ poll'.listed = sources /\ poll'.todo = sources /\ poll'.url = {}
          /\ poll'.overlap = poll.overlap
      BY <1>2, <2>2 DEF TypeOK, PollLists, PollStep, PollLocals
    <3> QED
      BY <1>2, <2>2, <3>1
      DEF PollLists, PollStep, syncing, SeenInv, Undisturbed, ProbesAreSeen, OneUrl,
          Conditions, Answers, InPoll, Answered
  <2> QED
    BY <1>2, <2>1, <2>2 DEF PollLists, PollStep
<1>3. CASE PollAsks
  <2> PICK u \in poll.todo :
        poll' = [poll EXCEPT !.todo = @ \ {u}, !.url = {u}, !.asked = ConditionOf(u)]
    BY <1>3 DEF PollAsks
  <2>1. /\ poll'.listed = poll.listed /\ poll'.saw = poll.saw /\ poll'.overlap = poll.overlap
        /\ poll'.todo = poll.todo \ {u} /\ poll'.url = {u} /\ poll'.asked = ConditionOf(u)
    BY DEF TypeOK, PollLocals
  <2>2. /\ ppc = "asking" /\ ppc' = "waiting" /\ poll.url = {}
        /\ UNCHANGED <<probe, baseline, rpc>>
    BY <1>3 DEF PollAsks, PollStep, syncing, TypeOK
  <2>3. Answered' \subseteq Answered
    BY <2>1, <2>2 DEF Answered
  <2>4. ProbesAreSeen'
    BY <2>1, <2>2, <2>3 DEF SeenInv, ProbesAreSeen, InPoll
  <2> QED
    BY <2>1, <2>2, <2>4
    DEF SeenInv, Undisturbed, OneUrl, Conditions, Answers, ConditionOf
<1>4. CASE PollAnswered
  <2> PICK u \in poll.url :
        poll' = [poll EXCEPT !.saw[u] = feed[u],
                             !.got = IF poll.asked = feed[u] THEN NoBody ELSE feed[u]]
    BY <1>4 DEF PollAnswered
  <2>1. u \in Url /\ feed[u] \in Body /\ poll.saw \in Fingerprints
    BY DEF TypeOK, PollLocals
  <2>2. /\ poll'.listed = poll.listed /\ poll'.overlap = poll.overlap
        /\ poll'.todo = poll.todo /\ poll'.url = poll.url /\ poll'.asked = poll.asked
        /\ poll'.saw = [poll.saw EXCEPT ![u] = feed[u]]
        /\ poll'.got = IF poll.asked = feed[u] THEN NoBody ELSE feed[u]
    BY DEF TypeOK, PollLocals
  <2>3. poll'.saw[u] = feed[u] /\ \A v \in Url \ {u} : poll'.saw[v] = poll.saw[v]
    BY <2>1, <2>2 DEF Fingerprints
  <2>4. /\ ppc = "waiting" /\ ppc' = "answered" /\ UNCHANGED <<probe, baseline, rpc>>
    BY <1>4 DEF PollAnswered, PollStep, syncing
  <2>5. ProbesAreSeen'
    <3>1. Answered' = Answered /\ Answered \subseteq Url \ {u}
      BY <2>2 DEF Answered, TypeOK, PollLocals
    <3> QED
      BY <2>2, <2>3, <2>4, <3>1 DEF SeenInv, ProbesAreSeen, InPoll
  <2>6. Answers'
    BY <2>1, <2>2, <2>3, BodyAssumption DEF SeenInv, OneUrl, Answers
  <2> QED
    BY <2>2, <2>4, <2>5, <2>6 DEF SeenInv, Undisturbed, OneUrl, Conditions
<1>5. CASE PollAskFails \/ PollAdopts \/ PollYields \/ PollFires
  BY <1>5, SeenElsewhere
  DEF PollAskFails, PollAdopts, PollYields, PollFires, PollStep
<1>6. CASE PollStores
  <2> PICK u \in poll.url :
        /\ probe' = [probe EXCEPT ![u] = CASE poll.got # NoBody -> poll.got
                                           [] poll.got = NoBody /\ @ # NoBody -> @
                                           [] OTHER -> baseline[u]]
        /\ poll' = [poll EXCEPT !.url = {}, !.asked = NoBody, !.got = NoBody]
    BY <1>6 DEF PollStores
  <2>1. u \in Url /\ probe \in Fingerprints
    BY DEF TypeOK, PollLocals
  <2>2. /\ poll'.listed = poll.listed /\ poll'.overlap = poll.overlap
        /\ poll'.todo = poll.todo /\ poll'.url = {} /\ poll'.saw = poll.saw
    BY DEF TypeOK, PollLocals
  <2>3. ppc = "answered" /\ ppc' = "asking" /\ UNCHANGED rpc
    BY <1>6 DEF PollStores, PollStep
  <2>4. /\ probe'[u] = IF poll.got # NoBody THEN poll.got
                       ELSE IF probe[u] # NoBody THEN probe[u] ELSE baseline[u]
        /\ \A v \in Url \ {u} : probe'[v] = probe[v]
    BY <2>1 DEF Fingerprints
  <2>5. ProbesAreSeen'
    <3> SUFFICES ASSUME ~poll.overlap, NEW v \in Answered'
                 PROVE  probe'[v] = poll.saw[v] /\ probe'[v] \in Body
      BY <2>2 DEF ProbesAreSeen
    <3>1. CASE v = u
      BY <2>3, <2>4, <3>1, BodyAssumption DEF SeenInv, Conditions, Answers
    <3>2. CASE v # u
      <4>1. v \in Answered /\ v \in Url
        BY <2>2, <3>2 DEF Answered, SeenInv, OneUrl, TypeOK, PollLocals
      <4> QED
        BY <2>3, <2>4, <3>2, <4>1 DEF SeenInv, ProbesAreSeen, InPoll
    <3> QED
      BY <3>1, <3>2
  <2> QED
    BY <2>2, <2>3, <2>5 DEF SeenInv, Undisturbed, OneUrl, Conditions, Answers
<1>7. CASE PollDecides
  <2>1. CASE ppc' = "adopting" /\ UNCHANGED <<poll, rpc>>
    BY <1>7, <2>1
    DEF PollDecides, PollStep, SeenInv, Undisturbed, ProbesAreSeen, OneUrl, Conditions,
        Answers, InPoll
  <2>2. CASE ppc' \in {"changed", "idle"} /\ poll' = NoPoll
    BY <2>2, SeenElsewhere
  <2> QED
    BY <1>7, <2>1, <2>2 DEF PollDecides, PollStep
<1> QED
  BY <1>1, <1>2, <1>3, <1>4, <1>5, <1>6, <1>7, <1>8 DEF PollNext

LEMMA InitSeen == Init => SeenInv
BY ConstantTypes
DEF Init, SeenInv, Undisturbed, ProbesAreSeen, OneUrl, Conditions, Answers, InPoll

LEMMA NextSeen == TypeOK /\ SeenInv /\ [Next]_vars => SeenInv'
<1> SUFFICES ASSUME TypeOK, SeenInv, [Next]_vars PROVE SeenInv'
  OBVIOUS
<1>1. CASE FullTick
  BY <1>1, SeenElsewhere DEF FullTick
<1>2. CASE Rebuild
  <2>1. CASE poll' = poll /\ ppc \in {"idle", "changed"}
    BY <1>2, <2>1, SeenElsewhere DEF Rebuild
  <2>2. CASE poll' = [poll EXCEPT !.overlap = TRUE]
    <3>1. /\ poll'.overlap /\ poll'.url = poll.url /\ poll'.saw = poll.saw
          /\ poll'.asked = poll.asked /\ poll'.got = poll.got
      BY <2>2 DEF TypeOK, PollLocals
    <3> QED
      BY <1>2, <3>1
      DEF Rebuild, SeenInv, Undisturbed, ProbesAreSeen, OneUrl, Conditions, Answers
  <2> QED
    BY <1>2, <2>1, <2>2 DEF Rebuild
<1>3. CASE RunNext
  <2>1. rpc # "idle" /\ UNCHANGED poll /\ (UNCHANGED ppc \/ ppc' = "idle")
    BY <1>3
    DEF RunNext, LoadPrevious, ListRunSources, RunListFails, Fetch, FetchFails, Ingest,
        ForPersist, Publish, Save, SaveFails, Refresh, RunStep, EndRun, polling
  <2> QED
    BY <2>1, SeenStutters, SeenElsewhere
<1>4. CASE PollNext
  BY <1>4, PollSeen
<1>5. CASE PersistSnapshot \/ FeedChanges \/ SourcesChange \/ UNCHANGED vars
  BY <1>5, SeenStutters
  DEF PersistSnapshot, FeedChanges, SourcesChange, vars, syncing, polling
<1>6. CASE Restart
  BY <1>6, SeenElsewhere DEF Restart
<1> QED
  BY <1>1, <1>2, <1>3, <1>4, <1>5, <1>6 DEF Next

\* A poll that ends without seeing a change has missed none.
THEOREM ChangesSeen == Spec => ChangesAreSeen
<1>1. Init => BuiltInv /\ SeenInv
  BY InitBuilt, InitSeen
<1>2. TypeOK /\ BuiltInv /\ SeenInv /\ [Next]_vars =>
        [PollDecides /\ ppc' = "idle" /\ ~poll.overlap =>
           \A u \in poll.listed \ blind : poll.saw[u] \in mem.built[u]]_vars
  <2> SUFFICES ASSUME TypeOK, BuiltInv, SeenInv, PollDecides, ppc' = "idle", ~poll.overlap,
                      NEW u \in poll.listed \ blind
               PROVE  poll.saw[u] \in mem.built[u]
    OBVIOUS
  <2>1. /\ ppc = "asking" /\ poll.todo = {} /\ poll.url = {}
        /\ ~Differs
    BY DEF PollDecides, PollStep
  <2>2. probe[u] = baseline[u] /\ u \in Url
    BY <2>1 DEF Differs, ListedDiffers, TypeOK, PollLocals
  <2>3. poll.saw[u] = probe[u] /\ probe[u] # NoBody
    BY <2>1, BodyAssumption DEF SeenInv, ProbesAreSeen, InPoll, Answered
  <2> QED
    BY <2>2, <2>3 DEF BuiltInv, BaselineIsBuilt, BuiltFrom
<1> QED
  BY <1>1, <1>2, NextBuilt, NextSeen, TypeCorrect, PTL DEF Spec, ChangesAreSeen

----------------------------------------------------------------------------
(* QuietStaysQuiet *)

\* What Quiet says of the sync and of the poll.
QuietRun ==
  /\ rpc \in {"fetching", "got"} => run.listed = sources
  /\ rpc = "got" => \A u \in run.url : run.body = feed[u]
  /\ rpc \in {"publishing", "saving", "saved"} => run.fp = baseline
QuietPoll ==
  /\ loaded /\ ppc # "changed"
  /\ ppc \in {"asking", "waiting", "answered", "adopting"} => poll.listed = sources
  /\ ppc = "answered" => \A u \in poll.url : poll.got \in {NoBody, feed[u]}
QuietProbes ==
  /\ sources # {}
  /\ \A u \in Url : baseline[u] = IF u \in sources THEN feed[u] ELSE NoBody
  /\ \A u \in sources : probe[u] = feed[u]

LEMMA QuietParts ==
  /\ Quiet <=> QuietProbes /\ QuietRun /\ QuietPoll
  /\ Quiet' <=> QuietProbes' /\ QuietRun' /\ QuietPoll'
BY DEF Quiet, QuietProbes, QuietRun, QuietPoll

\* What a sync would persist in a quiet world is the baseline.
LEMMA QuietFingerprints ==
  ASSUME TypeOK, QuietProbes, run.listed = sources
  PROVE  [u \in Url |-> FingerprintOf(u)] = baseline
<1>1. \A u \in Url : FingerprintOf(u) = baseline[u]
  <2> TAKE u \in Url
  <2>1. CASE u \in sources
    <3>1. feed[u] # NoBody
      BY BodyAssumption DEF TypeOK
    <3> QED
      BY <2>1, <3>1 DEF QuietProbes, FingerprintOf
  <2>2. CASE u \notin sources
    BY <2>2 DEF QuietProbes, FingerprintOf
  <2> QED
    BY <2>1, <2>2
<1> QED
  BY <1>1 DEF TypeOK, Fingerprints

LEMMA RunStaysQuiet ==
  ASSUME TypeOK, BuiltInv, Quiet, RunNext, UNCHANGED world
  PROVE  Quiet'
<1> USE QuietParts DEF QuietProbes, world
<1>1. CASE LoadPrevious \/ ListRunSources \/ Fetch \/ FetchFails
  <2>1. UNCHANGED <<probe, baseline, polling>>
    BY <1>1 DEF LoadPrevious, ListRunSources, Fetch, FetchFails, RunStep
  <2>2. QuietRun'
    <3>1. CASE LoadPrevious
      BY <3>1 DEF LoadPrevious, RunStep, QuietRun
    <3>2. CASE ListRunSources
      BY <3>2 DEF ListRunSources, RunStep, QuietRun, TypeOK, RunLocals
    <3>3. CASE Fetch
      <4>1. PICK u \in run.todo :
              run' = [run EXCEPT !.todo = @ \ {u}, !.url = {u}, !.body = feed[u]]
        BY <3>3 DEF Fetch
      <4>2. run'.url = {u} /\ run'.body = feed[u] /\ run'.listed = run.listed
        BY <4>1 DEF TypeOK, RunLocals
      <4> QED
        BY <3>3, <4>2 DEF Fetch, RunStep, QuietRun
    <3>4. CASE FetchFails
      BY <3>4 DEF FetchFails, RunStep, QuietRun, TypeOK, RunLocals
    <3> QED
      BY <1>1, <3>1, <3>2, <3>3, <3>4
  <2> QED
    BY <2>1, <2>2 DEF QuietPoll, polling
<1>2. CASE Ingest
  <2> PICK u \in run.url :
        /\ probe' = [probe EXCEPT ![u] = run.body]
        /\ run' = IF run.body \in Broken
                  THEN [run EXCEPT !.url = {}, !.body = NoBody, !.missed = @ \cup {u}]
                  ELSE [run EXCEPT !.url = {}, !.body = NoBody, !.missed = @ \ {u},
                                   !.built = MergeItems(run.built, u, run.body)]
    BY <1>2 DEF Ingest
  <2>1. rpc = "got" /\ rpc' = "fetching" /\ UNCHANGED <<baseline, polling>>
    BY <1>2 DEF Ingest, RunStep
  <2>2. run.body = feed[u] /\ run'.listed = run.listed
    BY <2>1 DEF QuietRun, TypeOK, RunLocals
  <2>3. \A v \in sources : probe'[v] = feed[v]
    BY <2>2 DEF TypeOK, Fingerprints
  <2> QED
    BY <2>1, <2>2, <2>3 DEF QuietRun, QuietPoll, polling
<1>3. CASE ForPersist
  <2>1. run' = [run EXCEPT !.fp = baseline] /\ rpc' = "publishing"
        /\ UNCHANGED <<probe, baseline, polling>>
    BY <1>3, QuietFingerprints DEF ForPersist, RunStep, QuietRun
  <2>2. run'.fp = baseline
    BY <2>1 DEF TypeOK, RunLocals
  <2> QED
    BY <2>1, <2>2 DEF QuietRun, QuietPoll, polling
<1>4. CASE Publish \/ Save
  BY <1>4 DEF Publish, Save, RunStep, QuietRun, QuietPoll, polling
<1>5. CASE RunListFails \/ SaveFails \/ Refresh
  <2>1. baseline' = baseline
    BY <1>5 DEF RunListFails, SaveFails, Refresh, BuiltInv, PublishedRun, QuietRun
  <2>2. rpc' = "idle" /\ UNCHANGED <<probe, loaded, poll>> /\ ppc' \in {ppc, "idle"}
    BY <1>5 DEF RunListFails, SaveFails, Refresh, EndRun
  <2> QED
    BY <2>1, <2>2 DEF QuietRun, QuietPoll
<1> QED
  BY <1>1, <1>2, <1>3, <1>4, <1>5 DEF RunNext

\* A poll marks what a sync misses and leaves the rest of it alone.
LEMMA MissKeeps ==
  ASSUME TypeOK, NEW us \in SUBSET Url
  PROVE  /\ Miss(us).listed = run.listed /\ Miss(us).fp = run.fp
         /\ Miss(us).url = run.url /\ Miss(us).body = run.body
BY DEF TypeOK, Miss, RunLocals

LEMMA PollStaysQuiet ==
  ASSUME TypeOK, SeenInv, Quiet, PollNext, UNCHANGED world
  PROVE  Quiet' /\ ~PollFires
<1> USE QuietParts DEF QuietProbes, world
<1>0. ~PollFires /\ ~PollYields
  BY DEF PollFires, PollYields, PollStep, QuietPoll
<1>1. CASE PollStarts \/ PollLoads
  BY <1>1, <1>0 DEF PollStarts, PollLoads, PollStep, syncing, QuietRun, QuietPoll
<1>2. CASE PollLists \/ PollAskFails
  <2>1. \/ poll' = NoPoll /\ ppc' = "idle"
        \/ poll'.listed = sources /\ ppc' = "asking"
    BY <1>2 DEF PollLists, PollAskFails, PollStep, TypeOK, PollLocals
  <2> QED
    BY <1>2, <1>0, <2>1 DEF PollLists, PollAskFails, PollStep, syncing, QuietRun, QuietPoll
<1>3. CASE PollAsks
  <2>1. poll'.listed = poll.listed
    BY <1>3 DEF PollAsks, TypeOK, PollLocals
  <2> QED
    BY <1>3, <1>0, <2>1 DEF PollAsks, PollStep, syncing, QuietRun, QuietPoll
<1>4. CASE PollAnswered
  <2> PICK u \in poll.url :
        poll' = [poll EXCEPT !.saw[u] = feed[u],
                             !.got = IF poll.asked = feed[u] THEN NoBody ELSE feed[u]]
    BY <1>4 DEF PollAnswered
  <2>1. /\ poll'.listed = poll.listed /\ poll'.url = poll.url
        /\ poll'.got = IF poll.asked = feed[u] THEN NoBody ELSE feed[u]
    BY DEF TypeOK, PollLocals
  <2>2. \A v \in poll'.url : poll'.got \in {NoBody, feed[v]}
    BY <2>1 DEF SeenInv, OneUrl
  <2> QED
    BY <1>4, <1>0, <2>1, <2>2 DEF PollAnswered, PollStep, syncing, QuietRun, QuietPoll
<1>5. CASE PollStores
  <2> PICK u \in poll.url :
        /\ probe' = [probe EXCEPT ![u] = CASE poll.got # NoBody -> poll.got
                                           [] poll.got = NoBody /\ @ # NoBody -> @
                                           [] OTHER -> baseline[u]]
        /\ run' = Miss({u})
        /\ poll' = [poll EXCEPT !.url = {}, !.asked = NoBody, !.got = NoBody]
    BY <1>5 DEF PollStores
  <2>1. u \in Url /\ ppc = "answered" /\ ppc' = "asking" /\ UNCHANGED <<baseline, loaded, rpc>>
    BY <1>5 DEF PollStores, PollStep, TypeOK, PollLocals
  <2>2. poll'.listed = poll.listed
    BY DEF TypeOK, PollLocals
  <2>3. poll.got \in {NoBody, feed[u]} /\ \A v \in sources : feed[v] # NoBody
    BY <2>1, BodyAssumption DEF QuietPoll, TypeOK
  <2>4. \A v \in sources : probe'[v] = feed[v]
    BY <2>3 DEF TypeOK, Fingerprints
  <2>5. QuietRun'
    BY <2>1, MissKeeps DEF QuietRun
  <2> QED
    BY <1>0, <2>1, <2>2, <2>4, <2>5 DEF QuietPoll
<1>6. CASE PollDecides
  <2>1. ppc = "asking" /\ poll.listed = sources /\ UNCHANGED <<baseline, loaded, rpc>>
    BY <1>6 DEF PollDecides, PollStep, QuietPoll
  <2>2. \A u \in sources : feed[u] # NoBody /\ u \in Url
    BY BodyAssumption DEF TypeOK
  <2>3. Known(baseline) # {} /\ ~Differs
    BY <2>1, <2>2 DEF Known, Differs, ListedDiffers
  <2>4. /\ poll' = NoPoll /\ ppc' = "idle"
        /\ probe' = [u \in Url |-> IF u \in poll.listed THEN probe[u] ELSE NoBody]
        /\ run' = Miss(Url \ poll.listed)
    BY <1>6, <2>3 DEF PollDecides, PollStep
  <2>5. QuietRun'
    BY <2>1, <2>4, MissKeeps DEF QuietRun
  <2> QED
    BY <1>0, <2>1, <2>2, <2>4, <2>5 DEF QuietPoll
<1>7. CASE PollAdopts
  <2>1. poll.listed = sources /\ ppc' = "idle" /\ UNCHANGED <<probe, loaded, rpc, run>>
    BY <1>7 DEF PollAdopts, PollStep, syncing, QuietPoll
  <2>2. baseline' = baseline
    <3>1. CASE baseline' = [u \in Url |-> IF u \in poll.listed THEN probe[u] ELSE NoBody]
      BY <2>1, <3>1 DEF TypeOK, Fingerprints
    <3> QED
      BY <1>7, <3>1 DEF PollAdopts
  <2> QED
    BY <1>0, <2>1, <2>2 DEF QuietRun, QuietPoll
<1> QED
  BY <1>0, <1>1, <1>2, <1>3, <1>4, <1>5, <1>6, <1>7 DEF PollNext

LEMMA StaysQuiet ==
  ASSUME TypeOK, BuiltInv, SeenInv, Quiet, [Next]_vars, UNCHANGED world, ~Restart
  PROVE  Quiet' /\ ~PollFires
<1> USE QuietParts DEF world
<1>1. CASE FullTick \/ Rebuild
  <2>1. UNCHANGED <<probe, baseline, loaded, run>> /\ rpc' = "locked"
        /\ (ppc' = ppc \/ ppc' = "syncing")
    BY <1>1 DEF FullTick, Rebuild, Lock
  <2>2. poll'.listed = poll.listed /\ poll'.url = poll.url /\ poll'.got = poll.got
    BY <1>1 DEF FullTick, Rebuild, TypeOK, PollLocals
  <2> QED
    BY <2>1, <2>2 DEF QuietProbes, QuietRun, QuietPoll, PollFires
<1>2. CASE RunNext
  <2>1. ppc # "changed"
    BY DEF QuietPoll
  <2> QED
    BY <1>2, <2>1, RunStaysQuiet DEF PollFires
<1>3. CASE PollNext
  BY <1>3, PollStaysQuiet
<1>4. CASE PersistSnapshot \/ FeedChanges \/ SourcesChange \/ UNCHANGED vars
  <2>1. UNCHANGED <<probe, baseline, loaded, rpc, run, ppc, poll>>
    BY <1>4 DEF PersistSnapshot, FeedChanges, SourcesChange, vars, syncing, polling
  <2> QED
    BY <2>1 DEF QuietProbes, QuietRun, QuietPoll, PollFires
<1> QED
  BY <1>1, <1>2, <1>3, <1>4 DEF Next

\* Once probes and baseline are those of a world that stands still, no poll asks
\* for a sync until feeds or sources change or the process dies, whatever fails.
THEOREM QuietStays == Spec => QuietStaysQuiet
<1>1. TypeOK /\ BuiltInv /\ SeenInv /\ [Next]_vars =>
        [Quiet /\ UNCHANGED world /\ ~Restart => Quiet' /\ ~PollFires]_vars
  BY StaysQuiet
<1> QED
  BY <1>1, InitBuilt, NextBuilt, InitSeen, NextSeen, TypeCorrect, PTL DEF Spec, QuietStaysQuiet

=============================================================================
