----------------------------- MODULE SyncService -----------------------------
(***************************************************************************)
(* What GoAnimes promises of its syncs, whoever asks for them: every       *)
(* request that was accepted gets a sync of its own that starts after it,  *)
(* one at a time; what a sync publishes has everything that is stored,     *)
(* unless the implementation names an excuse; only a sync, or a page after *)
(* a failed save, changes what is stored, and to what is served; and a     *)
(* death loses only what was not stored.                                   *)
(***************************************************************************)
CONSTANTS
  Job,    \* who may ask for a sync
  NoJob,  \* nobody
  Entry,  \* releases
  LoadFaults \* whether the start-up may fail to read the database

VARIABLES
  asked,    \* the jobs whose request waits
  serving,  \* the job whose sync runs
  stored,   \* the releases in the database
  served,   \* the releases in memory
  excused   \* input: something licenses a loss of releases

vars == <<asked, serving, stored, served>>

Init ==
  /\ asked = {}
  /\ serving = NoJob
  /\ stored = {}
  /\ served = {}

Ask(j) ==
  /\ j \notin asked
  /\ serving # j
  /\ asked' = asked \cup {j}
  /\ UNCHANGED <<serving, stored, served>>

Begin(j) ==
  /\ serving = NoJob
  /\ j \in asked
  /\ serving' = j
  /\ asked' = asked \ {j}
  /\ UNCHANGED <<stored, served>>

Publish ==
  /\ serving # NoJob
  /\ served' \in SUBSET Entry
  /\ excused \/ stored \subseteq served'
  /\ UNCHANGED <<asked, serving, stored>>

Save ==
  /\ serving # NoJob
  /\ stored' = served
  /\ UNCHANGED <<asked, serving, served>>

\* A sync ends with its save, or some time after it or without it.
Finish ==
  /\ serving # NoJob
  /\ serving' = NoJob
  /\ stored' \in {stored, served}
  /\ UNCHANGED <<asked, served>>

\* A page stores what is served, which differs from what is stored only after
\* a save of a sync has failed.
PageSaves ==
  /\ excused
  /\ stored' = served
  /\ UNCHANGED <<asked, serving, served>>

Die ==
  /\ asked' = {}
  /\ serving' = NoJob
  /\ \/ served' = stored
     \/ LoadFaults /\ served' = {}
  /\ UNCHANGED stored

Next ==
  \/ \E j \in Job : Ask(j) \/ Begin(j)
  \/ Publish \/ Save \/ Finish \/ PageSaves \/ Die

Spec == Init /\ [][Next]_vars

\* A sync ends, and a request is not passed over for ever.
Fairness == WF_vars(Finish) /\ \A j \in Job : SF_vars(Begin(j))

==============================================================================
