----------------------------- MODULE Enrichment -----------------------------
(***************************************************************************)
(* The metadata passes of a sync (rss_sync_enrich.go), one sync after the  *)
(* other.  A sync works on a copy of the metadata rows (anilistCache),     *)
(* merged from those of the database and those of memory.  A pass calls    *)
(* one service per item: an item is a series, or an id that several series *)
(* share.  At the end the rows of series that share MyAnimeList's id are   *)
(* merged, memory gets the result, and then the database.  Services fail   *)
(* or answer in part at any call, loads and saves fail, the sync's time    *)
(* limit passes at any moment, and the process may die.                    *)
(*                                                                         *)
(* A row is what the passes look at: which texts are filled, the ids of    *)
(* other catalogs, which episodes have a title and a translated title,     *)
(* whether there are thumbnails, when AniDB answered and when the next     *)
(* episode airs.  Every series has items in every sync: those that a       *)
(* failing load of items drops, and pages that fill rows while a sync      *)
(* runs, are in CatalogSync.                                               *)
(***************************************************************************)
EXTENDS Naturals, FiniteSetsExt

CONSTANTS
  Series,        \* ids of the catalog's series, ordered
  Episode,       \* episode numbers
  Id,            \* ids in other catalogs, ordered
  None,          \* no id, no item
  Needed,        \* texts without which AniList is asked again
  Wanted,        \* texts without which Jikan and Kitsu are asked
  Clients,       \* the services that are configured
  AniListKnows,  \* what a service answers when asked for a series
  JikanKnows,
  KitsuKnows,
  KitsuList,     \* the episodes a service lists under an id
  MalList,
  AniDBList,
  TvdbList,
  TvdbOf,        \* TheTVDB's id of an IMDb id, or None
  Day,           \* the clock's units in 24 hours
  MaxTime,       \* bound: where the clock stops
  MaxFaults      \* bound: calls, loads, saves, time limits and processes that fail

IdKind == {"mal", "kitsu", "imdb", "tvdb", "aid"}
Service == {"anilist", "jikan", "kitsu", "tvdb", "anidb", "translator"}
Details == [text : SUBSET Wanted, mal : Id \cup {None}, aid : Id \cup {None},
            imdb : Id \cup {None}, kitsu : Id \cup {None},
            titles : SUBSET Episode, thumbs : BOOLEAN, airing : BOOLEAN]
Episodes == [titles : SUBSET Episode, thumbs : BOOLEAN]

ASSUME SeriesAssumption ==
  /\ Series \subseteq Nat /\ IsFiniteSet(Series) /\ Series # {}
  /\ Id \subseteq Nat /\ None \notin Nat
ASSUME TextAssumption == Needed \subseteq Wanted
ASSUME ClientAssumption == Clients \subseteq Service
ASSUME TimeAssumption == Day \in Nat \ {0} /\ MaxTime \in Nat \ {0} /\ MaxFaults \in Nat
ASSUME SearchAssumption ==
  /\ AniListKnows \in [Series -> SUBSET Details]
  /\ JikanKnows \in [Series -> SUBSET Details]
  /\ KitsuKnows \in [Series -> SUBSET Details]
ASSUME ListAssumption ==
  /\ KitsuList \in [Id -> Episodes] /\ MalList \in [Id -> SUBSET Episode]
  /\ AniDBList \in [Id -> SUBSET Episode] /\ TvdbList \in [Id -> Episodes]
  /\ TvdbOf \in [Id -> Id \cup {None}]

-----------------------------------------------------------------------------
(* Rows *)

Row ==
  {r \in [current : BOOLEAN, text : SUBSET Wanted, ids : [IdKind -> Id \cup {None}],
          listed : BOOLEAN, titles : SUBSET Episode, translated : SUBSET Episode,
          thumbs : BOOLEAN, stamp : 0..MaxTime,
          airs : (0..MaxTime + 1) \cup {None}] :
     r.translated \subseteq r.titles}

\* A row nobody has filled.  "current" says that AniListSearchVer is the
\* program's, "listed" that the map of titles exists (perhaps empty).  "airs" is
\* AniList's word on the next episode: None if it never gave one, 0 if there is
\* no such episode.
Blank == [current |-> FALSE, text |-> {}, ids |-> [k \in IdKind |-> None],
          listed |-> FALSE, titles |-> {}, translated |-> {},
          thumbs |-> FALSE, stamp |-> 0, airs |-> None]

\* The row that replaces the old one when AniList answers.
FromAniList(d, time) ==
  [Blank EXCEPT !.current = TRUE, !.listed = TRUE, !.text = d.text,
                !.airs = IF d.airing THEN time + 1 ELSE 0,
                !.ids = [@ EXCEPT !["mal"] = d.mal, !["aid"] = d.aid],
                !.titles = d.titles, !.thumbs = d.thumbs]

FromJikan(d) ==
  [Blank EXCEPT !.current = TRUE, !.listed = d.titles # {}, !.text = d.text,
                !.ids = [@ EXCEPT !["mal"] = d.mal, !["imdb"] = d.imdb],
                !.titles = d.titles]

FromKitsu(d) ==
  [Blank EXCEPT !.current = TRUE, !.text = d.text,
                !.ids["kitsu"] = d.kitsu]

\* Titles and thumbnails, as the passes over episode lists add them.
FromList(titles, thumbs) ==
  [Blank EXCEPT !.listed = titles # {}, !.titles = titles, !.thumbs = thumbs]

Later(a, b) == IF a > b THEN a ELSE b

\* What is filled stays, what is empty is taken from "add".  A title comes as it
\* is there, translated or not; AniList's word on the next airing wins.
MergeAniListEnrichment(old, add) ==
  [current |-> old.current \/ add.current,
   text |-> old.text \cup add.text,
   ids |-> [k \in IdKind |-> IF old.ids[k] = None THEN add.ids[k] ELSE old.ids[k]],
   listed |-> old.listed \/ add.listed,
   titles |-> old.titles \cup add.titles,
   translated |-> old.translated \cup (add.translated \ old.titles),
   thumbs |-> old.thumbs \/ add.thumbs,
   stamp |-> Later(old.stamp, add.stamp),
   airs |-> IF add.airs = None THEN old.airs ELSE add.airs]

\* A row as it is read back: the map of titles always exists.
AsLoaded(en) == IF en = Blank THEN Blank ELSE [en EXCEPT !.listed = TRUE]

AniListNeedsRefetch(en, time) ==
  \/ ~en.current
  \/ ~(Needed \subseteq en.text)
  \/ ~en.listed
  \/ en.airs \notin {None, 0} /\ time >= en.airs

EnrichmentCouldUseJikan(en) == ~(Wanted \subseteq en.text) \/ en.titles = {}

First(S, x) == x \in S /\ \A y \in S : x <= y

-----------------------------------------------------------------------------
(* State *)

VARIABLES
  now,       \* the clock
  db,        \* the rows in the database
  mem,       \* the rows in memory
  cache,     \* the running sync's copy
  pass,      \* the pass it is in, then "saving"; "idle" between syncs
  todo,      \* the items the pass has not reached
  at,        \* the item it works on
  call,      \* the request under way for it
  since,     \* when the AniDB pass began
  late,      \* the sync's time limit has passed
  faults,    \* failures so far, of those MaxFaults counts
  \* what happened, for the properties
  unread,    \* the sync could not read the rows of the database
  refreshed, \* series whose row an answer of AniList replaced in this sync
  missed,    \* a list of Kitsu or MyAnimeList did not come, or not in full
  unsaved,   \* aids AniDB answered since the last save
  rested     \* when AniDB last answered for an aid; 0 if never, and from when
             \* that answer has been lost

story == <<unread, refreshed, missed, unsaved, rested>>
vars == <<now, db, mem, cache, pass, todo, at, call, since, late, faults, story>>

\* The passes, in the order of RSSSyncService.Run.
After == [anilist |-> "jikan", jikan |-> "kitsu", kitsu |-> "ids",
          ids |-> "kitsuTitles", kitsuTitles |-> "malTitles", malTitles |-> "anidb",
          anidb |-> "tvdb", tvdb |-> "translate"]
Pass == DOMAIN After \cup {"translate"}

\* The services a pass needs one of.
UsedBy(p) ==
  CASE p = "anilist" -> {"anilist"}
    [] p \in {"jikan", "malTitles"} -> {"jikan"}
    [] p \in {"kitsu", "ids", "kitsuTitles"} -> {"kitsu"}
    [] p = "anidb" -> {"anidb"}
    [] p = "tvdb" -> {"tvdb"}
    [] p = "translate" -> {"translator"}

\* The kind of id whose groups of series a pass goes through.
KindOf == [kitsuTitles |-> "kitsu", malTitles |-> "mal", anidb |-> "aid",
           tvdb |-> "imdb"]

\* The series of a sync's rows that share an id.
Sharing(kind, x) == {s \in Series : cache[s].ids[kind] = x}

ItemsOf(p) ==
  IF p \in DOMAIN KindOf THEN {cache[s].ids[KindOf[p]] : s \in Series} \ {None}
  ELSE Series

\* Whether the pass does something for the item when it reaches it.
Due(x) ==
  /\ UsedBy(pass) \cap Clients # {}
  /\ pass = "anilist" => AniListNeedsRefetch(cache[x], now)
  /\ pass \in {"jikan", "kitsu"} => EnrichmentCouldUseJikan(cache[x])
  /\ pass = "ids" => cache[x].ids["kitsu"] = None
  /\ pass = "anidb" => \E s \in Sharing("aid", x) :
                         \/ cache[s].stamp = 0
                         \/ since >= cache[s].stamp + Day
  /\ pass = "translate" => cache[x].titles \ cache[x].translated # {}

-----------------------------------------------------------------------------
(* Initial states and shared parts of the steps *)

TypeOK ==
  /\ now \in 1..MaxTime
  /\ db \in [Series -> Row] /\ mem \in [Series -> Row] /\ cache \in [Series -> Row]
  /\ pass \in Pass \cup {"idle", "saving"}
  /\ todo \subseteq Series \cup Id
  /\ at \in Series \cup Id \cup {None}
  /\ call \in {"none", "anilist", "jikan", "kitsu", "search", "list", "id",
               "text"}
  /\ since \in 0..MaxTime /\ faults \in 0..MaxFaults
  /\ late \in BOOLEAN /\ missed \in BOOLEAN /\ unread \in BOOLEAN
  /\ refreshed \subseteq Series /\ unsaved \subseteq Id
  /\ rested \in [Id -> 0..MaxTime]

NoRows == [s \in Series |-> Blank]

Init ==
  /\ now = 1
  /\ db = NoRows /\ mem = NoRows /\ cache = NoRows
  /\ pass = "idle" /\ todo = {} /\ at = None /\ call = "none"
  /\ since = 0 /\ late = FALSE /\ faults = 0
  /\ unread = FALSE /\ refreshed = {} /\ missed = FALSE
  /\ unsaved = {} /\ rested = [a \in Id |-> 0]

\* The pass is done with the item.
Done == at' = None /\ call' = "none"

\* Rows of several series filled from one answer.
Fill(group, add) ==
  cache' = [s \in Series |-> IF s \in group
                             THEN MergeAniListEnrichment(cache[s], add)
                             ELSE cache[s]]

Asking(p, c) == pass = p /\ at # None /\ call = c

Fault == faults < MaxFaults /\ faults' = faults + 1

\* The call fails: the service has nothing to answer, or it is a fault.
Answers ==
  CASE call = "anilist" -> AniListKnows[at]
    [] call = "jikan" -> JikanKnows[at]
    [] call = "kitsu" -> KitsuKnows[at]
    [] call = "search" -> {d \in KitsuKnows[at] : d.kitsu # None}
    [] call \in {"list", "id", "text"} -> {at}
NoAnswer == IF Answers = {} THEN UNCHANGED faults ELSE Fault

\* A stored row has an aid that its series lost since, in memory only.
Reverts(a) == \E s \in Series : db[s].ids["aid"] = a /\ mem[s].ids["aid"] # a

-----------------------------------------------------------------------------
(* The merge of series that share MyAnimeList's id *)

Twins(s) ==
  IF cache[s].ids["mal"] = None THEN {s} ELSE Sharing("mal", cache[s].ids["mal"])

\* Twins go to one of them: that with the most items, whichever it is.
Homes ==
  {home \in [Series -> Series] :
     \A s \in Series : home[s] \in Twins(s) /\ \A t \in Twins(s) : home[t] = home[s]}

\* The rows of several series merged in the order of their ids.
MergedRow(group) ==
  LET With(k) == {s \in group : cache[s].ids[k] # None}
      Titled(e) == {s \in group : e \in cache[s].titles}
      Aired == {s \in group : cache[s].airs # None}
  IN  [current |-> \E s \in group : cache[s].current,
       text |-> UNION {cache[s].text : s \in group},
       ids |-> [k \in IdKind |->
                  IF With(k) = {} THEN None ELSE cache[Min(With(k))].ids[k]],
       listed |-> \E s \in group : cache[s].listed,
       titles |-> {e \in Episode : Titled(e) # {}},
       translated |-> {e \in Episode : /\ Titled(e) # {}
                                       /\ e \in cache[Min(Titled(e))].translated},
       thumbs |-> \E s \in group : cache[s].thumbs,
       stamp |-> Max({cache[s].stamp : s \in group}),
       airs |-> IF Aired = {} THEN None ELSE cache[Max(Aired)].airs]

OneRowOfTwins(home) ==
  [s \in Series |-> IF home[s] = s THEN cache[s] ELSE Blank]
\* The other twins' rows are deleted.
Merged(home) ==
  [s \in Series |-> IF home[s] = s THEN MergedRow(Twins(s)) ELSE Blank]

-----------------------------------------------------------------------------
(* A sync and its passes *)

\* What is filled in the database stays, and memory fills the rest.  When the
\* rows cannot be read, the error is dropped and memory's are all there is.
BeginFromStored ==
  /\ pass = "idle"
  /\ pass' = "anilist" /\ todo' = Series
  /\ cache' = db /\ unread' = FALSE
  /\ UNCHANGED <<now, db, mem, at, call, since, late, faults, refreshed,
                 missed, unsaved, rested>>
Begin ==
  /\ pass = "idle"
  /\ pass' = "anilist" /\ todo' = Series
  /\ \/ /\ cache' = [s \in Series |-> MergeAniListEnrichment(db[s], mem[s])]
        /\ rested' = [a \in Id |-> IF a \in unsaved /\ Reverts(a) THEN 0 ELSE rested[a]]
        /\ unread' = FALSE /\ UNCHANGED faults
     \/ /\ Fault
        /\ cache' = mem /\ unread' = TRUE /\ UNCHANGED rested
  /\ UNCHANGED <<now, db, mem, at, call, since, late, refreshed, missed, unsaved>>

\* The request an item begins with.
FirstCall(x) ==
  CASE pass \in {"anilist", "jikan", "kitsu"} -> pass
    [] pass = "ids" -> "search"
    [] pass \in {"kitsuTitles", "malTitles", "anidb"} -> "list"
    [] pass = "tvdb" ->
         IF \A s \in Series : First(Sharing("imdb", x), s) => cache[s].ids["tvdb"] = None
         THEN "id" ELSE "list"
    [] pass = "translate" -> "text"

\* The next item that is due; those before it are passed over.
Ask ==
  /\ pass \in Pass /\ at = None /\ ~late
  /\ \E x \in todo :
       /\ First({y \in todo : Due(y)}, x)
       /\ at' = x
       /\ todo' = {y \in todo : y > x}
       /\ call' = FirstCall(x)
  /\ UNCHANGED <<now, db, mem, cache, pass, since, late, faults, story>>

NextPass ==
  /\ pass \in DOMAIN After /\ at = None /\ ~late
  /\ \A y \in todo : ~Due(y)
  /\ pass' = After[pass] /\ todo' = ItemsOf(After[pass])
  /\ since' = IF After[pass] = "anidb" THEN now ELSE 0
  /\ UNCHANGED <<now, db, mem, cache, at, call, late, faults, story>>

\* The end of the last pass, or of the sync's time: the passes that are left
\* find it over before their first item.  Memory gets the rows.
Publish ==
  /\ pass \in Pass /\ at = None
  /\ \/ late
     \/ pass = "translate" /\ \A y \in todo : ~Due(y)
  /\ \E home \in Homes : mem' = Merged(home)
  /\ pass' = "saving" /\ cache' = NoRows /\ todo' = {} /\ since' = 0
  /\ unread' = FALSE /\ refreshed' = {} /\ missed' = FALSE
  /\ UNCHANGED <<now, db, at, call, late, faults, unsaved, rested>>

\* The database gets them in one transaction, under the sync's time limit.
Save ==
  /\ pass = "saving" /\ ~late
  /\ db' = [s \in Series |-> AsLoaded(mem[s])]
  /\ pass' = "idle" /\ unsaved' = {}
  /\ UNCHANGED <<now, mem, cache, todo, at, call, since, late, faults, unread, refreshed,
                 missed, rested>>

\* It was late, or the database failed.
SaveFails ==
  /\ pass = "saving"
  /\ IF late THEN UNCHANGED faults ELSE Fault
  /\ pass' = "idle" /\ late' = FALSE
  /\ UNCHANGED <<now, db, mem, cache, todo, at, call, since, story>>

-----------------------------------------------------------------------------
(* Searches by title *)

\* The answer is the new row, whatever the old one held.
AniListAnswers ==
  /\ Asking("anilist", "anilist")
  /\ \E d \in AniListKnows[at] :
       /\ cache' = [cache EXCEPT ![at] = FromAniList(d, now)]
       /\ rested' = IF d.aid = None THEN rested ELSE [rested EXCEPT ![d.aid] = 0]
  /\ refreshed' = refreshed \cup {at}
  /\ Done
  /\ UNCHANGED <<now, db, mem, pass, todo, since, late, faults, unread, missed, unsaved>>

\* Jikan is asked instead, or Kitsu; both refuse when the time is up.
AniListFails ==
  /\ Asking("anilist", "anilist")
  /\ NoAnswer
  /\ LET next == IF late \/ ~EnrichmentCouldUseJikan(cache[at]) THEN "none"
                 ELSE IF "jikan" \in Clients THEN "jikan"
                 ELSE IF "kitsu" \in Clients THEN "kitsu"
                 ELSE "none"
     IN  call' = next /\ at' = IF next = "none" THEN None ELSE at
  /\ UNCHANGED <<now, db, mem, cache, pass, todo, since, late, story>>

JikanAnswers ==
  /\ at # None /\ call = "jikan"
  /\ \E d \in JikanKnows[at] : Fill({at}, FromJikan(d))
  /\ Done
  /\ UNCHANGED <<now, db, mem, pass, todo, since, late, faults, story>>

JikanFails ==
  /\ at # None /\ call = "jikan"
  /\ NoAnswer
  /\ LET again == pass = "anilist" /\ ~late /\ "kitsu" \in Clients
     IN  /\ call' = IF again THEN "kitsu" ELSE "none"
         /\ at' = IF again THEN at ELSE None
  /\ UNCHANGED <<now, db, mem, cache, pass, todo, since, late, story>>

KitsuAnswers ==
  /\ at # None /\ call = "kitsu"
  /\ \E d \in KitsuKnows[at] : Fill({at}, FromKitsu(d))
  /\ Done
  /\ UNCHANGED <<now, db, mem, pass, todo, since, late, faults, story>>

IdAnswers ==
  /\ Asking("ids", "search")
  /\ \E d \in KitsuKnows[at] :
       /\ d.kitsu # None
       /\ cache' = [cache EXCEPT ![at].ids["kitsu"] = d.kitsu]
  /\ Done
  /\ UNCHANGED <<now, db, mem, pass, todo, since, late, faults, story>>

\* Kitsu, an episode list of Kitsu, Jikan or AniDB, or TheTVDB's id of an IMDb
\* id: the pass goes on without it.
CallFails ==
  /\ at # None
  /\ NoAnswer
  /\ \/ call \in {"kitsu", "search", "id"}
     \/ call = "list" /\ pass # "tvdb"
  /\ missed' = (missed \/ pass \in {"kitsuTitles", "malTitles"})
  /\ Done
  /\ UNCHANGED <<now, db, mem, cache, pass, todo, since, late, unread, refreshed,
                 unsaved, rested>>

-----------------------------------------------------------------------------
(* Episode lists: one request per id, for all series that share it *)

ListForFirst ==
  /\ Asking("kitsuTitles", "list")
  /\ LET got == KitsuList[at]
     IN  Fill({s \in Series : First(Sharing("kitsu", at), s)},
              [FromList(got.titles, got.thumbs)
                 EXCEPT !.listed = got.titles # {} \/ got.thumbs])
  /\ Done
  /\ UNCHANGED <<now, db, mem, pass, todo, since, late, faults, story>>
KitsuLists ==
  /\ Asking("kitsuTitles", "list")
  /\ LET got == KitsuList[at]
     IN  Fill(Sharing("kitsu", at), [FromList(got.titles, got.thumbs)
                                       EXCEPT !.listed = got.titles # {} \/ got.thumbs])
  /\ Done
  /\ UNCHANGED <<now, db, mem, pass, todo, since, late, faults, story>>

\* A page after the first that fails ends the list without an error.
MalAnswers(mal) == SUBSET MalList[mal]

MalLists ==
  /\ Asking("malTitles", "list")
  /\ \E got \in MalAnswers(at) :
       /\ Fill(Sharing("mal", at), FromList(got, FALSE))
       /\ missed' = (missed \/ got # MalList[at])
  /\ Done
  /\ UNCHANGED <<now, db, mem, pass, todo, since, late, faults, unread, refreshed,
                 unsaved, rested>>

\* The titles of regular episodes, if there are any.
AniDBAnswers(aid) == {{}, AniDBList[aid]}

StampExpiry ==
  /\ Asking("anidb", "list")
  /\ \E got \in AniDBAnswers(at) :
       Fill(Sharing("aid", at), [FromList(got, FALSE) EXCEPT !.stamp = since + Day])
  /\ rested' = [rested EXCEPT ![at] = since] /\ unsaved' = unsaved \cup {at}
  /\ Done
  /\ UNCHANGED <<now, db, mem, pass, todo, since, late, faults, unread, refreshed, missed>>
\* The rows are stamped even when the answer holds no title.
AniDBLists ==
  /\ Asking("anidb", "list")
  /\ \E got \in AniDBAnswers(at) :
       Fill(Sharing("aid", at), [FromList(got, FALSE) EXCEPT !.stamp = since])
  /\ rested' = [rested EXCEPT ![at] = since] /\ unsaved' = unsaved \cup {at}
  /\ Done
  /\ UNCHANGED <<now, db, mem, pass, todo, since, late, faults, unread, refreshed, missed>>

\* The list of an IMDb id is not asked for when its first series had TheTVDB's
\* id, titles and thumbnails before.
NoListNeeded(x) ==
  \E s \in Series : /\ First(Sharing("imdb", x), s)
                   /\ cache[s].ids["tvdb"] # None
                   /\ cache[s].titles # {} /\ cache[s].thumbs

TvdbIdAnswers ==
  /\ Asking("tvdb", "id")
  /\ IF TvdbOf[at] = None THEN Done ELSE call' = "list" /\ at' = at
  /\ UNCHANGED <<now, db, mem, cache, pass, todo, since, late, faults, story>>

\* When a page fails, the pages before it are used.
TvdbAnswers(tvdb) ==
  [titles : SUBSET TvdbList[tvdb].titles, thumbs : {FALSE, TvdbList[tvdb].thumbs}]

TvdbLists ==
  /\ Asking("tvdb", "list")
  /\ \E rep \in Series, tvdb \in Id :
       /\ First(Sharing("imdb", at), rep)
       /\ tvdb = IF cache[rep].ids["tvdb"] = None THEN TvdbOf[at]
                ELSE cache[rep].ids["tvdb"]
       /\ \E got \in TvdbAnswers(tvdb) :
            /\ NoListNeeded(at) => got.titles = {} /\ ~got.thumbs
            /\ Fill(Sharing("imdb", at), [FromList(got.titles, got.thumbs)
                                            EXCEPT !.ids["tvdb"] = tvdb])
  /\ Done
  /\ UNCHANGED <<now, db, mem, pass, todo, since, late, faults, story>>

-----------------------------------------------------------------------------
(* Titles in Portuguese *)

\* A title no translator answers for stays as it is.
TranslateTitles ==
  /\ Asking("translate", "text")
  /\ \E new \in SUBSET (cache[at].titles \ cache[at].translated) :
       cache' = [cache EXCEPT ![at].translated = @ \cup new]
  /\ Done
  /\ UNCHANGED <<now, db, mem, pass, todo, since, late, faults, story>>

\* The time is up: the pause before TheTVDB's list, or between two titles, ends
\* the pass, and what it did for the item is dropped.
DropItem ==
  /\ late
  /\ \/ Asking("tvdb", "list") /\ ~NoListNeeded(at)
     \/ Asking("translate", "text")
  /\ Done
  /\ UNCHANGED <<now, db, mem, cache, pass, todo, since, late, faults, story>>

-----------------------------------------------------------------------------
(* Time and death *)

Tick ==
  /\ now < MaxTime
  /\ now' = now + 1
  /\ UNCHANGED <<db, mem, cache, pass, todo, at, call, since, late, faults, story>>

TimeUp ==
  /\ pass # "idle" /\ ~late /\ Fault
  /\ late' = TRUE
  /\ UNCHANGED <<now, db, mem, cache, pass, todo, at, call, since, story>>

\* What was not saved is gone.  The next process starts with the rows of the
\* database, or with none when it cannot read them.
Die ==
  /\ Fault
  /\ \/ mem' = db
     \/ mem' = NoRows
  /\ cache' = NoRows
  /\ pass' = "idle" /\ todo' = {} /\ since' = 0
  /\ Done
  /\ late' = FALSE /\ unread' = FALSE /\ refreshed' = {} /\ missed' = FALSE
  /\ rested' = [a \in Id |-> IF a \in unsaved THEN 0 ELSE rested[a]]
  /\ unsaved' = {}
  /\ UNCHANGED <<now, db>>

Next ==
  \/ Begin \/ Ask \/ NextPass \/ Publish \/ Save \/ SaveFails
  \/ AniListAnswers \/ AniListFails \/ JikanAnswers \/ JikanFails
  \/ KitsuAnswers \/ IdAnswers \/ CallFails
  \/ KitsuLists \/ MalLists \/ AniDBLists \/ TvdbIdAnswers \/ TvdbLists
  \/ TranslateTitles \/ DropItem
  \/ Tick \/ TimeUp \/ Die

Spec == Init /\ [][Next]_vars

-----------------------------------------------------------------------------
(* Properties *)

\* What is filled in "old" is filled in "new".
Filled(old, new) ==
  /\ old.text \subseteq new.text
  /\ \A k \in IdKind : old.ids[k] # None => new.ids[k] # None
  /\ old.titles \subseteq new.titles
  /\ old.thumbs => new.thumbs
  /\ old.stamp <= new.stamp

\* And it is what it was.
Keeps(old, new) ==
  /\ Filled(old, new)
  /\ \A k \in IdKind : old.ids[k] # None => new.ids[k] = old.ids[k]
  /\ old.translated \subseteq new.translated

\* Whatever fails, and wherever its time limit cuts it off, a sync publishes
\* rows that are filled where memory and the database were (if it could read
\* them): no text, id, title, thumbnail or stamp becomes empty, in the row of
\* the series or of the twin that the MAL merge chose.  A series without twins
\* also keeps its stored ids and translations; those that memory has from a
\* sync whose save failed give way to the stored ones (rss_sync_service.go:202).
\* Only an answer of AniList, which replaces the row (rss_sync_enrich.go:111),
\* empties anything.
KeptUnlessRefreshed ==
  [][Publish => \A s \in Series \ refreshed :
       /\ \E c \in Twins(s) : /\ Filled(mem[s], mem'[c])
                              /\ ~unread => Filled(db[s], mem'[c])
       /\ Twins(s) = {s} => Keeps(IF unread THEN mem[s] ELSE db[s], mem'[s])]_vars

\* AniDB, which bans clients that repeat requests on one day (anidb/client.go:24),
\* is not asked again for an anime it answered within 24 hours, whichever of the
\* series that share it asks, also when saves or loads fail.  Except that AniList
\* has answered with the anime since (its row starts without a stamp, in every
\* sync for a twin whose row the MAL merge has deleted), that the answer was not
\* saved before the process died, or that it was not saved before a stored row
\* brought the anime back for a series that had lost it.
NoRepeatWithinDay ==
  [][\A a \in Id :
       pass = "anidb" /\ at = None /\ at' = a =>
         rested[a] = 0 \/ since >= rested[a] + Day]_vars

\* A sync that got the lists it asked for in full publishes, with every row that
\* has an id of Kitsu or MyAnimeList, the titles listed under it, though other
\* services failed, also where AniList replaced the row in the same sync and
\* where the MAL merge made it from several.
FullSyncsFillLists ==
  [][Publish /\ ~missed /\ ~late =>
       \A s \in Series :
         LET ids == mem'[s].ids
         IN  /\ "kitsu" \in Clients /\ ids["kitsu"] # None =>
                  KitsuList[ids["kitsu"]].titles \subseteq mem'[s].titles
             /\ "jikan" \in Clients /\ ids["mal"] # None =>
                  MalList[ids["mal"]] \subseteq mem'[s].titles]_vars

=============================================================================
