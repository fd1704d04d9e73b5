--------------------------- MODULE EnrichmentProofs ---------------------------
(***************************************************************************)
(* Proofs of the properties of Enrichment for any series, services,        *)
(* answers and length of the run.                                          *)
(***************************************************************************)
EXTENDS Enrichment, FiniteSetTheorems, TLAPS

(* The inductive invariant. *)

Grouped == {"kitsuTitles", "malTitles", "anidb", "tvdb"}

\* A pass over ids works on ids, the others on series.
ItemsAreOfThePass ==
  /\ pass \in Grouped => todo \subseteq Id /\ at \in Id \cup {None}
  /\ pass \notin Grouped => todo \subseteq Series /\ at \in Series \cup {None}

\* While a sync saves, and between syncs, no item is worked on.
AtRest == pass \notin Pass => at = None

\* An id is looked up for a row that has none.
LookedUpIsMissing == pass = "ids" /\ at # None => cache[at].ids["kitsu"] = None

\* Jikan and Kitsu are searched in their own pass, or in AniList's for it.
CallIsOfThePass ==
  at # None => /\ call = "jikan" => pass \in {"anilist", "jikan"}
               /\ call = "kitsu" => pass \in {"anilist", "kitsu"}

\* A sync's copy has what the rows it began with had.
CopyKeeps ==
  pass \in Pass => \A s \in Series \ refreshed :
    /\ Filled(mem[s], cache[s])
    /\ Keeps(IF unread THEN mem[s] ELSE db[s], cache[s])

\* The rows of an anime that AniDB answered for carry the answer's time: those of
\* the running sync, else those in memory, and those in the database once the
\* answer has been saved.
Stamped(rows, aids) ==
  \A a \in aids, s \in Series :
    rested[a] # 0 /\ rows[s].ids["aid"] = a => rested[a] <= rows[s].stamp
RestedIsStamped ==
  /\ pass \in Pass => Stamped(cache, Id)
  /\ pass \notin Pass => Stamped(mem, Id)
  /\ Stamped(db, Id \ unsaved)

\* A pass over lists has filled the rows of the ids that it is done with.
KitsuIsListed ==
  "kitsu" \in Clients /\ ~missed /\ ~late =>
    \A s \in Series :
      LET id == cache[s].ids["kitsu"]
      IN  /\ id # None
          /\ pass \in {"kitsuTitles", "malTitles", "anidb", "tvdb", "translate"}
          /\ pass = "kitsuTitles" => id \notin todo /\ id # at
          => KitsuList[id].titles \subseteq cache[s].titles
MalIsListed ==
  "jikan" \in Clients /\ ~missed /\ ~late =>
    \A s \in Series :
      LET id == cache[s].ids["mal"]
      IN  /\ id # None
          /\ pass \in {"malTitles", "anidb", "tvdb", "translate"}
          /\ pass = "malTitles" => id \notin todo /\ id # at
          => MalList[id] \subseteq cache[s].titles

Inv ==
  /\ TypeOK /\ ItemsAreOfThePass /\ AtRest /\ LookedUpIsMissing
  /\ CallIsOfThePass
  /\ CopyKeeps /\ RestedIsStamped /\ KitsuIsListed /\ MalIsListed

-----------------------------------------------------------------------------
(* Constants and passes *)

LEMMA Constants ==
  /\ None \notin Nat /\ None \notin Series /\ None \notin Id /\ IsFiniteSet(Series)
  /\ Series \subseteq Nat /\ Id \subseteq Nat
  /\ Day \in Nat /\ MaxTime \in Nat /\ Day > 0 /\ MaxTime > 0
  /\ \A s \in Series : /\ AniListKnows[s] \subseteq Details
                       /\ JikanKnows[s] \subseteq Details
                       /\ KitsuKnows[s] \subseteq Details
  /\ \A i \in Id : /\ KitsuList[i].titles \subseteq Episode /\ KitsuList[i].thumbs \in BOOLEAN
                   /\ TvdbList[i].titles \subseteq Episode /\ TvdbList[i].thumbs \in BOOLEAN
                   /\ MalList[i] \subseteq Episode /\ AniDBList[i] \subseteq Episode
                   /\ TvdbOf[i] \in Id \cup {None}
  <1>1. /\ None \notin Series /\ None \notin Id /\ Series \subseteq Nat /\ Id \subseteq Nat
        /\ None \notin Nat /\ IsFiniteSet(Series)
    BY SeriesAssumption
  <1>2. \A s \in Series : /\ AniListKnows[s] \subseteq Details
                         /\ JikanKnows[s] \subseteq Details
                         /\ KitsuKnows[s] \subseteq Details
    BY SearchAssumption
  <1>3. ASSUME NEW i \in Id
        PROVE  /\ KitsuList[i] \in Episodes /\ TvdbList[i] \in Episodes
               /\ MalList[i] \subseteq Episode /\ AniDBList[i] \subseteq Episode
               /\ TvdbOf[i] \in Id \cup {None}
    BY ListAssumption
  <1>4. \A e \in Episodes : e.titles \subseteq Episode /\ e.thumbs \in BOOLEAN
    BY DEF Episodes
  <1> QED BY <1>1, <1>2, <1>3, <1>4, TimeAssumption

LEMMA PassOrder ==
  /\ DOMAIN KindOf = Grouped
  /\ DOMAIN After = {"anilist", "jikan", "kitsu", "ids", "kitsuTitles", "malTitles",
                     "anidb", "tvdb"}
  /\ After["anilist"] = "jikan" /\ After["jikan"] = "kitsu" /\ After["kitsu"] = "ids"
  /\ After["ids"] = "kitsuTitles" /\ After["kitsuTitles"] = "malTitles"
  /\ After["malTitles"] = "anidb" /\ After["anidb"] = "tvdb"
  /\ After["tvdb"] = "translate"
  /\ KindOf["kitsuTitles"] = "kitsu" /\ KindOf["malTitles"] = "mal"
  /\ KindOf["anidb"] = "aid" /\ KindOf["tvdb"] = "imdb"
  BY DEF KindOf, After, Grouped

-----------------------------------------------------------------------------
(* Rows *)

LEMMA BlankType == Blank \in Row
  BY Constants DEF Blank, Row, IdKind

\* The fields of a row.
LEMMA RowFields ==
  ASSUME NEW r \in Row
  PROVE  /\ r.current \in BOOLEAN /\ r.listed \in BOOLEAN /\ r.thumbs \in BOOLEAN
         /\ r.text \subseteq Wanted /\ r.ids \in [IdKind -> Id \cup {None}]
         /\ r.titles \subseteq Episode /\ r.translated \subseteq r.titles
         /\ r.stamp \in 0..MaxTime /\ r.stamp \in Nat
         /\ r.airs \in (0..MaxTime + 1) \cup {None}
         /\ r = [current |-> r.current, text |-> r.text, ids |-> r.ids,
                 listed |-> r.listed, titles |-> r.titles,
                 translated |-> r.translated, thumbs |-> r.thumbs,
                 stamp |-> r.stamp, airs |-> r.airs]
  BY Constants DEF Row

\* A list adds titles and thumbnails, and no id.
LEMMA ListAdds ==
  ASSUME NEW titles \in SUBSET Episode, NEW thumbs \in BOOLEAN
  PROVE  /\ FromList(titles, thumbs) \in Row
         /\ FromList(titles, thumbs).titles = titles
         /\ \A k \in IdKind : FromList(titles, thumbs).ids[k] = None
         /\ FromList(titles, thumbs).stamp = 0
  BY BlankType DEF FromList, Blank, Row

\* A merge takes nothing, brings what was missing, and sets an id only where
\* there was none.
LEMMA MergeKeeps ==
  ASSUME NEW old \in Row, NEW add \in Row
  PROVE  LET new == MergeAniListEnrichment(old, add)
         IN  /\ new \in Row
             /\ Keeps(old, new) /\ Filled(add, new)
             /\ \A k \in IdKind :
                  new.ids[k] = IF old.ids[k] = None THEN add.ids[k] ELSE old.ids[k]
  <1> DEFINE new == MergeAniListEnrichment(old, add)
  <1>1. old.stamp \in 0..MaxTime /\ add.stamp \in 0..MaxTime
    BY RowFields
  <1>2. /\ new.stamp \in 0..MaxTime
        /\ old.stamp <= new.stamp /\ add.stamp <= new.stamp
    BY <1>1, Constants DEF Later, MergeAniListEnrichment
  <1>3. new \in Row
    <2>1. old.translated \cup (add.translated \ old.titles)
            \in SUBSET (old.titles \cup add.titles)
      BY RowFields
    <2>2. /\ new.text \in SUBSET Wanted /\ new.titles \in SUBSET Episode
          /\ new.translated \in SUBSET new.titles
          /\ new.ids \in [IdKind -> Id \cup {None}]
          /\ new.airs \in (0..MaxTime + 1) \cup {None}
      BY <2>1, RowFields DEF MergeAniListEnrichment
    <2>3. new.current \in BOOLEAN /\ new.listed \in BOOLEAN /\ new.thumbs \in BOOLEAN
      BY RowFields DEF MergeAniListEnrichment
    <2>4. new = [current |-> new.current, text |-> new.text, ids |-> new.ids,
                 listed |-> new.listed, titles |-> new.titles,
                 translated |-> new.translated, thumbs |-> new.thumbs,
                 stamp |-> new.stamp, airs |-> new.airs]
      BY DEF MergeAniListEnrichment
    <2> HIDE DEF new
    <2>5. new.translated \subseteq Episode
      BY <2>2
    <2> QED BY <1>2, <2>2, <2>3, <2>4, <2>5 DEF Row
  <1>4. Keeps(old, new) /\ Filled(add, new)
    BY <1>2 DEF Keeps, Filled, MergeAniListEnrichment
  <1>5. \A k \in IdKind :
          new.ids[k] = IF old.ids[k] = None THEN add.ids[k] ELSE old.ids[k]
    BY DEF MergeAniListEnrichment
  <1> QED BY <1>3, <1>4, <1>5

\* Two rows with the same fields are the same row.
LEMMA SameRow ==
  ASSUME NEW x \in Row, NEW y \in Row,
         x.current = y.current, x.text = y.text, x.ids = y.ids, x.listed = y.listed,
         x.titles = y.titles, x.translated = y.translated, x.thumbs = y.thumbs,
         x.stamp = y.stamp, x.airs = y.airs
  PROVE  x = y
  BY DEF Row

LEMMA MergeGroups ==
  ASSUME NEW a \in Row, NEW b \in Row, NEW c \in Row
  PROVE  MergeAniListEnrichment(MergeAniListEnrichment(a, b), c)
           = MergeAniListEnrichment(a, MergeAniListEnrichment(b, c))
  <1> DEFINE M(x, y) == MergeAniListEnrichment(x, y)
  <1>n. a.stamp \in Nat /\ b.stamp \in Nat /\ c.stamp \in Nat
    BY RowFields
  <1>1. M(M(a, b), c).ids = M(a, M(b, c)).ids
    BY DEF MergeAniListEnrichment
  <1>2. M(M(a, b), c).airs = M(a, M(b, c)).airs
    BY DEF MergeAniListEnrichment
  <1>3. M(M(a, b), c).stamp = M(a, M(b, c)).stamp
    BY <1>n DEF MergeAniListEnrichment, Later
  <1>4. /\ M(M(a, b), c).text = M(a, M(b, c)).text
        /\ M(M(a, b), c).titles = M(a, M(b, c)).titles
        /\ M(M(a, b), c).translated = M(a, M(b, c)).translated
    BY DEF MergeAniListEnrichment
  <1>5. /\ M(M(a, b), c).current = M(a, M(b, c)).current
        /\ M(M(a, b), c).listed = M(a, M(b, c)).listed
        /\ M(M(a, b), c).thumbs = M(a, M(b, c)).thumbs
    BY DEF MergeAniListEnrichment
  <1>6. M(M(a, b), c) \in Row /\ M(a, M(b, c)) \in Row
    <2>1. M(a, b) \in Row /\ M(b, c) \in Row
      BY MergeKeeps
    <2> QED BY <2>1, MergeKeeps
  <1> HIDE DEF M
  <1>7. M(M(a, b), c) = M(a, M(b, c))
    BY <1>1, <1>2, <1>3, <1>4, <1>5, <1>6, SameRow
  <1> QED BY <1>7 DEF M

LEMMA MergeRepeats ==
  ASSUME NEW a \in Row
  PROVE  MergeAniListEnrichment(a, a) = a
  <1> DEFINE M(x, y) == MergeAniListEnrichment(x, y)
  <1>n. a.stamp \in Nat
    BY RowFields
  <1>1. /\ M(a, a).ids = a.ids /\ M(a, a).airs = a.airs
        /\ M(a, a).current = a.current /\ M(a, a).listed = a.listed
        /\ M(a, a).thumbs = a.thumbs
    BY RowFields DEF MergeAniListEnrichment
  <1>2. /\ M(a, a).text = a.text /\ M(a, a).titles = a.titles
        /\ M(a, a).translated = a.translated /\ M(a, a).stamp = a.stamp
    BY <1>n DEF MergeAniListEnrichment, Later
  <1>3. M(a, a) \in Row
    BY MergeKeeps
  <1> HIDE DEF M
  <1>4. M(a, a) = a
    BY <1>1, <1>2, <1>3, SameRow
  <1> QED BY <1>4 DEF M

\* Merges may be grouped in any way, and a row merged with itself stays as it is:
\* pages and syncs merge rows into memory, the database's with memory's into
\* copies and copies into rows (MergeAniListEnrichment), some of them more than
\* once, and the row that comes out depends on the order of the answers only.
THEOREM MergesCompose ==
  ASSUME NEW a \in Row, NEW b \in Row, NEW c \in Row
  PROVE  /\ MergeAniListEnrichment(MergeAniListEnrichment(a, b), c)
              = MergeAniListEnrichment(a, MergeAniListEnrichment(b, c))
         /\ MergeAniListEnrichment(a, a) = a
         /\ MergeAniListEnrichment(MergeAniListEnrichment(a, b), b)
              = MergeAniListEnrichment(a, b)
  <1>1. MergeAniListEnrichment(MergeAniListEnrichment(a, b), b)
          = MergeAniListEnrichment(a, MergeAniListEnrichment(b, b))
    BY MergeGroups
  <1> QED BY <1>1, MergeGroups, MergeRepeats

LEMMA KeepsSame ==
  ASSUME NEW r \in Row PROVE Filled(r, r) /\ Keeps(r, r)
  BY Constants DEF Keeps, Filled, Row

LEMMA KeepsOn ==
  ASSUME NEW a \in Row, NEW b \in Row, NEW c \in Row
  PROVE  /\ Filled(a, b) /\ Filled(b, c) => Filled(a, c)
         /\ Keeps(a, b) /\ Keeps(b, c) => Keeps(a, c)
  <1>1. a.stamp \in Nat /\ b.stamp \in Nat /\ c.stamp \in Nat
    BY Constants DEF Row
  <1>2. Filled(a, b) /\ Filled(b, c) => Filled(a, c)
    BY <1>1 DEF Filled
  <1>3. Keeps(a, b) /\ Keeps(b, c) => Keeps(a, c)
    BY <1>2 DEF Keeps
  <1> QED BY <1>2, <1>3

\* What filling a group of rows does to each.
LEMMA FillKeeps ==
  ASSUME NEW group, NEW add \in Row, cache \in [Series -> Row], Fill(group, add)
  PROVE  /\ cache' \in [Series -> Row]
         /\ \A s \in Series :
              /\ Keeps(cache[s], cache'[s])
              /\ s \notin group => cache'[s] = cache[s]
              /\ s \in group =>
                   /\ Filled(add, cache'[s])
                   /\ \A k \in IdKind :
                        cache'[s].ids[k] = IF cache[s].ids[k] = None THEN add.ids[k]
                                           ELSE cache[s].ids[k]
  <1>1. \A s \in Series : cache[s] \in Row
    OBVIOUS
  <1>2. \A s \in Series : cache'[s] = IF s \in group
                                      THEN MergeAniListEnrichment(cache[s], add)
                                      ELSE cache[s]
    BY DEF Fill
  <1>3. \A s \in Series : MergeAniListEnrichment(cache[s], add) \in Row
    BY <1>1, MergeKeeps
  <1>4. cache' \in [Series -> Row]
    BY <1>1, <1>3 DEF Fill
  <1>5. ASSUME NEW s \in Series
        PROVE  /\ Keeps(cache[s], cache'[s])
               /\ s \notin group => cache'[s] = cache[s]
               /\ s \in group =>
                    /\ Filled(add, cache'[s])
                    /\ \A k \in IdKind :
                         cache'[s].ids[k] = IF cache[s].ids[k] = None THEN add.ids[k]
                                            ELSE cache[s].ids[k]
    <2>1. CASE s \in group
      BY <1>1, <1>2, <2>1, MergeKeeps
    <2>2. CASE s \notin group
      BY <1>1, <1>2, <2>2, KeepsSame
    <2> QED BY <2>1, <2>2
  <1> QED BY <1>4, <1>5

-----------------------------------------------------------------------------
(* The merge of twins *)

LEMMA MinIsLeast ==
  ASSUME NEW T \in SUBSET Nat, T # {}
  PROVE  Min(T) \in T /\ \A y \in T : Min(T) <= y
  <1> DEFINE Below == {0..x : x \in T}
  <1>1. Below \subseteq FiniteSubsetsOf(Nat) /\ Below # {}
    <2>1. \A x \in T : IsFiniteSet(0..x) /\ 0..x \subseteq Nat
      BY FS_Interval
    <2> QED BY <2>1 DEF FiniteSubsetsOf
  <1>2. PICK b \in Below : \A c \in Below : <<c, b>> \notin StrictSubsetOrdering(Nat)
    BY <1>1, FS_StrictSubsetOrderingWellFounded, WFMin
  <1>3. PICK x \in T : b = 0..x
    OBVIOUS
  <1>4. ASSUME NEW y \in T, y < x PROVE FALSE
    <2>1. x \in 0..x /\ x \notin 0..y
      BY <1>4
    <2>2. 0..y \subseteq 0..x /\ 0..y # 0..x /\ 0..y \in SUBSET Nat /\ 0..x \in SUBSET Nat
      BY <1>4, <2>1
    <2>3. <<0..y, b>> \in StrictSubsetOrdering(Nat)
      BY <1>3, <2>2 DEF StrictSubsetOrdering
    <2> QED BY <1>2, <2>3
  <1>5. \E z \in T : \A y \in T : z <= y
    BY <1>4
  <1> QED BY <1>5 DEF Min

LEMMA MaxIsGreatest ==
  ASSUME NEW T \in SUBSET Nat, T # {}, IsFiniteSet(T)
  PROVE  Max(T) \in T /\ \A y \in T : y <= Max(T)
  <1> DEFINE From(x) == {y \in T : x <= y}
             Above == {From(x) : x \in T}
  <1>1. Above \subseteq FiniteSubsetsOf(T) /\ Above # {}
    <2>1. \A x \in T : From(x) \in SUBSET T
      OBVIOUS
    <2>2. \A x \in T : IsFiniteSet(From(x))
      BY <2>1, FS_Subset
    <2> QED BY <2>1, <2>2 DEF FiniteSubsetsOf
  <1>2. PICK b \in Above : \A c \in Above : <<c, b>> \notin StrictSubsetOrdering(T)
    BY <1>1, FS_StrictSubsetOrderingWellFounded, WFMin
  <1>3. PICK x \in T : b = From(x)
    OBVIOUS
  <1>4. ASSUME NEW y \in T, x < y PROVE FALSE
    <2>1. x \in From(x) /\ x \notin From(y)
      BY <1>4
    <2>2. From(y) \in SUBSET From(x) /\ From(y) # From(x)
      <3>1. \A z \in T : y <= z => x <= z
        BY <1>4
      <3> QED BY <2>1, <3>1
    <2>4. From(y) \in SUBSET T /\ From(x) \in SUBSET T
      OBVIOUS
    <2>3. <<From(y), b>> \in StrictSubsetOrdering(T)
      BY <1>3, <2>2, <2>4 DEF StrictSubsetOrdering
    <2> QED BY <1>2, <2>3
  <1>5. \E z \in T : \A y \in T : z >= y
    BY <1>4
  <1>6. Max(T) \in T /\ \A y \in T : Max(T) >= y
    BY <1>5 DEF Max
  <1> QED BY <1>6

\* The row of a group is filled where a row of the group is, and its ids are ids
\* of the group.
LEMMA MergedFills ==
  ASSUME cache \in [Series -> Row], NEW group \in SUBSET Series, group # {}
  PROVE  /\ MergedRow(group) \in Row
         /\ \A s \in group : Filled(cache[s], MergedRow(group))
         /\ \A k \in IdKind : MergedRow(group).ids[k] # None =>
              \E s \in group : cache[s].ids[k] = MergedRow(group).ids[k]
  <1> DEFINE new == MergedRow(group)
             With(k) == {s \in group : cache[s].ids[k] # None}
             Titled(e) == {s \in group : e \in cache[s].titles}
             Aired == {s \in group : cache[s].airs # None}
             Stamps == {cache[s].stamp : s \in group}
  <1>1. \A s \in group : s \in Nat /\ cache[s] \in Row
    BY Constants
  <1>2. \A k \in IdKind : With(k) # {} => Min(With(k)) \in With(k)
    <2>1. \A k \in IdKind : With(k) \in SUBSET Nat
      BY <1>1
    <2> QED BY <2>1, MinIsLeast
  <1>3. \A e \in Episode : Titled(e) # {} => Min(Titled(e)) \in Titled(e)
    <2>1. \A e \in Episode : Titled(e) \in SUBSET Nat
      BY <1>1
    <2> QED BY <2>1, MinIsLeast
  <1>4. IsFiniteSet(group)
    BY Constants, FS_Subset
  <1>5. Aired # {} => Max(Aired) \in Aired
    <2>1. Aired \in SUBSET Nat /\ Aired \in SUBSET group
      BY <1>1
    <2>2. IsFiniteSet(Aired)
      BY <1>4, <2>1, FS_Subset
    <2> QED BY <2>1, <2>2, MaxIsGreatest
  <1>6. Max(Stamps) \in Stamps /\ \A s \in group : cache[s].stamp <= Max(Stamps)
    <2>1. \A r \in Row : r.stamp \in Nat
      BY Constants DEF Row
    <2>2. Stamps \in SUBSET Nat /\ Stamps # {}
      BY <1>1, <2>1
    <2>3. IsFiniteSet(Stamps)
      <3>1. 0 \in Int /\ MaxTime \in Int
        BY Constants
      <3>2. IsFiniteSet(0..MaxTime)
        BY <3>1, FS_Interval
      <3>3. Stamps \in SUBSET (0..MaxTime)
        BY <1>1, RowFields
      <3> QED BY <3>2, <3>3, FS_Subset
    <2> QED BY <2>2, <2>3, MaxIsGreatest
  <1>7. /\ new.current = (\E s \in group : cache[s].current)
        /\ new.text = UNION {cache[s].text : s \in group}
        /\ new.ids = [k \in IdKind |->
                        IF With(k) = {} THEN None ELSE cache[Min(With(k))].ids[k]]
        /\ new.listed = (\E s \in group : cache[s].listed)
        /\ new.titles = {e \in Episode : Titled(e) # {}}
        /\ new.translated = {e \in Episode : /\ Titled(e) # {}
                                            /\ e \in cache[Min(Titled(e))].translated}
        /\ new.thumbs = (\E s \in group : cache[s].thumbs)
        /\ new.stamp = Max(Stamps)
        /\ new.airs = IF Aired = {} THEN None ELSE cache[Max(Aired)].airs
    BY DEF MergedRow
  <1>8. new = [current |-> new.current, text |-> new.text, ids |-> new.ids,
               listed |-> new.listed, titles |-> new.titles,
               translated |-> new.translated, thumbs |-> new.thumbs,
               stamp |-> new.stamp, airs |-> new.airs]
    BY DEF MergedRow
  <1> HIDE DEF new, With, Titled, Aired, Stamps
  <1>9. /\ new.text \subseteq Wanted /\ new.current \in BOOLEAN
        /\ new.listed \in BOOLEAN /\ new.thumbs \in BOOLEAN
        /\ new.titles \subseteq Episode /\ new.translated \subseteq new.titles
    BY <1>1, <1>7 DEF Row
  <1>10. new.stamp \in 0..MaxTime
    BY <1>1, <1>6, <1>7 DEF Row, Stamps
  <1>11. new.airs \in (0..MaxTime + 1) \cup {None}
    BY <1>1, <1>5, <1>7 DEF Row, Aired
  <1>12. new.ids \in [IdKind -> Id \cup {None}]
    <2>1. \A k \in IdKind : With(k) # {} => cache[Min(With(k))].ids[k] \in Id \cup {None}
      BY <1>1, <1>2 DEF Row, With
    <2> QED BY <1>7, <2>1
  <1>13. new \in Row
    BY <1>8, <1>9, <1>10, <1>11, <1>12 DEF Row
  <1>14. ASSUME NEW s \in group PROVE Filled(cache[s], new)
    <2>1. \A k \in IdKind : cache[s].ids[k] # None => new.ids[k] # None
      <3>1. \A k \in IdKind : cache[s].ids[k] # None => s \in With(k)
        BY DEF With
      <3> QED BY <1>2, <1>7, <3>1 DEF With
    <2>2. cache[s].titles \subseteq new.titles
      BY <1>1, <1>7 DEF Row, Titled
    <2>3. cache[s].text \subseteq new.text /\ (cache[s].thumbs => new.thumbs)
      BY <1>7
    <2> QED BY <1>6, <1>7, <2>1, <2>2, <2>3 DEF Filled
  <1>15. ASSUME NEW k \in IdKind, new.ids[k] # None
         PROVE  \E s \in group : cache[s].ids[k] = new.ids[k]
    BY <1>2, <1>7, <1>15 DEF With
  <1> QED BY <1>13, <1>14, <1>15 DEF new

LEMMA TwinsOf ==
  ASSUME NEW s \in Series
  PROVE  s \in Twins(s) /\ Twins(s) \in SUBSET Series
  BY DEF Twins, Sharing

LEMMA MergedType ==
  ASSUME TypeOK, NEW home \in Homes
  PROVE  Merged(home) \in [Series -> Row]
  <1>1. \A s \in Series : MergedRow(Twins(s)) \in Row
    BY TwinsOf, MergedFills DEF TypeOK
  <1> QED BY <1>1, BlankType DEF Merged

LEMMA MergedAlone ==
  ASSUME cache \in [Series -> Row], NEW s \in Series
  PROVE  MergedRow({s}) = cache[s]
  <1> DEFINE new == MergedRow({s})
             With(k) == {t \in {s} : cache[t].ids[k] # None}
             Titled(e) == {t \in {s} : e \in cache[t].titles}
             Aired == {t \in {s} : cache[t].airs # None}
  <1>1. s \in Nat /\ cache[s] \in Row
    BY Constants
  <1>2. Min({s}) = s /\ Max({s}) = s /\ Max({cache[s].stamp}) = cache[s].stamp
    <2>1. IsFiniteSet({s}) /\ IsFiniteSet({cache[s].stamp}) /\ cache[s].stamp \in Nat
      BY <1>1, RowFields, FS_Singleton
    <2>2. {s} \in SUBSET Nat /\ {cache[s].stamp} \in SUBSET Nat
      BY <1>1, <2>1
    <2> QED BY <2>1, <2>2, MinIsLeast, MaxIsGreatest
  <1>3. new \in Row
    BY MergedFills
  <1>4. \A k \in IdKind : With(k) = IF cache[s].ids[k] # None THEN {s} ELSE {}
    OBVIOUS
  <1>5. new.ids = cache[s].ids
    <2>1. new.ids = [k \in IdKind |->
                       IF With(k) = {} THEN None ELSE cache[Min(With(k))].ids[k]]
      BY DEF MergedRow
    <2>2. cache[s].ids = [k \in IdKind |-> cache[s].ids[k]]
      BY <1>1, RowFields
    <2>3. \A k \in IdKind : With(k) # {} => Min(With(k)) = s /\ cache[s].ids[k] # None
      BY <1>2, <1>4
    <2>4. \A k \in IdKind : With(k) = {} => cache[s].ids[k] = None
      BY <1>4
    <2> HIDE DEF new, With
    <2> QED BY <2>1, <2>2, <2>3, <2>4
  <1>6. \A e \in Episode : Titled(e) = IF e \in cache[s].titles THEN {s} ELSE {}
    OBVIOUS
  <1>7. new.titles = cache[s].titles /\ new.translated = cache[s].translated
    <2>1. /\ new.titles = {e \in Episode : Titled(e) # {}}
          /\ new.translated = {e \in Episode : /\ Titled(e) # {}
                                              /\ e \in cache[Min(Titled(e))].translated}
      BY DEF MergedRow
    <2>2. cache[s].titles \subseteq Episode /\ cache[s].translated \subseteq cache[s].titles
      BY <1>1, RowFields
    <2> QED BY <1>2, <1>6, <2>1, <2>2
  <1>8. new.airs = cache[s].airs
    <2>1. new.airs = IF Aired = {} THEN None ELSE cache[Max(Aired)].airs
      BY DEF MergedRow
    <2>2. Aired = IF cache[s].airs # None THEN {s} ELSE {}
      OBVIOUS
    <2> QED BY <1>2, <2>1, <2>2
  <1>9. new.stamp = cache[s].stamp
    <2>1. {cache[t].stamp : t \in {s}} = {cache[s].stamp}
      OBVIOUS
    <2> QED BY <1>2, <2>1 DEF MergedRow
  <1>10. /\ new.current = cache[s].current /\ new.listed = cache[s].listed
         /\ new.thumbs = cache[s].thumbs /\ new.text = cache[s].text
    <2>1. /\ new.current = (\E t \in {s} : cache[t].current)
          /\ new.listed = (\E t \in {s} : cache[t].listed)
          /\ new.thumbs = (\E t \in {s} : cache[t].thumbs)
          /\ new.text = UNION {cache[t].text : t \in {s}}
      BY DEF MergedRow
    <2> HIDE DEF new
    <2>2. new.text = cache[s].text
      BY <2>1
    <2>3. /\ new.current = cache[s].current /\ new.listed = cache[s].listed
          /\ new.thumbs = cache[s].thumbs
      BY <1>1, <2>1, RowFields
    <2> QED BY <2>2, <2>3
  <1> HIDE DEF new
  <1>11. new = cache[s]
    BY <1>1, <1>3, <1>5, <1>7, <1>8, <1>9, <1>10, SameRow
  <1> QED BY <1>11 DEF new

\* The smallest and largest of a set that a larger element joins.
LEMMA MinJoins ==
  ASSUME NEW T \in SUBSET Nat, NEW z \in Nat, \A y \in T : y < z
  PROVE  Min(T \cup {z}) = IF T = {} THEN z ELSE Min(T)
  <1>1. /\ Min(T \cup {z}) \in T \cup {z}
        /\ \A y \in T \cup {z} : Min(T \cup {z}) <= y
    <2>1. T \cup {z} \in SUBSET Nat /\ T \cup {z} # {}
      OBVIOUS
    <2> QED BY <2>1, MinIsLeast
  <1>2. CASE T = {}
    BY <1>1, <1>2
  <1>3. CASE T # {}
    <2>1. Min(T) \in T /\ \A y \in T : Min(T) <= y
      BY <1>3, MinIsLeast
    <2>2. \A x, y \in Nat : x <= y /\ y <= x => x = y
      OBVIOUS
    <2> DEFINE m == Min(T \cup {z})
    <2>3. m \in Nat /\ Min(T) \in Nat /\ m \in T \cup {z} /\ m <= Min(T) /\ Min(T) < z
      BY <1>1, <2>1
    <2>4. m \in T => Min(T) <= m
      BY <2>1
    <2> HIDE DEF m
    <2>5. m = Min(T)
      BY <2>2, <2>3, <2>4
    <2> QED BY <1>3, <2>5 DEF m
  <1> QED BY <1>2, <1>3

LEMMA MaxJoins ==
  ASSUME NEW T \in SUBSET Nat, NEW z \in Nat, IsFiniteSet(T)
  PROVE  Max(T \cup {z}) = IF T = {} THEN z ELSE Later(Max(T), z)
  <1>1. /\ Max(T \cup {z}) \in T \cup {z}
        /\ \A y \in T \cup {z} : y <= Max(T \cup {z})
    <2>1. T \cup {z} \in SUBSET Nat /\ T \cup {z} # {}
      OBVIOUS
    <2>2. IsFiniteSet(T \cup {z})
      BY FS_AddElement
    <2> QED BY <2>1, <2>2, MaxIsGreatest
  <1>2. CASE T = {}
    BY <1>1, <1>2
  <1>3. CASE T # {}
    <2>1. Max(T) \in T /\ \A y \in T : y <= Max(T)
      BY <1>3, MaxIsGreatest
    <2>2. \A x, y \in Nat : x <= y /\ y <= x => x = y
      OBVIOUS
    <2> DEFINE m == Max(T \cup {z})
    <2>3. m \in Nat /\ Max(T) \in Nat /\ m \in T \cup {z} /\ Max(T) <= m /\ z <= m
      BY <1>1, <2>1
    <2>4. m \in T => m <= Max(T)
      BY <2>1
    <2> HIDE DEF m
    <2>5. m = Later(Max(T), z)
      BY <2>2, <2>3, <2>4 DEF Later
    <2> QED BY <1>3, <2>5 DEF m
  <1> QED BY <1>2, <1>3

\* The row of several series is what the program gets by merging them one after
\* the other, in the order of their ids (catalog_merge_mal.go:80): another series
\* joins a group as MergeAniListEnrichment does it.
THEOREM MergedRowIsFold ==
  ASSUME cache \in [Series -> Row], NEW group \in SUBSET Series, group # {},
         NEW last \in Series, \A s \in group : s < last
  PROVE  MergedRow(group \cup {last})
           = MergeAniListEnrichment(MergedRow(group), cache[last])
  <1> DEFINE more == group \cup {last}
             new == MergedRow(more)
             old == MergedRow(group)
             both == MergeAniListEnrichment(old, cache[last])
             With(k) == {s \in group : cache[s].ids[k] # None}
             WithMore(k) == {s \in more : cache[s].ids[k] # None}
             Titled(e) == {s \in group : e \in cache[s].titles}
             TitledMore(e) == {s \in more : e \in cache[s].titles}
             Aired == {s \in group : cache[s].airs # None}
             AiredMore == {s \in more : cache[s].airs # None}
             Stamps == {cache[s].stamp : s \in group}
  <1>1. /\ last \in Nat /\ cache[last] \in Row /\ last \notin group
        /\ \A s \in group : s \in Nat /\ cache[s] \in Row
    BY Constants
  <1>2. IsFiniteSet(group)
    BY Constants, FS_Subset
  <1>3. new \in Row /\ old \in Row
    <2>1. more \in SUBSET Series /\ more # {}
      OBVIOUS
    <2> QED BY <2>1, MergedFills
  <1>4. both \in Row
    BY <1>1, <1>3, MergeKeeps
  <1>5. \A k \in IdKind : new.ids[k] = both.ids[k]
    <2> SUFFICES ASSUME NEW k \in IdKind PROVE new.ids[k] = both.ids[k]
      OBVIOUS
    <2>1. /\ new.ids[k] = IF WithMore(k) = {} THEN None ELSE cache[Min(WithMore(k))].ids[k]
          /\ old.ids[k] = IF With(k) = {} THEN None ELSE cache[Min(With(k))].ids[k]
      BY DEF MergedRow
    <2>2. both.ids[k] = IF old.ids[k] = None THEN cache[last].ids[k] ELSE old.ids[k]
      BY DEF MergeAniListEnrichment
    <2>3. WithMore(k) = IF cache[last].ids[k] = None THEN With(k) ELSE With(k) \cup {last}
      OBVIOUS
    <2>4. With(k) \in SUBSET Nat /\ \A y \in With(k) : y < last
      BY <1>1
    <2>5. Min(With(k) \cup {last}) = IF With(k) = {} THEN last ELSE Min(With(k))
      BY <1>1, <2>4, MinJoins
    <2>6. With(k) # {} => Min(With(k)) \in With(k)
      BY <2>4, MinIsLeast
    <2>7. With(k) # {} => cache[Min(With(k))].ids[k] # None
      BY <2>6
    <2> HIDE DEF new, old, both, With, WithMore
    <2> QED BY <2>1, <2>2, <2>3, <2>5, <2>7
  <1>6. new.titles = both.titles /\ new.translated = both.translated
    <2>1. /\ new.titles = {e \in Episode : TitledMore(e) # {}}
          /\ new.translated = {e \in Episode : /\ TitledMore(e) # {}
                                              /\ e \in cache[Min(TitledMore(e))].translated}
          /\ old.titles = {e \in Episode : Titled(e) # {}}
          /\ old.translated = {e \in Episode : /\ Titled(e) # {}
                                              /\ e \in cache[Min(Titled(e))].translated}
      BY DEF MergedRow
    <2>2. /\ both.titles = old.titles \cup cache[last].titles
          /\ both.translated = old.translated \cup (cache[last].translated \ old.titles)
      BY DEF MergeAniListEnrichment
    <2>3. \A e \in Episode :
            /\ TitledMore(e) = IF e \in cache[last].titles THEN Titled(e) \cup {last}
                               ELSE Titled(e)
            /\ Titled(e) \in SUBSET Nat /\ \A y \in Titled(e) : y < last
      BY <1>1
    <2>4. \A e \in Episode :
            Min(Titled(e) \cup {last}) = IF Titled(e) = {} THEN last ELSE Min(Titled(e))
      BY <1>1, <2>3, MinJoins
    <2>5. cache[last].titles \subseteq Episode
          /\ cache[last].translated \subseteq cache[last].titles
      BY <1>1, RowFields
    <2> HIDE DEF new, old, both, Titled, TitledMore
    <2>6. \A e \in Episode : e \in new.titles <=> e \in both.titles
      BY <2>1, <2>2, <2>3
    <2>7. \A e \in Episode : e \in new.translated <=> e \in both.translated
      BY <2>1, <2>2, <2>3, <2>4, <2>5
    <2>8. /\ new.titles \subseteq Episode /\ new.translated \subseteq Episode
          /\ both.titles \subseteq Episode /\ both.translated \subseteq Episode
      BY <2>1, <2>2, <2>5
    <2> QED BY <2>6, <2>7, <2>8
  <1>7. new.airs = both.airs
    <2>1. /\ new.airs = IF AiredMore = {} THEN None ELSE cache[Max(AiredMore)].airs
          /\ old.airs = IF Aired = {} THEN None ELSE cache[Max(Aired)].airs
      BY DEF MergedRow
    <2>2. both.airs = IF cache[last].airs = None THEN old.airs ELSE cache[last].airs
      BY DEF MergeAniListEnrichment
    <2>3. AiredMore = IF cache[last].airs = None THEN Aired ELSE Aired \cup {last}
      OBVIOUS
    <2>4. Aired \in SUBSET Nat /\ Aired \in SUBSET group
      BY <1>1
    <2>5. IsFiniteSet(Aired)
      BY <1>2, <2>4, FS_Subset
    <2>6. Max(Aired \cup {last}) = last
      <3>1. Aired # {} => Max(Aired) \in Aired
        BY <2>4, <2>5, MaxIsGreatest
      <3>2. Aired # {} => Max(Aired) \in Nat /\ Max(Aired) < last
        BY <1>1, <2>4, <3>1
      <3> HIDE DEF Aired
      <3>3. Max(Aired \cup {last}) = IF Aired = {} THEN last ELSE Later(Max(Aired), last)
        BY <1>1, <2>4, <2>5, MaxJoins
      <3> QED BY <1>1, <3>2, <3>3 DEF Later
    <2>7. last \in AiredMore <=> cache[last].airs # None
      OBVIOUS
    <2> HIDE DEF new, old, both, Aired, AiredMore
    <2> QED BY <2>1, <2>2, <2>3, <2>6, <2>7
  <1>8. new.stamp = both.stamp
    <2>1. new.stamp = Max({cache[s].stamp : s \in more}) /\ old.stamp = Max(Stamps)
      BY DEF MergedRow
    <2>2. both.stamp = Later(old.stamp, cache[last].stamp)
      BY DEF MergeAniListEnrichment
    <2>3. {cache[s].stamp : s \in more} = Stamps \cup {cache[last].stamp}
      OBVIOUS
    <2>4. Stamps \in SUBSET (0..MaxTime) /\ Stamps # {} /\ cache[last].stamp \in Nat
      BY <1>1, RowFields
    <2>5. Stamps \in SUBSET Nat /\ IsFiniteSet(Stamps)
      <3>1. 0 \in Int /\ MaxTime \in Int
        BY Constants
      <3>2. IsFiniteSet(0..MaxTime)
        BY <3>1, FS_Interval
      <3>3. IsFiniteSet(Stamps)
        BY <2>4, <3>2, FS_Subset
      <3> QED BY <2>4, <3>3
    <2> HIDE DEF new, old, both, Stamps
    <2>6. Max(Stamps \cup {cache[last].stamp}) = Later(Max(Stamps), cache[last].stamp)
      BY <2>4, <2>5, MaxJoins
    <2> QED BY <2>1, <2>2, <2>3, <2>6
  <1>9. /\ new.current = both.current /\ new.listed = both.listed
        /\ new.thumbs = both.thumbs /\ new.text = both.text
    <2>1. /\ both.current = (old.current \/ cache[last].current)
          /\ both.listed = (old.listed \/ cache[last].listed)
          /\ both.thumbs = (old.thumbs \/ cache[last].thumbs)
          /\ both.text = old.text \cup cache[last].text
      BY DEF MergeAniListEnrichment
    <2>2. /\ old.current = (\E s \in group : cache[s].current)
          /\ new.current = (\E s \in more : cache[s].current)
          /\ old.listed = (\E s \in group : cache[s].listed)
          /\ new.listed = (\E s \in more : cache[s].listed)
      BY DEF MergedRow
    <2>3. /\ old.thumbs = (\E s \in group : cache[s].thumbs)
          /\ new.thumbs = (\E s \in more : cache[s].thumbs)
          /\ old.text = UNION {cache[s].text : s \in group}
          /\ new.text = UNION {cache[s].text : s \in more}
      BY DEF MergedRow
    <2> HIDE DEF new, old, both
    <2>4. new.current = both.current /\ new.listed = both.listed /\ new.thumbs = both.thumbs
      BY <2>1, <2>2, <2>3
    <2>5. new.text = both.text
      BY <2>1, <2>3
    <2> QED BY <2>4, <2>5
  <1>10. new.ids = both.ids
    <2>1. new.ids \in [IdKind -> Id \cup {None}] /\ both.ids \in [IdKind -> Id \cup {None}]
      BY <1>3, <1>4, RowFields
    <2> HIDE DEF new, both
    <2> QED BY <1>5, <2>1
  <1> HIDE DEF new, both
  <1>11. new = both
    BY <1>3, <1>4, <1>6, <1>7, <1>8, <1>9, <1>10, SameRow
  <1> QED BY <1>11 DEF new, both

-----------------------------------------------------------------------------
(* Types *)

\* The rows a service's answer makes.
LEMMA AnswerTypes ==
  ASSUME TypeOK
  PROVE  /\ \A d \in Details : /\ FromAniList(d, now) \in Row
                               /\ FromJikan(d) \in Row
                               /\ FromKitsu(d) \in Row
         /\ \A d \in Details : /\ FromAniList(d, now).ids["aid"] = d.aid
                               /\ FromJikan(d).ids["aid"] = None
                               /\ FromKitsu(d).ids["aid"] = None
  <1>1. now + 1 \in 0..MaxTime + 1 /\ 0 \in 0..MaxTime + 1
    BY Constants DEF TypeOK
  <1>2. ASSUME NEW d \in Details
        PROVE  FromAniList(d, now) \in Row /\ FromAniList(d, now).ids["aid"] = d.aid
    <2> DEFINE ids == [Blank.ids EXCEPT !["mal"] = d.mal, !["aid"] = d.aid]
    <2>1. /\ d.text \subseteq Wanted /\ d.titles \subseteq Episode /\ d.thumbs \in BOOLEAN
          /\ {d.mal, d.aid, d.imdb} \subseteq Id \cup {None}
      BY DEF Details
    <2>2. Blank.ids = [k \in IdKind |-> None]
      BY DEF Blank
    <2>3. ids \in [IdKind -> Id \cup {None}] /\ ids["aid"] = d.aid
      BY <2>1, <2>2 DEF IdKind
    <2>4. FromAniList(d, now) = [Blank EXCEPT !.current = TRUE, !.listed = TRUE, !.text = d.text,
                               !.airs = IF d.airing THEN now + 1 ELSE 0, !.ids = ids,
                               !.titles = d.titles, !.thumbs = d.thumbs]
      BY DEF FromAniList
    <2>5. Blank.translated = {}
      BY DEF Blank
    <2> HIDE DEF ids
    <2> QED BY <1>1, <2>1, <2>3, <2>4, <2>5, BlankType DEF Row
  <1>3. ASSUME NEW d \in Details
        PROVE  FromJikan(d) \in Row /\ FromJikan(d).ids["aid"] = None
    <2> DEFINE ids == [Blank.ids EXCEPT !["mal"] = d.mal, !["imdb"] = d.imdb]
    <2>1. /\ d.text \subseteq Wanted /\ d.titles \subseteq Episode /\ d.thumbs \in BOOLEAN
          /\ {d.mal, d.aid, d.imdb} \subseteq Id \cup {None}
      BY DEF Details
    <2>2. Blank.ids = [k \in IdKind |-> None]
      BY DEF Blank
    <2>3. ids \in [IdKind -> Id \cup {None}] /\ ids["aid"] = None
      BY <2>1, <2>2 DEF IdKind
    <2>4. FromJikan(d) = [Blank EXCEPT !.current = TRUE, !.listed = d.titles # {}, !.text = d.text,
                               !.ids = ids, !.titles = d.titles]
      BY DEF FromJikan
    <2>5. Blank.translated = {}
      BY DEF Blank
    <2> HIDE DEF ids
    <2> QED BY <2>1, <2>3, <2>4, <2>5, BlankType DEF Row
  <1>4. ASSUME NEW d \in Details
        PROVE  FromKitsu(d) \in Row /\ FromKitsu(d).ids["aid"] = None
    BY BlankType DEF FromKitsu, Row, Details, IdKind, Blank
  <1> QED BY <1>2, <1>3, <1>4

\* The rows that AniDB's and TheTVDB's lists make.
LEMMA ListTypes ==
  ASSUME TypeOK, NEW titles \in SUBSET Episode, NEW thumbs \in BOOLEAN,
         NEW tvdb \in Id
  PROVE  LET stamped == [FromList(titles, thumbs) EXCEPT !.stamp = since]
             found == [FromList(titles, thumbs) EXCEPT !.ids["tvdb"] = tvdb]
         IN  /\ stamped \in Row /\ stamped.stamp = since
             /\ stamped.ids = FromList(titles, thumbs).ids
             /\ found \in Row /\ found.ids["aid"] = None
             /\ found.ids["kitsu"] = None /\ found.ids["mal"] = None
  <1> DEFINE list == FromList(titles, thumbs)
             stamped == [list EXCEPT !.stamp = since]
             found == [list EXCEPT !.ids["tvdb"] = tvdb]
  <1>1. list \in Row /\ \A k \in IdKind : list.ids[k] = None
    BY ListAdds
  <1>2. since \in 0..MaxTime
    BY DEF TypeOK
  <1> HIDE DEF list
  <1>3. stamped \in Row /\ stamped.stamp = since /\ stamped.ids = list.ids
    BY <1>1, <1>2 DEF Row
  <1>4. /\ found \in Row /\ found.ids["aid"] = None
        /\ found.ids["kitsu"] = None /\ found.ids["mal"] = None
    BY <1>1 DEF Row, IdKind
  <1> QED BY <1>3, <1>4 DEF list

\* The row of a list of Kitsu.
KitsuRow(got) == [FromList(got.titles, got.thumbs)
                    EXCEPT !.listed = got.titles # {} \/ got.thumbs]

LEMMA KitsuRowType ==
  ASSUME NEW i \in Id
  PROVE  /\ KitsuRow(KitsuList[i]) \in Row
         /\ KitsuRow(KitsuList[i]).titles = KitsuList[i].titles
         /\ \A k \in IdKind : KitsuRow(KitsuList[i]).ids[k] = None
  <1> DEFINE list == FromList(KitsuList[i].titles, KitsuList[i].thumbs)
  <1>1. KitsuList[i].titles \in SUBSET Episode /\ KitsuList[i].thumbs \in BOOLEAN
    BY Constants
  <1>2. /\ list \in Row /\ list.titles = KitsuList[i].titles
        /\ \A k \in IdKind : list.ids[k] = None
    BY <1>1, ListAdds
  <1>3. KitsuRow(KitsuList[i]) = [list EXCEPT !.listed = KitsuList[i].titles # {}
                                                        \/ KitsuList[i].thumbs]
    BY DEF KitsuRow
  <1>4. (KitsuList[i].titles # {} \/ KitsuList[i].thumbs) \in BOOLEAN
    BY <1>1
  <1> HIDE DEF list
  <1> QED BY <1>2, <1>3, <1>4 DEF Row

LEMMA ItemsType ==
  ASSUME TypeOK, NEW p \in DOMAIN After
  PROVE  /\ After[p] \in Grouped => ItemsOf(After[p]) \subseteq Id
         /\ After[p] \notin Grouped => ItemsOf(After[p]) \subseteq Series
  <1>1. \A s \in Series, k \in IdKind : cache[s].ids[k] \in Id \cup {None}
    BY DEF TypeOK, Row
  <1>2. \A q \in Grouped : KindOf[q] \in IdKind
    BY PassOrder DEF Grouped, IdKind
  <1> QED BY <1>1, <1>2, PassOrder DEF ItemsOf

-----------------------------------------------------------------------------
(* What a step does to the rows *)

\* The steps that add to the rows.
Adds ==
  \/ JikanAnswers \/ KitsuAnswers \/ IdAnswers
  \/ KitsuLists \/ MalLists \/ AniDBLists \/ TvdbLists \/ TranslateTitles

\* They take nothing, change no aid, and, from the first list on, no id of a list.
Grows ==
  /\ cache' \in [Series -> Row]
  /\ \A s \in Series :
       /\ Keeps(cache[s], cache'[s])
       /\ cache'[s].ids["aid"] = cache[s].ids["aid"]
       /\ pass \in Grouped \cup {"translate"} =>
            /\ cache'[s].ids["kitsu"] = cache[s].ids["kitsu"]
            /\ cache'[s].ids["mal"] = cache[s].ids["mal"]

LEMMA FillGrows ==
  ASSUME TypeOK, NEW group, NEW add \in Row, Fill(group, add),
         add.ids["aid"] = None,
         pass \in Grouped \cup {"translate"} =>
           add.ids["kitsu"] = None /\ add.ids["mal"] = None
  PROVE  Grows
  <1>1. cache \in [Series -> Row]
    BY DEF TypeOK
  <1>2. {"aid", "kitsu", "mal"} \subseteq IdKind
    BY DEF IdKind
  <1>3. cache' \in [Series -> Row]
    BY <1>1, FillKeeps
  <1>4. ASSUME NEW s \in Series
        PROVE  /\ Keeps(cache[s], cache'[s])
               /\ s \notin group => cache'[s] = cache[s]
               /\ s \in group => \A k \in IdKind :
                    cache'[s].ids[k] = IF cache[s].ids[k] = None THEN add.ids[k]
                                       ELSE cache[s].ids[k]
    BY <1>1, FillKeeps
  <1> QED BY <1>2, <1>3, <1>4 DEF Grows

LEMMA AddsGrow ==
  ASSUME Inv, Adds PROVE Grows
  <1> USE DEF Inv
  <1>1. ASSUME JikanAnswers PROVE Grows
    <2>1. at \in Series /\ pass \in {"anilist", "jikan"}
      BY <1>1, Constants DEF JikanAnswers, CallIsOfThePass, ItemsAreOfThePass, Grouped
    <2>2. PICK d \in JikanKnows[at] : Fill({at}, FromJikan(d))
      BY <1>1 DEF JikanAnswers
    <2>3. d \in Details
      BY <2>1, <2>2, Constants
    <2> QED BY <2>1, <2>2, <2>3, AnswerTypes, FillGrows DEF Grouped
  <1>2. ASSUME KitsuAnswers PROVE Grows
    <2>1. at \in Series /\ pass \in {"anilist", "kitsu"}
      BY <1>2, Constants DEF KitsuAnswers, CallIsOfThePass, ItemsAreOfThePass, Grouped
    <2>2. PICK d \in KitsuKnows[at] : Fill({at}, FromKitsu(d))
      BY <1>2 DEF KitsuAnswers
    <2>3. d \in Details
      BY <2>1, <2>2, Constants
    <2> QED BY <2>1, <2>2, <2>3, AnswerTypes, FillGrows DEF Grouped
  <1>3. ASSUME IdAnswers PROVE Grows
    <2>1. at \in Series /\ pass = "ids" /\ cache[at].ids["kitsu"] = None
      BY <1>3, Constants DEF IdAnswers, Asking, ItemsAreOfThePass, Grouped, LookedUpIsMissing
    <2>2. PICK d \in KitsuKnows[at] : cache' = [cache EXCEPT ![at].ids["kitsu"] = d.kitsu]
      BY <1>3 DEF IdAnswers
    <2>3. d.kitsu \in Id \cup {None}
      BY <2>1, <2>2, Constants DEF Details
    <2>4. \A s \in Series : cache[s] \in Row
      BY DEF TypeOK
    <2> DEFINE new == [cache[at] EXCEPT !.ids["kitsu"] = d.kitsu]
    <2>5. new \in Row /\ new.ids["aid"] = cache[at].ids["aid"]
      BY <2>1, <2>3, <2>4 DEF Row, IdKind
    <2>6. Keeps(cache[at], new)
      BY <2>1, <2>4, Constants DEF Keeps, Filled, Row, IdKind
    <2>7. \A s \in Series : cache'[s] = IF s = at THEN new ELSE cache[s]
      BY <2>1, <2>2 DEF TypeOK
    <2>8. cache' \in [Series -> Row]
      BY <2>1, <2>2, <2>4, <2>5 DEF TypeOK
    <2> HIDE DEF new
    <2> QED BY <2>1, <2>4, <2>5, <2>6, <2>7, <2>8, KeepsSame DEF Grows, Grouped
  <1>4. ASSUME KitsuLists PROVE Grows
    <2>1. at \in Id
      BY <1>4, Constants DEF KitsuLists, Asking, ItemsAreOfThePass, Grouped
    <2>2. Fill(Sharing("kitsu", at), KitsuRow(KitsuList[at]))
      BY <1>4 DEF KitsuLists, KitsuRow
    <2>3. {"aid", "kitsu", "mal"} \subseteq IdKind
      BY DEF IdKind
    <2> QED BY <2>1, <2>2, <2>3, KitsuRowType, FillGrows
  <1>5. ASSUME MalLists PROVE Grows
    <2>1. at \in Id
      BY <1>5, Constants DEF MalLists, Asking, ItemsAreOfThePass, Grouped
    <2>2. PICK got \in SUBSET MalList[at] : Fill(Sharing("mal", at), FromList(got, FALSE))
      BY <1>5 DEF MalLists, MalAnswers
    <2>3. {"aid", "kitsu", "mal"} \subseteq IdKind /\ got \in SUBSET Episode
      BY <2>1, <2>2, Constants DEF IdKind
    <2> QED BY <2>2, <2>3, ListAdds, FillGrows
  <1>6. ASSUME AniDBLists PROVE Grows
    <2>1. at \in Id
      BY <1>6, Constants DEF AniDBLists, Asking, ItemsAreOfThePass, Grouped
    <2>2. PICK got \in {{}, AniDBList[at]} :
            Fill(Sharing("aid", at), [FromList(got, FALSE) EXCEPT !.stamp = since])
      BY <1>6 DEF AniDBLists, AniDBAnswers
    <2>3. {"aid", "kitsu", "mal"} \subseteq IdKind /\ got \in SUBSET Episode
      BY <2>1, <2>2, Constants DEF IdKind
    <2>4. [FromList(got, FALSE) EXCEPT !.stamp = since].ids = FromList(got, FALSE).ids
          /\ [FromList(got, FALSE) EXCEPT !.stamp = since] \in Row
      BY <2>1, <2>3, ListTypes
    <2>5. \A k \in IdKind : FromList(got, FALSE).ids[k] = None
      BY <2>3, ListAdds
    <2> QED BY <2>2, <2>3, <2>4, <2>5, FillGrows
  <1>7. ASSUME TvdbLists PROVE Grows
    <2>1. at \in Id
      BY <1>7, Constants DEF TvdbLists, Asking, ItemsAreOfThePass, Grouped
    <2>2. PICK tvdb \in Id :
            \E got \in TvdbAnswers(tvdb) :
              Fill(Sharing("imdb", at), [FromList(got.titles, got.thumbs)
                                           EXCEPT !.ids["tvdb"] = tvdb])
      BY <1>7 DEF TvdbLists
    <2>3. PICK got \in TvdbAnswers(tvdb) :
            Fill(Sharing("imdb", at), [FromList(got.titles, got.thumbs)
                                         EXCEPT !.ids["tvdb"] = tvdb])
      BY <2>2
    <2>4. got.titles \in SUBSET Episode /\ got.thumbs \in BOOLEAN
      BY <2>2, <2>3, Constants DEF TvdbAnswers
    <2> QED BY <2>2, <2>3, <2>4, ListTypes, FillGrows
  <1>8. ASSUME TranslateTitles PROVE Grows
    <2>1. at \in Series
      BY <1>8, Constants DEF TranslateTitles, Asking, ItemsAreOfThePass, Grouped
    <2>2. PICK new \in SUBSET (cache[at].titles \ cache[at].translated) :
            cache' = [cache EXCEPT ![at].translated = @ \cup new]
      BY <1>8 DEF TranslateTitles
    <2>3. \A s \in Series : cache[s] \in Row
      BY DEF TypeOK
    <2> DEFINE r == [cache[at] EXCEPT !.translated = @ \cup new]
    <2>4. r \in Row /\ r.ids = cache[at].ids
      BY <2>1, <2>2, <2>3 DEF Row
    <2>5. Keeps(cache[at], r)
      BY <2>1, <2>3, Constants DEF Keeps, Filled, Row
    <2>6. \A s \in Series : cache'[s] = IF s = at THEN r ELSE cache[s]
      BY <2>1, <2>2 DEF TypeOK
    <2>7. cache' \in [Series -> Row]
      BY <2>1, <2>2, <2>3, <2>4 DEF TypeOK
    <2> HIDE DEF r
    <2> QED BY <2>1, <2>3, <2>4, <2>5, <2>6, <2>7, KeepsSame DEF Grows
  <1> QED BY <1>1, <1>2, <1>3, <1>4, <1>5, <1>6, <1>7, <1>8 DEF Adds

-----------------------------------------------------------------------------
(* Types and places *)

\* The steps that leave the rows and the stamps alone.
Waits ==
  \/ Ask \/ NextPass \/ AniListFails \/ JikanFails \/ CallFails
  \/ TvdbIdAnswers \/ DropItem \/ Tick \/ TimeUp

LEMMA FaultType ==
  ASSUME TypeOK
  PROVE  Fault \/ NoAnswer \/ UNCHANGED faults => faults' \in 0..MaxFaults
  <1>1. MaxFaults \in Nat /\ faults \in 0..MaxFaults
    BY TimeAssumption DEF TypeOK
  <1> QED BY <1>1 DEF Fault, NoAnswer

LEMMA AniListType ==
  ASSUME Inv, AniListAnswers
  PROVE  \E d \in Details :
           /\ at \in Series
           /\ FromAniList(d, now) \in Row
           /\ cache' \in [Series -> Row]
           /\ \A s \in Series :
                cache'[s] = IF s = at THEN FromAniList(d, now) ELSE cache[s]
           /\ FromAniList(d, now).ids["aid"] = d.aid
           /\ rested' = IF d.aid = None THEN rested ELSE [rested EXCEPT ![d.aid] = 0]
  <1> USE DEF Inv
  <1>1. at \in Series
    BY Constants DEF AniListAnswers, Asking, ItemsAreOfThePass, Grouped
  <1>2. PICK d \in AniListKnows[at] :
          /\ cache' = [cache EXCEPT ![at] = FromAniList(d, now)]
          /\ rested' = IF d.aid = None THEN rested ELSE [rested EXCEPT ![d.aid] = 0]
    BY DEF AniListAnswers
  <1>3. d \in Details
    BY <1>1, <1>2, Constants
  <1>4. FromAniList(d, now) \in Row /\ FromAniList(d, now).ids["aid"] = d.aid
    BY <1>3, AnswerTypes
  <1> QED BY <1>1, <1>2, <1>3, <1>4 DEF TypeOK

LEMMA NextPassIsPass ==
  ASSUME NEW p \in DOMAIN After PROVE After[p] \in Pass
  BY PassOrder DEF Pass

LEMMA FirstCallType ==
  ASSUME pass \in Pass, NEW x
  PROVE  /\ FirstCall(x) \in {"anilist", "jikan", "kitsu", "search", "list", "id", "text"}
         /\ FirstCall(x) = "jikan" => pass = "jikan"
         /\ FirstCall(x) = "kitsu" => pass = "kitsu"
  BY PassOrder DEF Pass, FirstCall

\* The steps that add to the rows leave the rest of the sync and the stores alone.
LEMMA AddsFrame ==
  ASSUME Adds
  PROVE  /\ UNCHANGED <<now, db, mem, pass, todo, since, late, faults, unread, refreshed>>
         /\ at' = None /\ call' = "none"
         /\ ~AniDBLists => UNCHANGED <<rested, unsaved>>
  BY DEF Adds, JikanAnswers, KitsuAnswers, IdAnswers, KitsuLists, MalLists, AniDBLists,
    TvdbLists, TranslateTitles, Done, story

LEMMA StepType ==
  ASSUME Inv, Next PROVE TypeOK'
  <1> USE DEF Inv
  <1>z. 0 \in 0..MaxTime /\ NoRows \in [Series -> Row]
    BY Constants, BlankType DEF NoRows
  <1>1. ASSUME Adds PROVE TypeOK'
    <2>1. Grows
      BY <1>1, AddsGrow
    <2>2. missed' \in BOOLEAN
      BY <1>1 DEF Adds, JikanAnswers, KitsuAnswers, IdAnswers, KitsuLists, MalLists,
        AniDBLists, TvdbLists, TranslateTitles, story, TypeOK
    <2>3. rested' \in [Id -> 0..MaxTime] /\ unsaved' \subseteq Id
      <3>1. CASE AniDBLists
        <4>1. at \in Id
          BY <3>1, Constants DEF AniDBLists, Asking, ItemsAreOfThePass, Grouped
        <4> QED BY <3>1, <4>1 DEF AniDBLists, TypeOK
      <3>2. CASE ~AniDBLists
        BY <1>1, <3>2, AddsFrame DEF TypeOK
      <3> QED BY <3>1, <3>2
    <2> QED BY <1>1, <2>1, <2>2, <2>3, AddsFrame DEF TypeOK, Grows
  <1>2. ASSUME AniListAnswers PROVE TypeOK'
    <2>1. PICK d \in Details :
            /\ at \in Series
            /\ cache' \in [Series -> Row]
            /\ rested' = IF d.aid = None THEN rested ELSE [rested EXCEPT ![d.aid] = 0]
      BY <1>2, AniListType
    <2>2. rested' \in [Id -> 0..MaxTime]
      <3>1. CASE d.aid = None
        BY <2>1, <3>1 DEF TypeOK
      <3>2. CASE d.aid # None
        BY <1>z, <2>1, <3>2 DEF TypeOK
      <3> QED BY <3>1, <3>2
    <2> QED BY <1>2, <2>1, <2>2 DEF AniListAnswers, Done, TypeOK
  <1>3. ASSUME Begin PROVE TypeOK'
    <2>1. \A s \in Series : MergeAniListEnrichment(db[s], mem[s]) \in Row
      BY MergeKeeps DEF TypeOK
    <2>2. cache' \in [Series -> Row] /\ rested' \in [Id -> 0..MaxTime]
      BY <1>3, <1>z, <2>1 DEF Begin, TypeOK
    <2>3. faults' \in 0..MaxFaults /\ unread' \in BOOLEAN
      BY <1>3, FaultType DEF Begin
    <2> QED BY <1>3, <2>2, <2>3 DEF Begin, TypeOK, Pass, After
  <1>4. ASSUME Ask PROVE TypeOK'
    <2>1. pass \in Pass
      BY <1>4 DEF Ask
    <2>2. PICK x \in todo : /\ at' = x /\ todo' = {y \in todo : y > x}
                           /\ call' = FirstCall(x)
      BY <1>4 DEF Ask
    <2>3. call' \in {"anilist", "jikan", "kitsu", "search", "list", "id", "text"}
      BY <2>1, <2>2, FirstCallType
    <2> QED BY <1>4, <2>2, <2>3 DEF Ask, TypeOK, story
  <1>5. ASSUME NextPass PROVE TypeOK'
    <2>1. After[pass] \in Pass /\ ItemsOf(After[pass]) \subseteq Series \cup Id
      BY <1>5, NextPassIsPass, ItemsType DEF NextPass
    <2>2. since' \in 0..MaxTime
      BY <1>5, Constants DEF NextPass, TypeOK
    <2> QED BY <1>5, <2>1, <2>2 DEF NextPass, TypeOK, story
  <1>6. ASSUME AniListFails \/ JikanFails \/ CallFails \/ TvdbIdAnswers \/ DropItem
        PROVE  TypeOK'
    <2>1. faults' \in 0..MaxFaults
      BY <1>6, FaultType DEF AniListFails, JikanFails, CallFails, TvdbIdAnswers, DropItem
    <2>2. /\ at' \in Series \cup Id \cup {None}
          /\ call' \in {"none", "anilist", "jikan", "kitsu", "search", "list", "id", "text"}
      BY <1>6 DEF AniListFails, JikanFails, CallFails, TvdbIdAnswers, DropItem, Done, TypeOK
    <2>3. missed' \in BOOLEAN
      BY <1>6 DEF AniListFails, JikanFails, CallFails, TvdbIdAnswers, DropItem, TypeOK, story
    <2>4. UNCHANGED <<now, db, mem, cache, pass, todo, since, late, unread, refreshed,
                      unsaved, rested>>
      BY <1>6 DEF AniListFails, JikanFails, CallFails, TvdbIdAnswers, DropItem, story
    <2> QED BY <2>1, <2>2, <2>3, <2>4 DEF TypeOK
  <1>7. ASSUME Tick \/ TimeUp PROVE TypeOK'
    <2>1. now' \in 1..MaxTime
      <3>1. now \in 1..MaxTime
        BY DEF TypeOK
      <3> QED BY <1>7, <3>1, Constants DEF Tick, TimeUp
    <2>2. late' \in BOOLEAN
      BY <1>7 DEF Tick, TimeUp, TypeOK
    <2>3. faults' \in 0..MaxFaults
      BY <1>7, FaultType DEF Tick, TimeUp
    <2>4. UNCHANGED <<db, mem, cache, pass, todo, at, call, since, story>>
      BY <1>7 DEF Tick, TimeUp
    <2> QED BY <2>1, <2>2, <2>3, <2>4 DEF TypeOK, story
  <1>8. ASSUME Publish PROVE TypeOK'
    <2>1. mem' \in [Series -> Row]
      BY <1>8, MergedType DEF Publish
    <2> QED BY <1>8, <1>z, <2>1 DEF Publish, TypeOK
  <1>9. ASSUME Save PROVE TypeOK'
    <2>1. \A s \in Series : AsLoaded(mem[s]) \in Row
      BY BlankType DEF AsLoaded, TypeOK, Row
    <2>2. db' \in [Series -> Row]
      BY <1>9, <2>1 DEF Save
    <2> QED BY <1>9, <2>2 DEF Save, TypeOK
  <1>10. ASSUME SaveFails PROVE TypeOK'
    <2>1. faults' \in 0..MaxFaults
      BY <1>10, FaultType DEF SaveFails
    <2> QED BY <1>10, <2>1 DEF SaveFails, TypeOK, story
  <1>11. ASSUME Die PROVE TypeOK'
    <2>1. rested' \in [Id -> 0..MaxTime]
      BY <1>11, <1>z DEF Die, TypeOK
    <2>2. faults' \in 0..MaxFaults
      BY <1>11, FaultType DEF Die
    <2>3. mem' \in [Series -> Row]
      BY <1>11, <1>z DEF Die, TypeOK
    <2> QED BY <1>11, <1>z, <2>1, <2>2, <2>3 DEF Die, Done, TypeOK
  <1> QED BY <1>1, <1>2, <1>3, <1>4, <1>5, <1>6, <1>7, <1>8, <1>9, <1>10, <1>11
        DEF Next, Adds

\* The pass, its items and its calls.
LEMMA StepPlaces ==
  ASSUME Inv, Next
  PROVE  ItemsAreOfThePass' /\ AtRest' /\ LookedUpIsMissing' /\ CallIsOfThePass'
  <1> USE DEF Inv
  <1> DEFINE Goal == /\ ItemsAreOfThePass' /\ AtRest'
                     /\ LookedUpIsMissing' /\ CallIsOfThePass'
  <1> SUFFICES Goal
    OBVIOUS
  <1>1. ASSUME Adds PROVE Goal
    <2>1. at' = None /\ at # None /\ pass' = pass /\ todo' = todo
      BY <1>1 DEF Adds, JikanAnswers, KitsuAnswers, IdAnswers, KitsuLists, MalLists,
        AniDBLists, TvdbLists, TranslateTitles, Done, Asking
    <2> QED BY <2>1 DEF ItemsAreOfThePass, AtRest, LookedUpIsMissing, CallIsOfThePass
  <1>2. ASSUME AniListAnswers PROVE Goal
    BY <1>2 DEF AniListAnswers, Asking, Done, ItemsAreOfThePass, AtRest,
      LookedUpIsMissing, CallIsOfThePass
  <1>3. ASSUME Begin PROVE Goal
    <2>1. pass' = "anilist" /\ todo' = Series /\ at' = None
      <3>1. pass \notin Pass
        BY <1>3, PassOrder DEF Begin, Pass
      <3> QED BY <1>3, <3>1 DEF Begin, AtRest
    <2> QED BY <2>1 DEF ItemsAreOfThePass, AtRest, LookedUpIsMissing, CallIsOfThePass,
      Grouped
  <1>4. ASSUME Ask PROVE Goal
    <2>1. pass \in Pass /\ pass' = pass /\ cache' = cache
      BY <1>4 DEF Ask
    <2>2. PICK x \in todo : /\ at' = x /\ todo' = {y \in todo : y > x}
                           /\ call' = FirstCall(x) /\ Due(x)
      BY <1>4 DEF Ask, First
    <2>3. FirstCall(x) = "jikan" => pass = "jikan"
      BY <2>1, FirstCallType
    <2>4. FirstCall(x) = "kitsu" => pass = "kitsu"
      BY <2>1, FirstCallType
    <2>5. pass = "ids" => cache[x].ids["kitsu"] = None
      BY <2>2 DEF Due
    <2> QED BY <2>1, <2>2, <2>3, <2>4, <2>5 DEF ItemsAreOfThePass, AtRest,
      LookedUpIsMissing, CallIsOfThePass
  <1>5. ASSUME NextPass PROVE Goal
    <2>1. pass' = After[pass] /\ todo' = ItemsOf(After[pass]) /\ at' = None
          /\ pass \in DOMAIN After
      BY <1>5 DEF NextPass
    <2>3. /\ pass' \in Grouped => todo' \subseteq Id
          /\ pass' \notin Grouped => todo' \subseteq Series
      BY <2>1, ItemsType
    <2> QED BY <2>1, <2>3 DEF ItemsAreOfThePass, AtRest,
      LookedUpIsMissing, CallIsOfThePass
  <1>6. ASSUME AniListFails \/ JikanFails PROVE Goal
    BY <1>6, Constants DEF AniListFails, JikanFails, Asking, ItemsAreOfThePass,
      AtRest, LookedUpIsMissing, CallIsOfThePass
  <1>7. ASSUME CallFails \/ TvdbIdAnswers \/ DropItem PROVE Goal
    BY <1>7, Constants DEF CallFails, TvdbIdAnswers, DropItem, Done, Asking,
      ItemsAreOfThePass, AtRest, LookedUpIsMissing, CallIsOfThePass
  <1>8. ASSUME Tick \/ TimeUp PROVE Goal
    BY <1>8 DEF Tick, TimeUp, ItemsAreOfThePass, AtRest, LookedUpIsMissing,
      CallIsOfThePass
  <1>9. ASSUME Publish \/ Save \/ SaveFails \/ Die PROVE Goal
    <2>1. pass' \in {"idle", "saving"} /\ at' = None /\ todo' \subseteq Series
      <3>1. ASSUME pass = "saving" PROVE at = None /\ todo \subseteq Series
        BY <3>1, PassOrder DEF AtRest, Pass, ItemsAreOfThePass, Grouped
      <3> QED BY <1>9, <3>1 DEF Publish, Save, SaveFails, Die, Done
    <2> QED BY <2>1 DEF ItemsAreOfThePass, AtRest, LookedUpIsMissing, CallIsOfThePass,
      Grouped
  <1> QED BY <1>1, <1>2, <1>3, <1>4, <1>5, <1>6, <1>7, <1>8, <1>9 DEF Next, Adds

-----------------------------------------------------------------------------
(* Nothing is taken, no answer is asked for twice *)

LEMMA StepKeeps ==
  ASSUME Inv, TypeOK', Next PROVE CopyKeeps'
  <1> USE DEF Inv
  <1>r. \A s \in Series : /\ db[s] \in Row /\ mem[s] \in Row /\ cache[s] \in Row
                          /\ cache'[s] \in Row
    BY DEF TypeOK
  <1>1. ASSUME Adds PROVE CopyKeeps'
    <2>1. UNCHANGED <<db, mem, pass, unread, refreshed>> /\ Grows
      BY <1>1, AddsGrow, AddsFrame
    <2>2. ASSUME pass \in Pass, NEW s \in Series \ refreshed
          PROVE  /\ Filled(mem[s], cache'[s])
                 /\ Keeps(IF unread THEN mem[s] ELSE db[s], cache'[s])
      <3>1. /\ Filled(mem[s], cache[s])
            /\ Keeps(IF unread THEN mem[s] ELSE db[s], cache[s])
        BY <2>2 DEF CopyKeeps
      <3>2. Keeps(cache[s], cache'[s]) /\ Filled(cache[s], cache'[s])
        BY <2>1 DEF Grows, Keeps
      <3>3. Filled(mem[s], cache'[s])
        BY <1>r, <3>1, <3>2, KeepsOn
      <3>4. CASE unread
        BY <1>r, <3>1, <3>2, <3>3, <3>4, KeepsOn
      <3>5. CASE ~unread
        BY <1>r, <3>1, <3>2, <3>3, <3>5, KeepsOn
      <3> QED BY <3>4, <3>5
    <2> QED BY <2>1, <2>2 DEF CopyKeeps, Keeps, Filled
  <1>2. ASSUME AniListAnswers PROVE CopyKeeps'
    <2>1. /\ UNCHANGED <<db, mem, unread>>
          /\ pass = "anilist" /\ refreshed' = refreshed \cup {at}
          /\ \A s \in Series : s # at => cache'[s] = cache[s]
      BY <1>2, AniListType DEF AniListAnswers, Asking
    <2>2. pass \in Pass
      BY <2>1, PassOrder DEF Pass
    <2>3. ASSUME NEW s \in Series \ refreshed'
          PROVE  /\ Filled(mem'[s], cache'[s])
                 /\ Keeps(IF unread' THEN mem'[s] ELSE db'[s], cache'[s])
      <3>1. /\ s \in Series \ refreshed /\ s # at
        BY <2>1
      <3> QED BY <2>1, <2>2, <3>1 DEF CopyKeeps
    <2> QED BY <2>3 DEF CopyKeeps, Keeps, Filled
  <1>3. ASSUME Begin PROVE CopyKeeps'
    <2>1. UNCHANGED <<db, mem>>
      BY <1>3 DEF Begin
    <2>2. ASSUME NEW s \in Series
          PROVE  /\ Filled(mem[s], cache'[s])
                 /\ Keeps(IF unread' THEN mem[s] ELSE db[s], cache'[s])
      <3>1. CASE /\ cache' = [t \in Series |-> MergeAniListEnrichment(db[t], mem[t])]
                 /\ unread' = FALSE
        BY <1>r, <3>1, MergeKeeps
      <3>2. CASE cache' = mem /\ unread' = TRUE
        BY <1>r, <3>2, KeepsSame
      <3> QED BY <1>3, <3>1, <3>2 DEF Begin
    <2> QED BY <2>1, <2>2 DEF CopyKeeps, Keeps, Filled
  <1>4. ASSUME Waits PROVE CopyKeeps'
    <2>1. UNCHANGED <<db, mem, cache, unread, refreshed>>
      BY <1>4 DEF Waits, Ask, NextPass, AniListFails, JikanFails, CallFails,
        TvdbIdAnswers, DropItem, TimeUp, Tick, story
    <2>2. pass' \in Pass => pass \in Pass
      BY <1>4 DEF Waits, Ask, NextPass, AniListFails, JikanFails, CallFails,
        TvdbIdAnswers, DropItem, TimeUp, Tick, Pass
    <2> QED BY <2>1, <2>2 DEF CopyKeeps, Keeps, Filled
  <1>5. ASSUME Publish \/ Save \/ SaveFails \/ Die PROVE CopyKeeps'
    <2>1. pass' \notin Pass
      BY <1>5, PassOrder DEF Publish, Save, SaveFails, Die, Pass
    <2> QED BY <2>1 DEF CopyKeeps
  <1> QED BY <1>1, <1>2, <1>3, <1>4, <1>5 DEF Next, Adds, Waits

LEMMA StepStamps ==
  ASSUME Inv, TypeOK', Next PROVE RestedIsStamped'
  <1> USE DEF Inv
  <1>r. \A s \in Series : /\ db[s] \in Row /\ mem[s] \in Row /\ cache[s] \in Row
                          /\ cache'[s] \in Row /\ mem'[s] \in Row
    BY DEF TypeOK
  <1>t. \A r \in Row : r.stamp \in Nat
    BY RowFields
  <1>n. since \in Nat /\ \A a \in Id : rested[a] \in Nat /\ a # None
    BY Constants DEF TypeOK
  <1>1. ASSUME Adds, ~AniDBLists PROVE RestedIsStamped'
    <2>1. UNCHANGED <<rested, unsaved, db, mem, pass>> /\ Grows
      BY <1>1, AddsGrow, AddsFrame
    <2>2. \A s \in Series : /\ cache[s].stamp <= cache'[s].stamp
                            /\ cache'[s].ids["aid"] = cache[s].ids["aid"]
      BY <2>1 DEF Grows, Keeps, Filled
    <2>3. ASSUME pass \in Pass, NEW a \in Id, NEW s \in Series,
                 rested[a] # 0, cache'[s].ids["aid"] = a
          PROVE  rested[a] <= cache'[s].stamp
      <3>1. rested[a] <= cache[s].stamp
        BY <2>2, <2>3 DEF RestedIsStamped, Stamped
      <3> QED BY <1>r, <1>t, <1>n, <2>2, <3>1
    <2> QED BY <2>1, <2>3 DEF RestedIsStamped, Stamped
  <1>2. ASSUME AniDBLists PROVE RestedIsStamped'
    <2>1. /\ at \in Id /\ pass = "anidb" /\ pass' = pass /\ UNCHANGED <<db, mem>>
          /\ rested' = [rested EXCEPT ![at] = since] /\ unsaved' = unsaved \cup {at}
      BY <1>2, Constants DEF AniDBLists, Asking, ItemsAreOfThePass, Grouped
    <2>2. PICK got \in {{}, AniDBList[at]} :
            Fill(Sharing("aid", at), [FromList(got, FALSE) EXCEPT !.stamp = since])
      BY <1>2 DEF AniDBLists, AniDBAnswers
    <2> DEFINE add == [FromList(got, FALSE) EXCEPT !.stamp = since]
    <2>3. add \in Row /\ add.stamp = since
      BY <2>1, <2>2, Constants, ListTypes
    <2>f. Fill(Sharing("aid", at), add)
      BY <2>2
    <2> HIDE DEF add
    <2>4. \A s \in Sharing("aid", at) : since <= cache'[s].stamp
      <3>1. cache \in [Series -> Row] /\ Sharing("aid", at) \subseteq Series
        BY DEF TypeOK, Sharing
      <3>2. \A s \in Series : s \in Sharing("aid", at) => Filled(add, cache'[s])
        BY <2>3, <2>f, <3>1, FillKeeps
      <3> QED BY <2>3, <3>1, <3>2 DEF Filled
    <2>5. \A s \in Series : /\ cache[s].stamp <= cache'[s].stamp
                            /\ cache'[s].ids["aid"] = cache[s].ids["aid"]
      BY <1>2, AddsGrow DEF Grows, Keeps, Filled, Adds
    <2>6. pass \in Pass
      BY <2>1, PassOrder DEF Pass
    <2>7. ASSUME NEW a \in Id, NEW s \in Series, rested'[a] # 0, cache'[s].ids["aid"] = a
          PROVE  rested'[a] <= cache'[s].stamp
      <3>1. CASE a = at
        BY <2>1, <2>4, <2>5, <2>7, <3>1 DEF Sharing, TypeOK
      <3>2. CASE a # at
        <4>1. rested'[a] = rested[a]
          BY <2>1, <3>2 DEF TypeOK
        <4>2. rested[a] <= cache[s].stamp
          BY <2>5, <2>6, <2>7, <4>1 DEF RestedIsStamped, Stamped
        <4> QED BY <1>r, <1>t, <1>n, <2>5, <4>1, <4>2
      <3> QED BY <3>1, <3>2
    <2>8. \A a \in Id \ unsaved' : a \in Id \ unsaved /\ rested'[a] = rested[a]
      BY <2>1 DEF TypeOK
    <2> QED BY <2>1, <2>6, <2>7, <2>8 DEF RestedIsStamped, Stamped
  <1>3. ASSUME AniListAnswers PROVE RestedIsStamped'
    <2>1. PICK d \in Details :
           /\ at \in Series
           /\ \A s \in Series :
                cache'[s] = IF s = at THEN FromAniList(d, now) ELSE cache[s]
           /\ FromAniList(d, now).ids["aid"] = d.aid
           /\ rested' = IF d.aid = None THEN rested ELSE [rested EXCEPT ![d.aid] = 0]
      BY <1>3, AniListType
    <2>2. UNCHANGED <<db, unsaved, pass>> /\ pass \in Pass
      BY <1>3, PassOrder DEF AniListAnswers, Asking, Pass
    <2>3. \A a \in Id : rested'[a] # 0 => rested'[a] = rested[a] /\ d.aid # a
      BY <1>n, <2>1 DEF TypeOK
    <2>4. ASSUME NEW a \in Id, NEW s \in Series, rested'[a] # 0, cache'[s].ids["aid"] = a
          PROVE  rested'[a] <= cache'[s].stamp
      <3>1. s # at
        BY <2>1, <2>3, <2>4
      <3> QED BY <2>1, <2>2, <2>3, <2>4, <3>1 DEF RestedIsStamped, Stamped
    <2> QED BY <2>2, <2>3, <2>4 DEF RestedIsStamped, Stamped
  <1>4. ASSUME Waits PROVE RestedIsStamped'
    <2>1. UNCHANGED <<db, mem, cache, rested, unsaved>>
      BY <1>4 DEF Waits, Ask, NextPass, AniListFails, JikanFails, CallFails,
        TvdbIdAnswers, DropItem, TimeUp, Tick, story
    <2>2. pass' \in Pass <=> pass \in Pass
      BY <1>4, NextPassIsPass DEF Waits, Ask, NextPass, AniListFails, JikanFails,
        CallFails, TvdbIdAnswers, DropItem, TimeUp, Tick, Pass
    <2> QED BY <2>1, <2>2 DEF RestedIsStamped, Stamped
  <1>5. ASSUME Begin PROVE RestedIsStamped'
    <2>1. pass \notin Pass /\ pass' \in Pass /\ UNCHANGED <<db, unsaved>>
      BY <1>5, PassOrder DEF Begin, Pass
    <2>2. ASSUME /\ cache' = [s \in Series |-> MergeAniListEnrichment(db[s], mem[s])]
                 /\ rested' = [a \in Id |-> IF a \in unsaved /\ Reverts(a) THEN 0
                                            ELSE rested[a]]
          PROVE  RestedIsStamped'
      <3>1. \A a \in Id : rested'[a] # 0 => /\ rested'[a] = rested[a]
                                            /\ a \in unsaved => ~Reverts(a)
        BY <2>2
      <3>2. ASSUME NEW a \in Id, NEW s \in Series, rested'[a] # 0,
                   cache'[s].ids["aid"] = a
            PROVE  rested'[a] <= cache'[s].stamp
        <4>1. /\ a = IF db[s].ids["aid"] = None THEN mem[s].ids["aid"] ELSE db[s].ids["aid"]
              /\ db[s].stamp <= cache'[s].stamp /\ mem[s].stamp <= cache'[s].stamp
          BY <1>r, <2>2, <3>2, MergeKeeps DEF Keeps, Filled, IdKind
        <4>2. CASE mem[s].ids["aid"] = a
          <5>1. rested[a] <= mem[s].stamp
            BY <2>1, <3>1, <3>2, <4>2 DEF RestedIsStamped, Stamped
          <5> QED BY <1>r, <1>t, <1>n, <3>1, <3>2, <4>1, <5>1
        <4>3. CASE mem[s].ids["aid"] # a
          <5>1. db[s].ids["aid"] = a /\ a \notin unsaved
            BY <3>1, <3>2, <4>1, <4>3 DEF Reverts
          <5>2. rested[a] <= db[s].stamp
            BY <3>1, <3>2, <5>1 DEF RestedIsStamped, Stamped
          <5> QED BY <1>r, <1>t, <1>n, <3>1, <3>2, <4>1, <5>2
        <4> QED BY <4>2, <4>3
      <3> QED BY <2>1, <3>1, <3>2 DEF RestedIsStamped, Stamped
    <2>3. ASSUME cache' = mem, rested' = rested PROVE RestedIsStamped'
      BY <2>1, <2>3 DEF RestedIsStamped, Stamped
    <2> QED BY <1>5, <2>2, <2>3 DEF Begin
  <1>6. ASSUME Publish PROVE RestedIsStamped'
    <2>1. /\ pass \in Pass /\ pass' = "saving" /\ UNCHANGED <<db, rested, unsaved>>
      BY <1>6 DEF Publish
    <2>2. pass' \notin Pass
      BY <2>1, PassOrder DEF Pass
    <2>3. PICK home \in Homes : mem' = Merged(home)
      BY <1>6 DEF Publish
    <2>4. ASSUME NEW a \in Id, NEW s \in Series, rested[a] # 0, mem'[s].ids["aid"] = a
          PROVE  rested[a] <= mem'[s].stamp
      <3>1. mem'[s] = MergedRow(Twins(s))
        <4>1. mem'[s] = IF home[s] = s THEN MergedRow(Twins(s)) ELSE Blank
          BY <2>3 DEF Merged
        <4>2. Blank.ids["aid"] # a
          BY <1>n DEF Blank, IdKind
        <4> QED BY <2>4, <4>1, <4>2
      <3>2. cache \in [Series -> Row] /\ "aid" \in IdKind
        BY DEF TypeOK, IdKind
      <3>3. PICK t \in Twins(s) : cache[t].ids["aid"] = a
        BY <1>n, <2>4, <3>1, <3>2, TwinsOf, MergedFills
      <3>4. t \in Series /\ cache[t].stamp <= mem'[s].stamp
        BY <3>1, <3>2, TwinsOf, MergedFills DEF Filled
      <3>5. rested[a] <= cache[t].stamp
        BY <2>1, <2>4, <3>3, <3>4 DEF RestedIsStamped, Stamped
      <3> QED BY <1>r, <1>t, <1>n, <3>4, <3>5
    <2> QED BY <2>1, <2>2, <2>4 DEF RestedIsStamped, Stamped
  <1>7. ASSUME Save PROVE RestedIsStamped'
    <2>1. /\ pass \notin Pass /\ pass' \notin Pass /\ UNCHANGED <<mem, rested>>
          /\ db' = [s \in Series |-> AsLoaded(mem[s])]
      BY <1>7, PassOrder DEF Save, Pass
    <2>2. \A r \in Row : AsLoaded(r).ids = r.ids /\ AsLoaded(r).stamp = r.stamp
      BY DEF AsLoaded, Row
    <2>3. \A s \in Series : db'[s].ids = mem[s].ids /\ db'[s].stamp = mem[s].stamp
      BY <1>r, <2>1, <2>2
    <2> QED BY <2>1, <2>3 DEF RestedIsStamped, Stamped
  <1>8. ASSUME SaveFails PROVE RestedIsStamped'
    <2>1. /\ pass \notin Pass /\ pass' \notin Pass
          /\ UNCHANGED <<db, mem, rested, unsaved>>
      BY <1>8, PassOrder DEF SaveFails, Pass, story
    <2> QED BY <2>1 DEF RestedIsStamped, Stamped
  <1>9. ASSUME Die PROVE RestedIsStamped'
    <2>1. /\ pass' \notin Pass /\ db' = db /\ unsaved' = {} /\ mem' \in {db, NoRows}
          /\ rested' = [a \in Id |-> IF a \in unsaved THEN 0 ELSE rested[a]]
      BY <1>9, PassOrder DEF Die, Pass
    <2>2. \A a \in Id : rested'[a] # 0 => a \in Id \ unsaved /\ rested'[a] = rested[a]
      BY <2>1
    <2>3. \A a \in Id, s \in Series : rested'[a] # 0 /\ db[s].ids["aid"] = a =>
            rested'[a] <= db[s].stamp
      BY <2>2 DEF RestedIsStamped, Stamped
    <2>4. \A a \in Id, s \in Series : NoRows[s].ids["aid"] # a
      BY <1>n DEF NoRows, Blank, IdKind
    <2> QED BY <2>1, <2>3, <2>4 DEF RestedIsStamped, Stamped
  <1> QED BY <1>1, <1>2, <1>3, <1>4, <1>5, <1>6, <1>7, <1>8, <1>9 DEF Next, Adds, Waits

-----------------------------------------------------------------------------
(* Lists *)

LEMMA StayListed ==
  ASSUME Inv, Grows \/ cache' = cache, pass' = pass,
         ~missed' => ~missed, ~late' => ~late,
         pass \in {"kitsuTitles", "malTitles"} =>
           (todo \cup {at}) \ {None} \subseteq todo' \cup {at'}
  PROVE  KitsuIsListed' /\ MalIsListed'
  <1> DEFINE Lists == {"kitsuTitles", "malTitles", "anidb", "tvdb", "translate"}
  <1>1. ASSUME pass \in Lists, NEW s \in Series
        PROVE  /\ cache'[s].ids["kitsu"] = cache[s].ids["kitsu"]
               /\ cache'[s].ids["mal"] = cache[s].ids["mal"]
               /\ cache[s].titles \subseteq cache'[s].titles
    BY <1>1 DEF Grows, Grouped, Keeps, Filled
  <1>2. ASSUME "kitsu" \in Clients, ~missed', ~late', NEW s \in Series,
               cache'[s].ids["kitsu"] # None, pass' \in Lists,
               pass' = "kitsuTitles" =>
                 cache'[s].ids["kitsu"] \notin todo' /\ cache'[s].ids["kitsu"] # at'
        PROVE  KitsuList[cache'[s].ids["kitsu"]].titles \subseteq cache'[s].titles
    BY <1>1, <1>2 DEF Inv, KitsuIsListed
  <1>3. ASSUME "jikan" \in Clients, ~missed', ~late', NEW s \in Series,
               cache'[s].ids["mal"] # None,
               pass' \in {"malTitles", "anidb", "tvdb", "translate"},
               pass' = "malTitles" =>
                 cache'[s].ids["mal"] \notin todo' /\ cache'[s].ids["mal"] # at'
        PROVE  MalList[cache'[s].ids["mal"]] \subseteq cache'[s].titles
    BY <1>1, <1>3 DEF Inv, MalIsListed
  <1>4. KitsuIsListed'
    BY <1>2 DEF KitsuIsListed
  <1>5. MalIsListed'
    BY <1>3 DEF MalIsListed
  <1> QED BY <1>4, <1>5

\* An answer fills every row that has the id.
LEMMA AnswerLists ==
  ASSUME Inv
  PROVE  /\ KitsuLists => KitsuIsListed' /\ MalIsListed'
         /\ MalLists => KitsuIsListed' /\ MalIsListed'
  <1> USE DEF Inv
  <1>c. cache \in [Series -> Row]
    BY DEF TypeOK
  <1>1. ASSUME KitsuLists PROVE KitsuIsListed' /\ MalIsListed'
    <2>1. /\ at \in Id /\ pass = "kitsuTitles" /\ at' = None
          /\ UNCHANGED <<pass, todo, late, missed>>
      BY <1>1, Constants DEF KitsuLists, Asking, Done, ItemsAreOfThePass, Grouped, story
    <2>2. Grows
      BY <1>1, AddsGrow DEF Adds
    <2> DEFINE add == KitsuRow(KitsuList[at])
    <2>3. add \in Row /\ add.titles = KitsuList[at].titles
      BY <2>1, KitsuRowType
    <2>4. Fill(Sharing("kitsu", at), add)
      BY <1>1 DEF KitsuLists, KitsuRow
    <2> HIDE DEF add
    <2>5. \A s \in Series : cache[s].ids["kitsu"] = at =>
            KitsuList[at].titles \subseteq cache'[s].titles
      BY <1>c, <2>3, <2>4, FillKeeps DEF Sharing, Filled
    <2>6. ASSUME "kitsu" \in Clients, ~missed', ~late', NEW s \in Series,
                 cache'[s].ids["kitsu"] # None, cache'[s].ids["kitsu"] \notin todo'
          PROVE  KitsuList[cache'[s].ids["kitsu"]].titles \subseteq cache'[s].titles
      <3>1. /\ cache'[s].ids["kitsu"] = cache[s].ids["kitsu"]
            /\ cache[s].titles \subseteq cache'[s].titles
        BY <2>1, <2>2 DEF Grows, Keeps, Filled, Grouped
      <3>2. CASE cache[s].ids["kitsu"] = at
        BY <2>5, <3>1, <3>2
      <3>3. CASE cache[s].ids["kitsu"] # at
        BY <2>1, <2>6, <3>1, <3>3 DEF KitsuIsListed
      <3> QED BY <3>2, <3>3
    <2> QED BY <2>1, <2>6 DEF KitsuIsListed, MalIsListed
  <1>2. ASSUME MalLists PROVE KitsuIsListed' /\ MalIsListed'
    <2>1. /\ at \in Id /\ pass = "malTitles" /\ at' = None
          /\ UNCHANGED <<pass, todo, late>>
      BY <1>2, Constants DEF MalLists, Asking, Done, ItemsAreOfThePass, Grouped
    <2>2. Grows
      BY <1>2, AddsGrow DEF Adds
    <2>3. PICK got \in SUBSET MalList[at] :
            /\ Fill(Sharing("mal", at), FromList(got, FALSE))
            /\ missed' = (missed \/ got # MalList[at])
      BY <1>2 DEF MalLists, MalAnswers
    <2> DEFINE add == FromList(got, FALSE)
    <2>4. add \in Row /\ add.titles = got
      BY <2>1, <2>3, Constants, ListAdds
    <2>5. Fill(Sharing("mal", at), add)
      BY <2>3
    <2> HIDE DEF add
    <2>6. \A s \in Series : cache[s].ids["mal"] = at => got \subseteq cache'[s].titles
      BY <1>c, <2>4, <2>5, FillKeeps DEF Sharing, Filled
    <2>7. \A s \in Series : /\ cache'[s].ids["mal"] = cache[s].ids["mal"]
                            /\ cache'[s].ids["kitsu"] = cache[s].ids["kitsu"]
                            /\ cache[s].titles \subseteq cache'[s].titles
      BY <2>1, <2>2 DEF Grows, Keeps, Filled, Grouped
    <2>8. ASSUME "jikan" \in Clients, ~missed', ~late', NEW s \in Series,
                 cache'[s].ids["mal"] # None, cache'[s].ids["mal"] \notin todo'
          PROVE  MalList[cache'[s].ids["mal"]] \subseteq cache'[s].titles
      <3>1. CASE cache[s].ids["mal"] = at
        BY <2>3, <2>6, <2>7, <2>8, <3>1
      <3>2. CASE cache[s].ids["mal"] # at
        BY <2>1, <2>3, <2>7, <2>8, <3>2 DEF MalIsListed
      <3> QED BY <3>1, <3>2
    <2>9. ASSUME "kitsu" \in Clients, ~missed', ~late', NEW s \in Series,
                 cache'[s].ids["kitsu"] # None
          PROVE  KitsuList[cache'[s].ids["kitsu"]].titles \subseteq cache'[s].titles
      BY <2>1, <2>3, <2>7, <2>9 DEF KitsuIsListed
    <2> QED BY <2>1, <2>8, <2>9 DEF KitsuIsListed, MalIsListed
  <1> QED BY <1>1, <1>2

LEMMA StepLists ==
  ASSUME Inv, Next PROVE KitsuIsListed' /\ MalIsListed'
  <1> USE DEF Inv
  <1> DEFINE Goal == KitsuIsListed' /\ MalIsListed'
             Early == {"anilist", "jikan", "kitsu", "ids", "saving", "idle"}
  <1>e. ASSUME pass' \in Early PROVE Goal
    BY <1>e DEF KitsuIsListed, MalIsListed
  <1>1. ASSUME AniListAnswers \/ Begin \/ AniListFails \/ JikanAnswers \/ JikanFails
               \/ KitsuAnswers \/ IdAnswers \/ Publish \/ Save \/ SaveFails \/ Die
        PROVE  Goal
    <2>1. pass' \in Early
      BY <1>1 DEF AniListAnswers, Begin, AniListFails, JikanAnswers, JikanFails,
        KitsuAnswers, IdAnswers, Publish, Save, SaveFails, Die, Asking, CallIsOfThePass
    <2> QED BY <1>e, <2>1
  <1>2. ASSUME AniDBLists \/ TvdbLists \/ TranslateTitles PROVE Goal
    <2>1. Grows
      BY <1>2, AddsGrow DEF Adds
    <2>2. pass \notin {"kitsuTitles", "malTitles"} /\ UNCHANGED <<pass, missed, late>>
      BY <1>2 DEF AniDBLists, TvdbLists, TranslateTitles, Asking, story
    <2> QED BY <2>1, <2>2, StayListed
  <1>3. ASSUME TvdbIdAnswers \/ DropItem PROVE Goal
    <2>1. /\ pass \notin {"kitsuTitles", "malTitles"}
          /\ UNCHANGED <<pass, missed, late, cache>>
      BY <1>3 DEF TvdbIdAnswers, DropItem, Asking, story
    <2> QED BY <2>1, StayListed
  <1>4. ASSUME Tick \/ TimeUp PROVE Goal
    <2>1. UNCHANGED <<pass, missed, cache, todo, at>> /\ (~late' => ~late)
      BY <1>4 DEF Tick, TimeUp, story
    <2> QED BY <2>1, StayListed
  <1>5. ASSUME CallFails PROVE Goal
    <2>1. UNCHANGED <<pass, cache, late>>
          /\ missed' = (missed \/ pass \in {"kitsuTitles", "malTitles"})
      BY <1>5 DEF CallFails
    <2>2. CASE pass \in {"kitsuTitles", "malTitles"}
      BY <2>1, <2>2 DEF KitsuIsListed, MalIsListed
    <2>3. CASE pass \notin {"kitsuTitles", "malTitles"}
      BY <2>1, <2>3, StayListed
    <2> QED BY <2>2, <2>3
  <1>6. ASSUME Ask PROVE Goal
    <2>1. /\ at = None /\ UNCHANGED <<pass, missed, late, cache>>
          /\ todo \subseteq Nat
      BY <1>6, Constants DEF Ask, TypeOK, story
    <2>2. PICK x \in todo : /\ First({y \in todo : Due(y)}, x)
                           /\ at' = x /\ todo' = {y \in todo : y > x}
      BY <1>6 DEF Ask
    <2>3. Due(x)
      BY <2>2 DEF First
    <2>4. pass \in {"kitsuTitles", "malTitles"} => \A y \in todo : Due(y)
      BY <2>3 DEF Due
    <2>5. pass \in {"kitsuTitles", "malTitles"} => \A y \in todo : y = x \/ y > x
      BY <2>1, <2>2, <2>4 DEF First
    <2>6. pass \in {"kitsuTitles", "malTitles"} => todo \subseteq todo' \cup {at'}
      BY <2>2, <2>5
    <2> QED BY <2>1, <2>6, StayListed
  <1>7. ASSUME NextPass PROVE Goal
    <2>1. /\ pass \in DOMAIN After /\ at = None /\ pass' = After[pass]
          /\ todo' = ItemsOf(After[pass]) /\ \A y \in todo : ~Due(y)
          /\ UNCHANGED <<cache, missed, late>>
      BY <1>7 DEF NextPass, story
    <2>2. CASE pass \in {"anilist", "jikan", "kitsu"}
      <3>1. pass' \in Early
        BY <2>1, <2>2, PassOrder
      <3> QED BY <1>e, <3>1
    <2>3. CASE pass = "ids"
      <3>1. pass' = "kitsuTitles" /\ todo' = {cache[s].ids["kitsu"] : s \in Series} \ {None}
        BY <2>1, <2>3, PassOrder DEF ItemsOf, Grouped
      <3> QED BY <2>1, <3>1 DEF KitsuIsListed, MalIsListed
    <2>4. CASE pass = "kitsuTitles"
      <3>1. pass' = "malTitles" /\ todo' = {cache[s].ids["mal"] : s \in Series} \ {None}
        BY <2>1, <2>4, PassOrder DEF ItemsOf, Grouped
      <3>2. "kitsu" \in Clients => todo = {}
        BY <2>1, <2>4 DEF Due, UsedBy
      <3>3. KitsuIsListed'
        BY <2>1, <2>4, <3>1, <3>2 DEF KitsuIsListed
      <3>4. MalIsListed'
        BY <2>1, <3>1 DEF MalIsListed
      <3> QED BY <3>3, <3>4
    <2>5. CASE pass = "malTitles"
      <3>1. pass' = "anidb"
        BY <2>1, <2>5, PassOrder
      <3>2. "jikan" \in Clients => todo = {}
        BY <2>1, <2>5 DEF Due, UsedBy
      <3>3. KitsuIsListed'
        BY <2>1, <2>5, <3>1 DEF KitsuIsListed
      <3>4. MalIsListed'
        BY <2>1, <2>5, <3>1, <3>2 DEF MalIsListed
      <3> QED BY <3>3, <3>4
    <2>6. CASE pass \in {"anidb", "tvdb"}
      <3>1. pass' \in {"tvdb", "translate"}
        BY <2>1, <2>6, PassOrder
      <3>2. KitsuIsListed'
        BY <2>1, <2>6, <3>1 DEF KitsuIsListed
      <3>3. MalIsListed'
        BY <2>1, <2>6, <3>1 DEF MalIsListed
      <3> QED BY <3>2, <3>3
    <2> QED BY <2>1, <2>2, <2>3, <2>4, <2>5, <2>6, PassOrder
  <1> QED BY <1>1, <1>2, <1>3, <1>4, <1>5, <1>6, <1>7, AnswerLists DEF Next

-----------------------------------------------------------------------------
(* Theorems *)

LEMMA InitInv == Init => Inv
  <1> SUFFICES ASSUME Init PROVE Inv
    OBVIOUS
  <1>1. 1 \in 1..MaxTime /\ 0 \in 0..MaxTime /\ 0 \in 0..MaxFaults
    BY Constants, TimeAssumption
  <1>2. NoRows \in [Series -> Row]
    BY BlankType DEF NoRows
  <1>3. TypeOK
    BY <1>1, <1>2 DEF Init, TypeOK
  <1>4. pass = "idle" /\ pass \notin Pass
    BY PassOrder DEF Init, Pass
  <1>5. ItemsAreOfThePass /\ AtRest /\ LookedUpIsMissing /\ CallIsOfThePass
    BY DEF Init, ItemsAreOfThePass, AtRest, LookedUpIsMissing, CallIsOfThePass, Grouped
  <1>6. CopyKeeps /\ RestedIsStamped /\ KitsuIsListed /\ MalIsListed
    BY <1>4 DEF Init, CopyKeeps, RestedIsStamped, Stamped, KitsuIsListed, MalIsListed
  <1> QED BY <1>3, <1>5, <1>6 DEF Inv

LEMMA NextInv == Inv /\ [Next]_vars => Inv'
  <1> SUFFICES ASSUME Inv, [Next]_vars PROVE Inv'
    OBVIOUS
  <1>1. ASSUME Next PROVE Inv'
    <2>1. TypeOK'
      BY <1>1, StepType
    <2> QED BY <1>1, <2>1, StepPlaces, StepKeeps, StepStamps, StepLists DEF Inv
  <1>2. ASSUME UNCHANGED vars PROVE Inv'
    <2>1. TypeOK' /\ ItemsAreOfThePass' /\ AtRest' /\ LookedUpIsMissing' /\ CallIsOfThePass'
      BY <1>2 DEF vars, story, Inv, TypeOK, ItemsAreOfThePass, AtRest, LookedUpIsMissing,
        CallIsOfThePass
    <2>2. CopyKeeps' /\ RestedIsStamped'
      BY <1>2 DEF vars, story, Inv, CopyKeeps, Keeps, Filled, RestedIsStamped, Stamped
    <2>3. KitsuIsListed' /\ MalIsListed'
      BY <1>2 DEF vars, story, Inv, KitsuIsListed, MalIsListed
    <2> QED BY <2>1, <2>2, <2>3 DEF Inv
  <1> QED BY <1>1, <1>2

\* The invariant holds in every state that syncs, services and restarts lead to.
THEOREM InvCorrect == Spec => []Inv
  BY InitInv, NextInv, PTL DEF Spec

\* Rows, items and calls have their types (rss_sync_enrich.go:17).
THEOREM TypeCorrect == Spec => []TypeOK
  <1>1. Inv => TypeOK
    BY DEF Inv
  <1> QED BY <1>1, InvCorrect, PTL

\* The row of a series is, in what a sync publishes, in the row of one of its
\* twins, which then holds what the copy had for all of them.
LEMMA HomeOf ==
  ASSUME TypeOK, NEW home \in Homes, mem' = Merged(home), NEW s \in Series
  PROVE  /\ home[s] \in Twins(s)
         /\ Filled(cache[s], mem'[home[s]])
         /\ Twins(s) = {s} => mem'[s] = cache[s]
  <1> DEFINE c == home[s]
  <1>1. /\ c \in Twins(s) /\ c \in Series /\ \A t \in Twins(s) : home[t] = c
    BY TwinsOf DEF Homes
  <1> HIDE DEF c
  <1>2. Twins(c) = Twins(s)
    BY <1>1 DEF Twins, Sharing
  <1>3. mem'[c] = MergedRow(Twins(s))
    BY <1>1, <1>2 DEF Merged
  <1>4. Filled(cache[s], mem'[c])
    BY <1>3, TwinsOf, MergedFills DEF TypeOK
  <1>5. Twins(s) = {s} => mem'[s] = cache[s]
    BY <1>1, <1>3, MergedAlone DEF TypeOK
  <1> QED BY <1>1, <1>4, <1>5 DEF c

\* What a sync publishes is filled where memory and the database were when it
\* began, through every failing load, save and call, the time limit and the merge
\* of twins (rss_sync_service.go:198-279); only an answer of AniList empties a row
\* (rss_sync_enrich.go:111).  For any series, services and answers.
THEOREM Kept == Spec => KeptUnlessRefreshed
  <1> DEFINE Step ==
        Publish => \A s \in Series \ refreshed :
          /\ \E c \in Twins(s) : /\ Filled(mem[s], mem'[c])
                                 /\ ~unread => Filled(db[s], mem'[c])
          /\ Twins(s) = {s} => Keeps(IF unread THEN mem[s] ELSE db[s], mem'[s])
  <1>1. ASSUME Inv, Inv', [Next]_vars PROVE [Step]_vars
    <2>1. SUFFICES ASSUME Publish, NEW s \in Series \ refreshed
                   PROVE  /\ \E c \in Twins(s) : /\ Filled(mem[s], mem'[c])
                                                 /\ ~unread => Filled(db[s], mem'[c])
                          /\ Twins(s) = {s} =>
                               Keeps(IF unread THEN mem[s] ELSE db[s], mem'[s])
      OBVIOUS
    <2>2. PICK home \in Homes : mem' = Merged(home)
      BY <2>1 DEF Publish
    <2>3. /\ Filled(mem[s], cache[s])
          /\ Keeps(IF unread THEN mem[s] ELSE db[s], cache[s])
      BY <1>1, <2>1 DEF Inv, CopyKeeps, Publish
    <2> DEFINE c == home[s]
    <2>4. /\ c \in Twins(s) /\ Filled(cache[s], mem'[c])
          /\ Twins(s) = {s} => mem'[s] = cache[s]
      BY <1>1, <2>1, <2>2, HomeOf DEF Inv
    <2> HIDE DEF c
    <2>5. c \in Series
      BY <2>4, TwinsOf
    <2>6. db[s] \in Row /\ mem[s] \in Row /\ cache[s] \in Row /\ mem'[c] \in Row
      BY <1>1, <2>5 DEF Inv, TypeOK
    <2>7. Filled(mem[s], mem'[c])
      BY <2>3, <2>4, <2>6, KeepsOn
    <2>8. ~unread => Filled(db[s], mem'[c])
      BY <2>3, <2>4, <2>6, KeepsOn DEF Keeps
    <2>9. Twins(s) = {s} => Keeps(IF unread THEN mem[s] ELSE db[s], mem'[s])
      BY <2>3, <2>4
    <2> QED BY <2>4, <2>7, <2>8, <2>9
  <1> QED BY <1>1, InvCorrect, PTL DEF Spec, KeptUnlessRefreshed

\* AniDB is not asked within 24 hours for an anime that it answered
\* (rss_sync_enrich.go:352) unless the answer is lost in one of the three ways that
\* NoRepeatWithinDay names, whatever saves, loads and services fail.
THEOREM NoRepeat == Spec => NoRepeatWithinDay
  <1> DEFINE Step == \A a \in Id :
                       pass = "anidb" /\ at = None /\ at' = a =>
                         rested[a] = 0 \/ since >= rested[a] + Day
  <1>1. ASSUME Inv, [Next]_vars PROVE [Step]_vars
    <2> USE <1>1 DEF Inv
    <2>1. SUFFICES ASSUME Next, NEW a \in Id, pass = "anidb", at = None, at' = a,
                          rested[a] # 0
                   PROVE  since >= rested[a] + Day
      OBVIOUS
    <2>2. a # None
      BY Constants
    <2>3. Ask
      BY <2>1, <2>2 DEF Next, Begin, NextPass, Publish, Save, SaveFails, AniListAnswers,
        AniListFails, JikanAnswers, JikanFails, KitsuAnswers, IdAnswers, CallFails,
        KitsuLists, MalLists, AniDBLists, TvdbIdAnswers, TvdbLists, TranslateTitles,
        DropItem, Tick, TimeUp, Die, Asking, Done
    <2>4. Due(a) /\ pass \in Pass
      BY <2>1, <2>3 DEF Ask, First
    <2>5. PICK s \in Sharing("aid", a) : \/ cache[s].stamp = 0
                                        \/ since >= cache[s].stamp + Day
      BY <2>1, <2>4 DEF Due
    <2>6. s \in Series /\ rested[a] <= cache[s].stamp
      BY <2>1, <2>4, <2>5 DEF Sharing, RestedIsStamped, Stamped
    <2>7. rested[a] \in Nat /\ since \in Nat /\ cache[s].stamp \in Nat
      <3>1. cache[s].stamp \in Nat
        BY <2>6, RowFields DEF TypeOK
      <3> QED BY <3>1, Constants DEF TypeOK
    <2> QED BY <2>1, <2>5, <2>6, <2>7, Constants
  <1> QED BY <1>1, InvCorrect, PTL DEF Spec, NoRepeatWithinDay

\* What a sync publishes holds the titles of the lists it got
\* (rss_sync_enrich.go:236 and 278), for any ids that series share, and also
\* where rows of several series were merged (catalog_merge_mal.go:80).
THEOREM FullLists == Spec => FullSyncsFillLists
  <1> DEFINE Step ==
        Publish /\ ~missed /\ ~late =>
          \A s \in Series :
            LET ids == mem'[s].ids
            IN  /\ "kitsu" \in Clients /\ ids["kitsu"] # None =>
                     KitsuList[ids["kitsu"]].titles \subseteq mem'[s].titles
                /\ "jikan" \in Clients /\ ids["mal"] # None =>
                     MalList[ids["mal"]] \subseteq mem'[s].titles
  <1>1. ASSUME Inv, [Next]_vars PROVE [Step]_vars
    <2>1. SUFFICES ASSUME Publish, ~missed, ~late PROVE Step
      OBVIOUS
    <2>2. pass = "translate"
      BY <2>1 DEF Publish
    <2>3. PICK home \in Homes : mem' = Merged(home)
      BY <2>1 DEF Publish
    <2>4. cache \in [Series -> Row]
      BY <1>1 DEF Inv, TypeOK
    <2>5. ASSUME NEW s \in Series, NEW k \in IdKind, mem'[s].ids[k] # None
          PROVE  \E t \in Series : /\ cache[t].ids[k] = mem'[s].ids[k]
                                   /\ cache[t].titles \subseteq mem'[s].titles
      <3>1. mem'[s] = MergedRow(Twins(s))
        <4>1. mem'[s] = IF home[s] = s THEN MergedRow(Twins(s)) ELSE Blank
          BY <2>3 DEF Merged
        <4>2. Blank.ids[k] = None
          BY DEF Blank
        <4> QED BY <2>5, <4>1, <4>2
      <3>2. PICK t \in Twins(s) : cache[t].ids[k] = mem'[s].ids[k]
        BY <2>4, <2>5, <3>1, TwinsOf, MergedFills
      <3>3. t \in Series /\ cache[t].titles \subseteq mem'[s].titles
        BY <2>4, <3>1, <3>2, TwinsOf, MergedFills DEF Filled
      <3> QED BY <3>2, <3>3
    <2>6. ASSUME NEW s \in Series, "kitsu" \in Clients, mem'[s].ids["kitsu"] # None
          PROVE  KitsuList[mem'[s].ids["kitsu"]].titles \subseteq mem'[s].titles
      <3>1. PICK t \in Series : /\ cache[t].ids["kitsu"] = mem'[s].ids["kitsu"]
                               /\ cache[t].titles \subseteq mem'[s].titles
        BY <2>5, <2>6 DEF IdKind
      <3>2. KitsuList[cache[t].ids["kitsu"]].titles \subseteq cache[t].titles
        BY <1>1, <2>1, <2>2, <2>6, <3>1 DEF Inv, KitsuIsListed
      <3> QED BY <3>1, <3>2
    <2>7. ASSUME NEW s \in Series, "jikan" \in Clients, mem'[s].ids["mal"] # None
          PROVE  MalList[mem'[s].ids["mal"]] \subseteq mem'[s].titles
      <3>1. PICK t \in Series : /\ cache[t].ids["mal"] = mem'[s].ids["mal"]
                               /\ cache[t].titles \subseteq mem'[s].titles
        BY <2>5, <2>7 DEF IdKind
      <3>2. MalList[cache[t].ids["mal"]] \subseteq cache[t].titles
        BY <1>1, <2>1, <2>2, <2>7, <3>1 DEF Inv, MalIsListed
      <3> QED BY <3>1, <3>2
    <2> QED BY <2>6, <2>7
  <1> QED BY <1>1, InvCorrect, PTL DEF Spec, FullSyncsFillLists

=============================================================================
