--------------------------- MODULE GoaiAuditProofs ---------------------------
(***************************************************************************)
(* Proofs of the safety properties of GoaiAudit for any catalog, answers   *)
(* and database.                                                           *)
(***************************************************************************)
EXTENDS GoaiAudit, TLAPS

(* The inductive invariant. *)

\* Nothing is owed to the series that GoAI is answering for.
AskedIsNotOwed == wpc = "asking series" => cur \notin owed

\* A settled release keeps its audit, and is neither asked about nor queued.
SettledIsStored == \A k \in settled : HasRow(k[1], k[2])
KeysAreOpen == \A e \in keys : <<cur, e>> \notin settled
KeysAreListed ==
  /\ keys # {} => wpc \in {"next release", "asking release"}
  /\ wpc = "asking release" => key \notin keys

\* A sync has a copy of every id in memory; none survives the process.
IdsAreCopied == spc # "idle" => mem.ids \subseteq copy
DownIsQuiet == wpc = "down" => spc = "idle"

Inv ==
  /\ OwedAuditsAreFlagged /\ AskedIsNotOwed
  /\ SettledIsStored /\ KeysAreOpen /\ KeysAreListed /\ AnsweredReleasesRest
  /\ IdsAreCopied /\ DownIsQuiet

----------------------------------------------------------------------------
(* Types *)

LEMMA Constants ==
  /\ EpisodeOf \in [Item -> Episode] /\ SeriesOf \in [Item -> Series]
  /\ \A i \in Item : EpisodeOf[i] \in Episode /\ SeriesOf[i] \in Series
  /\ \A t \in Item \cup {NoTitle} : Answers[t] \subseteq Episode
  /\ Known \subseteq Series /\ None \notin Series /\ NoTitle \notin Item
  /\ Feeds \subseteq SUBSET Item /\ OldRows \subseteq Row /\ Databases \subseteq BOOLEAN
  BY ItemAssumption, SeriesAssumption, EpisodeAssumption, AnswerAssumption

LEMMA InitType == Init => TypeOK
  <1> SUFFICES ASSUME Init PROVE TypeOK
    OBVIOUS
  <1>1. {r.series : r \in OldRows} \subseteq Series
    BY Constants DEF Row
  <1>2. items \in SUBSET Item
    BY DEF Init
  <1>3. mem \in Memory
    BY <1>2 DEF Init, Memory
  <1> QED BY <1>1, <1>2, <1>3, Constants DEF Init, TypeOK

LEMMA SyncLoadsType ==
  ASSUME TypeOK, SyncLoads PROVE TypeOK'
  BY Constants DEF TypeOK, SyncLoads, Memory, series, worker, asking, admin, history

LEMMA SyncFindsNoSourceType ==
  ASSUME TypeOK, SyncFindsNoSource PROVE TypeOK'
  BY Constants DEF TypeOK, SyncFindsNoSource, series, sync, asking, worker, admin, history

LEMMA SyncOverridesType ==
  ASSUME TypeOK, SyncOverrides PROVE TypeOK'
  BY Constants DEF TypeOK, SyncOverrides, Regroup, series, sync, asking, worker, admin, history

LEMMA SyncPublishesType ==
  ASSUME TypeOK, SyncPublishes PROVE TypeOK'
  BY Constants DEF TypeOK, SyncPublishes, ForgetSync, SaveCatalog, SeriesIn, Memory, series,
    sync, asking, worker, admin, history

LEMMA PageSavesType ==
  ASSUME TypeOK, PageSaves PROVE TypeOK'
  BY Constants DEF TypeOK, PageSaves, SaveCatalog, SeriesIn, Memory, series, sync, asking,
    worker, admin, history

LEMMA TickType ==
  ASSUME TypeOK, Tick PROVE TypeOK'
  BY Constants DEF TypeOK, Tick, GoTo, SeriesIn, series, sync, asking, worker, admin, history

LEMMA PassEndsType ==
  ASSUME TypeOK, PassEnds PROVE TypeOK'
  BY Constants DEF TypeOK, PassEnds, GoTo, series, sync, asking, worker, admin, history

LEMMA CheckSeriesType ==
  ASSUME TypeOK, CheckSeries PROVE TypeOK'
  BY Constants DEF TypeOK, CheckSeries, series, sync, asking, worker, admin, history

LEMMA SampleSeriesType ==
  ASSUME TypeOK, SampleSeries PROVE TypeOK'
  BY Constants DEF TypeOK, SampleSeries, series, sync, asking, worker, admin, history

LEMMA WriteIdType ==
  ASSUME TypeOK, WriteId PROVE TypeOK'
  BY Constants DEF TypeOK, WriteId, GoTo, series, sync, asking, worker, admin, history

LEMMA StoreSeriesType ==
  ASSUME TypeOK, NEW hasId \in SeriesAnswers, StoreSeries(hasId) PROVE TypeOK'
  BY Constants DEF TypeOK, StoreSeries, series, sync, asking, worker, admin, history

LEMMA ListReleasesType ==
  ASSUME TypeOK, ListReleases PROVE TypeOK'
  <1>1. {EpisodeOf[i] : i \in ItemsOf(cur)} \subseteq Episode
    <2>1. \A i \in ItemsOf(cur) : EpisodeOf[i] \in Episode
      BY Constants DEF TypeOK, ItemsOf
    <2> QED BY <2>1
  <1>2. keys' \subseteq Episode
    BY <1>1 DEF ListReleases
  <1> QED BY <1>2 DEF TypeOK, ListReleases, GoTo, series, sync, admin, history

LEMMA AskReleaseType ==
  ASSUME TypeOK, AskRelease PROVE TypeOK'
  BY Constants DEF TypeOK, AskRelease, GoTo, Sample, ItemsOf, ReleaseItems, First, series, sync,
    asking, worker, admin, history

LEMMA SeriesDoneType ==
  ASSUME TypeOK, SeriesDone PROVE TypeOK'
  BY Constants DEF TypeOK, SeriesDone, GoTo, series, sync, asking, worker, admin, history

LEMMA StoreRefusedType ==
  ASSUME TypeOK, StoreRefused PROVE TypeOK'
  BY Constants DEF TypeOK, StoreRefused, StopAt, series, sync, asking, worker, admin, history

LEMMA StoreReleaseType ==
  ASSUME TypeOK, NEW e \in Answers[title], StoreRelease(e) PROVE TypeOK'
  <1>1. e \in Episode /\ cur \in Series /\ title \in Item \cup {NoTitle}
    BY Constants DEF TypeOK, StoreRelease, GoTo
  <1>2. [series |-> cur, episode |-> e, title |-> title, answer |-> e, current |-> TRUE] \in Row
    BY <1>1 DEF Row
  <1>3. rel' \subseteq Row
    BY <1>2 DEF TypeOK, StoreRelease
  <1>4. settled' \subseteq Releases
    <2>1. <<cur, e>> \in Releases
      BY <1>1 DEF Releases
    <2> QED BY <2>1 DEF TypeOK, StoreRelease
  <1> QED BY <1>1, <1>3, <1>4, Constants DEF TypeOK, StoreRelease, GoTo, series, sync, admin

LEMMA PassFailsType ==
  ASSUME TypeOK, PassFails PROVE TypeOK'
  BY Constants DEF TypeOK, PassFails, StopAt, series, sync, asking, worker, admin, history

LEMMA ClearReleasesType ==
  ASSUME TypeOK, NEW s \in Series, ClearReleases(s) PROVE TypeOK'
  BY Constants DEF TypeOK, ClearReleases, series, sync, asking, worker, admin, history

LEMMA KeepReleasesType ==
  ASSUME TypeOK, NEW s \in Series, KeepReleases(s) PROVE TypeOK'
  BY Constants DEF TypeOK, KeepReleases, series, sync, asking, worker, admin, history

LEMMA FlagSeriesType ==
  ASSUME TypeOK, FlagSeries PROVE TypeOK'
  BY Constants DEF TypeOK, FlagSeries, Requested, series, sync, asking, worker, admin, history

LEMMA DieType ==
  ASSUME TypeOK, Die PROVE TypeOK'
  BY Constants DEF TypeOK, Die, StopAt, ForgetSync, series, sync, asking, worker, admin, history

LEMMA StartUpType ==
  ASSUME TypeOK, StartUp PROVE TypeOK'
  BY Constants DEF TypeOK, StartUp, GoTo, Memory, series, sync, asking, worker, admin, history

THEOREM NextType == TypeOK /\ [Next]_vars => TypeOK'
  <1> SUFFICES ASSUME TypeOK, [Next]_vars PROVE TypeOK'
    OBVIOUS
  <1>1. CASE SyncLoads
    BY <1>1, SyncLoadsType
  <1>2. CASE SyncFindsNoSource
    BY <1>2, SyncFindsNoSourceType
  <1>3. CASE SyncOverrides
    BY <1>3, SyncOverridesType
  <1>4. CASE SyncPublishes
    BY <1>4, SyncPublishesType
  <1>5. CASE PageSaves
    BY <1>5, PageSavesType
  <1>6. CASE Tick
    BY <1>6, TickType
  <1>7. CASE PassEnds
    BY <1>7, PassEndsType
  <1>8. CASE CheckSeries
    BY <1>8, CheckSeriesType
  <1>9. CASE SampleSeries
    BY <1>9, SampleSeriesType
  <1>10. CASE WriteId
    BY <1>10, WriteIdType
  <1>11. ASSUME NEW hasId \in SeriesAnswers, StoreSeries(hasId) PROVE TypeOK'
    BY <1>11, StoreSeriesType
  <1>12. CASE ListReleases
    BY <1>12, ListReleasesType
  <1>13. CASE AskRelease
    BY <1>13, AskReleaseType
  <1>14. CASE SeriesDone
    BY <1>14, SeriesDoneType
  <1>15. CASE StoreRefused
    BY <1>15, StoreRefusedType
  <1>16. ASSUME NEW e \in Answers[title], StoreRelease(e) PROVE TypeOK'
    BY <1>16, StoreReleaseType
  <1>17. CASE PassFails
    BY <1>17, PassFailsType
  <1>18. ASSUME NEW s \in Series, ClearReleases(s) PROVE TypeOK'
    BY <1>18, ClearReleasesType
  <1>19. ASSUME NEW s \in Series, KeepReleases(s) PROVE TypeOK'
    BY <1>19, KeepReleasesType
  <1>20. CASE FlagSeries
    BY <1>20, FlagSeriesType
  <1>21. CASE Die
    BY <1>21, DieType
  <1>22. CASE StartUp
    BY <1>22, StartUpType
  <1>23. CASE UNCHANGED vars
    BY <1>23 DEF TypeOK, vars, series, sync, asking, worker, admin, history
  <1> QED
    BY <1>1, <1>2, <1>3, <1>4, <1>5, <1>6, <1>7, <1>8, <1>9, <1>10, <1>11, <1>12, <1>13, <1>14,
      <1>15, <1>16, <1>17, <1>18, <1>19, <1>20, <1>21, <1>22, <1>23 DEF Next, SyncNext,
      WorkerNext, AdminNext

----------------------------------------------------------------------------
(* The invariant *)

LEMMA InitInv == Init => Inv
  BY DEF Init, Inv, OwedAuditsAreFlagged, AskedIsNotOwed, SettledIsStored, KeysAreOpen,
    KeysAreListed, AnsweredReleasesRest, IdsAreCopied, DownIsQuiet

LEMMA SyncLoadsInv ==
  ASSUME TypeOK, Inv, wpc # "down", SyncLoads PROVE Inv'
  BY DEF Inv, OwedAuditsAreFlagged, NeedsAudit, AskedIsNotOwed, SettledIsStored, HasRow,
    KeysAreOpen, KeysAreListed, AnsweredReleasesRest, IdsAreCopied, DownIsQuiet,
    SyncLoads, series, worker, asking, history

LEMMA SyncFindsNoSourceInv ==
  ASSUME TypeOK, Inv, SyncFindsNoSource PROVE Inv'
  BY Constants DEF TypeOK, Inv, OwedAuditsAreFlagged, AskedIsNotOwed, SettledIsStored,
    KeysAreOpen, KeysAreListed, AnsweredReleasesRest, IdsAreCopied, DownIsQuiet, NeedsAudit,
    HasRow, SyncFindsNoSource, series, sync, asking, worker, admin, history

LEMMA SyncOverridesInv ==
  ASSUME TypeOK, Inv, SyncOverrides PROVE Inv'
  BY Constants DEF TypeOK, Inv, OwedAuditsAreFlagged, AskedIsNotOwed, SettledIsStored,
    KeysAreOpen, KeysAreListed, AnsweredReleasesRest, IdsAreCopied, DownIsQuiet, NeedsAudit,
    HasRow, SyncOverrides, Regroup, series, sync, asking, worker, admin, history

LEMMA SyncPublishesInv ==
  ASSUME TypeOK, Inv, SyncPublishes PROVE Inv'
  BY Constants DEF TypeOK, Inv, OwedAuditsAreFlagged, AskedIsNotOwed, SettledIsStored,
    KeysAreOpen, KeysAreListed, AnsweredReleasesRest, IdsAreCopied, DownIsQuiet, NeedsAudit,
    HasRow, SyncPublishes, ForgetSync, SaveCatalog, SeriesIn, Memory, series, sync, asking,
    worker, admin, history

LEMMA PageSavesInv ==
  ASSUME TypeOK, Inv, PageSaves PROVE Inv'
  BY Constants DEF TypeOK, Inv, OwedAuditsAreFlagged, AskedIsNotOwed, SettledIsStored,
    KeysAreOpen, KeysAreListed, AnsweredReleasesRest, IdsAreCopied, DownIsQuiet, NeedsAudit,
    HasRow, PageSaves, SaveCatalog, SeriesIn, Memory, series, sync, asking, worker, admin,
    history

LEMMA TickInv ==
  ASSUME TypeOK, Inv, Tick PROVE Inv'
  BY Constants DEF TypeOK, Inv, OwedAuditsAreFlagged, AskedIsNotOwed, SettledIsStored,
    KeysAreOpen, KeysAreListed, AnsweredReleasesRest, IdsAreCopied, DownIsQuiet, NeedsAudit,
    HasRow, Tick, GoTo, SeriesIn, series, sync, asking, worker, admin, history

LEMMA PassEndsInv ==
  ASSUME TypeOK, Inv, PassEnds PROVE Inv'
  BY Constants DEF TypeOK, Inv, OwedAuditsAreFlagged, AskedIsNotOwed, SettledIsStored,
    KeysAreOpen, KeysAreListed, AnsweredReleasesRest, IdsAreCopied, DownIsQuiet, NeedsAudit,
    HasRow, PassEnds, GoTo, series, sync, asking, worker, admin, history

LEMMA CheckSeriesInv ==
  ASSUME TypeOK, Inv, CheckSeries PROVE Inv'
  BY Constants DEF TypeOK, Inv, OwedAuditsAreFlagged, AskedIsNotOwed, SettledIsStored,
    KeysAreOpen, KeysAreListed, AnsweredReleasesRest, IdsAreCopied, DownIsQuiet, NeedsAudit,
    HasRow, CheckSeries, series, sync, asking, worker, admin, history

LEMMA SampleSeriesInv ==
  ASSUME TypeOK, Inv, SampleSeries PROVE Inv'
  <1>1. owed' \subseteq owed /\ (wpc' = "asking series" => cur' \notin owed')
    BY DEF SampleSeries
  <1>2. keys = {} /\ keys' = {}
    BY DEF Inv, KeysAreListed, SampleSeries
  <1>3. wpc' \in {"next", "asking series"}
    BY DEF SampleSeries
  <1>4. OwedAuditsAreFlagged' /\ AskedIsNotOwed'
    BY <1>1 DEF Inv, OwedAuditsAreFlagged, NeedsAudit, AskedIsNotOwed, SampleSeries, series
  <1>5. SettledIsStored' /\ KeysAreOpen' /\ KeysAreListed' /\ AnsweredReleasesRest'
    BY <1>2, <1>3 DEF Inv, SettledIsStored, HasRow, KeysAreOpen, KeysAreListed,
      AnsweredReleasesRest, SampleSeries
  <1>6. IdsAreCopied' /\ DownIsQuiet'
    BY <1>3 DEF Inv, IdsAreCopied, DownIsQuiet, SampleSeries, sync
  <1> QED BY <1>4, <1>5, <1>6 DEF Inv

LEMMA WriteIdInv ==
  ASSUME TypeOK, Inv, WriteId PROVE Inv'
  BY Constants DEF TypeOK, Inv, OwedAuditsAreFlagged, AskedIsNotOwed, SettledIsStored,
    KeysAreOpen, KeysAreListed, AnsweredReleasesRest, IdsAreCopied, DownIsQuiet, NeedsAudit,
    HasRow, WriteId, GoTo, series, sync, asking, worker, admin, history

LEMMA StoreSeriesInv ==
  ASSUME TypeOK, Inv, NEW hasId \in SeriesAnswers, StoreSeries(hasId) PROVE Inv'
  BY Constants DEF TypeOK, Inv, OwedAuditsAreFlagged, AskedIsNotOwed, SettledIsStored,
    KeysAreOpen, KeysAreListed, AnsweredReleasesRest, IdsAreCopied, DownIsQuiet, NeedsAudit,
    HasRow, StoreSeries, series, sync, asking, worker, admin, history

LEMMA ListReleasesInv ==
  ASSUME TypeOK, Inv, ListReleases PROVE Inv'
  BY Constants DEF TypeOK, Inv, OwedAuditsAreFlagged, AskedIsNotOwed, SettledIsStored,
    KeysAreOpen, KeysAreListed, AnsweredReleasesRest, IdsAreCopied, DownIsQuiet, NeedsAudit,
    HasRow, ListReleases, GoTo, ItemsOf, series, sync, asking, worker, admin, history

LEMMA AskReleaseInv ==
  ASSUME TypeOK, Inv, AskRelease PROVE Inv'
  BY Constants DEF TypeOK, Inv, OwedAuditsAreFlagged, AskedIsNotOwed, SettledIsStored,
    KeysAreOpen, KeysAreListed, AnsweredReleasesRest, IdsAreCopied, DownIsQuiet, NeedsAudit,
    HasRow, AskRelease, GoTo, Sample, ItemsOf, ReleaseItems, First, series, sync, asking,
    worker, admin, history

LEMMA SeriesDoneInv ==
  ASSUME TypeOK, Inv, SeriesDone PROVE Inv'
  BY Constants DEF TypeOK, Inv, OwedAuditsAreFlagged, AskedIsNotOwed, SettledIsStored,
    KeysAreOpen, KeysAreListed, AnsweredReleasesRest, IdsAreCopied, DownIsQuiet, NeedsAudit,
    HasRow, SeriesDone, GoTo, series, sync, asking, worker, admin, history

LEMMA StoreRefusedInv ==
  ASSUME TypeOK, Inv, StoreRefused PROVE Inv'
  BY Constants DEF TypeOK, Inv, OwedAuditsAreFlagged, AskedIsNotOwed, SettledIsStored,
    KeysAreOpen, KeysAreListed, AnsweredReleasesRest, IdsAreCopied, DownIsQuiet, NeedsAudit,
    HasRow, StoreRefused, StopAt, series, sync, asking, worker, admin, history

LEMMA StoreReleaseInv ==
  ASSUME TypeOK, Inv, NEW e \in Answers[title], StoreRelease(e) PROVE Inv'
  <1> DEFINE new == [series |-> cur, episode |-> e, title |-> title, answer |-> e, current |-> TRUE]
  <1>1. new \in rel' /\ \A r \in rel : r \in rel' \/ (r.series = cur /\ r.episode = e)
    BY DEF StoreRelease
  <1>2. \A s, f : HasRow(s, f) => HasRow(s, f)'
    <2> SUFFICES ASSUME NEW s, NEW f, NEW r \in rel, r.series = s, r.episode = f, r.current
                 PROVE HasRow(s, f)'
      BY DEF HasRow
    <2>1. CASE r \in rel'
      BY <2>1 DEF HasRow
    <2>2. CASE r.series = cur /\ r.episode = e
      BY <2>2, <1>1 DEF HasRow
    <2> QED BY <1>1, <2>1, <2>2
  <1>3. \A s : s = cur => HasRow(s, e)'
    BY <1>1 DEF HasRow
  <1>4. SettledIsStored'
    <2> SUFFICES ASSUME NEW k \in settled' PROVE HasRow(k[1], k[2])'
      BY DEF SettledIsStored
    <2>1. CASE k \in settled
      BY <1>2, <2>1 DEF Inv, SettledIsStored
    <2>2. CASE k = <<cur, e>>
      <3>1. k[1] = cur /\ k[2] = e
        BY <2>2
      <3> QED BY <1>3, <3>1
    <2>3. k \in settled \/ k = <<cur, e>>
      BY DEF StoreRelease
    <2> QED BY <2>1, <2>2, <2>3
  <1>5. KeysAreOpen' /\ KeysAreListed' /\ AnsweredReleasesRest'
    BY DEF Inv, KeysAreOpen, KeysAreListed, AnsweredReleasesRest, StoreRelease, GoTo
  <1>6. OwedAuditsAreFlagged' /\ AskedIsNotOwed' /\ IdsAreCopied' /\ DownIsQuiet'
    BY DEF Inv, OwedAuditsAreFlagged, NeedsAudit, AskedIsNotOwed, IdsAreCopied, DownIsQuiet,
      StoreRelease, GoTo, series, sync
  <1> QED BY <1>4, <1>5, <1>6 DEF Inv

LEMMA PassFailsInv ==
  ASSUME TypeOK, Inv, PassFails PROVE Inv'
  BY Constants DEF TypeOK, Inv, OwedAuditsAreFlagged, AskedIsNotOwed, SettledIsStored,
    KeysAreOpen, KeysAreListed, AnsweredReleasesRest, IdsAreCopied, DownIsQuiet, NeedsAudit,
    HasRow, PassFails, StopAt, series, sync, asking, worker, admin, history

LEMMA ClearReleasesInv ==
  ASSUME TypeOK, Inv, NEW s \in Series, ClearReleases(s) PROVE Inv'
  BY Constants DEF TypeOK, Inv, OwedAuditsAreFlagged, AskedIsNotOwed, SettledIsStored,
    KeysAreOpen, KeysAreListed, AnsweredReleasesRest, IdsAreCopied, DownIsQuiet, NeedsAudit,
    HasRow, ClearReleases, series, sync, asking, worker, admin, history

LEMMA KeepReleasesInv ==
  ASSUME TypeOK, Inv, NEW s \in Series, KeepReleases(s) PROVE Inv'
  BY Constants DEF TypeOK, Inv, OwedAuditsAreFlagged, AskedIsNotOwed, SettledIsStored,
    KeysAreOpen, KeysAreListed, AnsweredReleasesRest, IdsAreCopied, DownIsQuiet, NeedsAudit,
    HasRow, KeepReleases, series, sync, asking, worker, admin, history

LEMMA FlagSeriesInv ==
  ASSUME TypeOK, Inv, FlagSeries PROVE Inv'
  BY Constants DEF TypeOK, Inv, OwedAuditsAreFlagged, AskedIsNotOwed, SettledIsStored,
    KeysAreOpen, KeysAreListed, AnsweredReleasesRest, IdsAreCopied, DownIsQuiet, NeedsAudit,
    HasRow, FlagSeries, Requested, series, sync, asking, worker, admin, history

LEMMA DieInv ==
  ASSUME TypeOK, Inv, Die PROVE Inv'
  BY Constants DEF TypeOK, Inv, OwedAuditsAreFlagged, AskedIsNotOwed, SettledIsStored,
    KeysAreOpen, KeysAreListed, AnsweredReleasesRest, IdsAreCopied, DownIsQuiet, NeedsAudit,
    HasRow, Die, StopAt, ForgetSync, series, sync, asking, worker, admin, history

LEMMA StartUpInv ==
  ASSUME TypeOK, Inv, StartUp PROVE Inv'
  BY Constants DEF TypeOK, Inv, OwedAuditsAreFlagged, AskedIsNotOwed, SettledIsStored,
    KeysAreOpen, KeysAreListed, AnsweredReleasesRest, IdsAreCopied, DownIsQuiet, NeedsAudit,
    HasRow, StartUp, GoTo, Memory, series, sync, asking, worker, admin, history

THEOREM NextInv == TypeOK /\ Inv /\ [Next]_vars => Inv'
  <1> SUFFICES ASSUME TypeOK, Inv, [Next]_vars PROVE Inv'
    OBVIOUS
  <1>1. ASSUME wpc # "down", SyncLoads PROVE Inv'
    BY <1>1, SyncLoadsInv
  <1>2. CASE SyncFindsNoSource
    BY <1>2, SyncFindsNoSourceInv
  <1>3. CASE SyncOverrides
    BY <1>3, SyncOverridesInv
  <1>4. CASE SyncPublishes
    BY <1>4, SyncPublishesInv
  <1>5. CASE PageSaves
    BY <1>5, PageSavesInv
  <1>6. CASE Tick
    BY <1>6, TickInv
  <1>7. CASE PassEnds
    BY <1>7, PassEndsInv
  <1>8. CASE CheckSeries
    BY <1>8, CheckSeriesInv
  <1>9. CASE SampleSeries
    BY <1>9, SampleSeriesInv
  <1>10. CASE WriteId
    BY <1>10, WriteIdInv
  <1>11. ASSUME NEW hasId \in SeriesAnswers, StoreSeries(hasId) PROVE Inv'
    BY <1>11, StoreSeriesInv
  <1>12. CASE ListReleases
    BY <1>12, ListReleasesInv
  <1>13. CASE AskRelease
    BY <1>13, AskReleaseInv
  <1>14. CASE SeriesDone
    BY <1>14, SeriesDoneInv
  <1>15. CASE StoreRefused
    BY <1>15, StoreRefusedInv
  <1>16. ASSUME NEW e \in Answers[title], StoreRelease(e) PROVE Inv'
    BY <1>16, StoreReleaseInv
  <1>17. CASE PassFails
    BY <1>17, PassFailsInv
  <1>18. ASSUME NEW s \in Series, ClearReleases(s) PROVE Inv'
    BY <1>18, ClearReleasesInv
  <1>19. ASSUME NEW s \in Series, KeepReleases(s) PROVE Inv'
    BY <1>19, KeepReleasesInv
  <1>20. CASE FlagSeries
    BY <1>20, FlagSeriesInv
  <1>21. CASE Die
    BY <1>21, DieInv
  <1>22. CASE StartUp
    BY <1>22, StartUpInv
  <1>23. CASE UNCHANGED vars
    BY <1>23 DEF Inv, OwedAuditsAreFlagged, AskedIsNotOwed, SettledIsStored, KeysAreOpen,
      KeysAreListed, AnsweredReleasesRest, IdsAreCopied, DownIsQuiet, NeedsAudit, HasRow, vars,
      series, sync, asking, worker, admin, history
  <1> QED
    BY <1>1, <1>2, <1>3, <1>4, <1>5, <1>6, <1>7, <1>8, <1>9, <1>10, <1>11, <1>12, <1>13, <1>14,
      <1>15, <1>16, <1>17, <1>18, <1>19, <1>20, <1>21, <1>22, <1>23 DEF Next, SyncNext,
      WorkerNext, AdminNext

----------------------------------------------------------------------------
(* Theorems *)

\* Every state of the audits is one that the rules of GoaiAudit speak of.
THEOREM TypeCorrect == Spec => []TypeOK
  BY InitType, NextType, PTL DEF Spec

THEOREM InvCorrect == Spec => []Inv
  BY TypeCorrect, InitInv, NextInv, PTL DEF Spec

\* Accepted re-audits that GoAI was not asked about are never forgotten.
THEOREM OwedFlagged == Spec => []OwedAuditsAreFlagged
  <1>1. Inv => OwedAuditsAreFlagged
    BY DEF Inv
  <1> QED BY InvCorrect, <1>1, PTL

\* GoAI is not asked again about a release whose own answer is stored.
THEOREM AnsweredRest == Spec => []AnsweredReleasesRest
  <1>1. Inv => AnsweredReleasesRest
    BY DEF Inv
  <1> QED BY InvCorrect, <1>1, PTL

\* No sync, page or worker takes an id of GoAI out of memory.
THEOREM IdsStay == Spec => IdsStayInMemory
  <1> DEFINE Kept == \A s \in mem.ids : s \in SeriesIn(mem'.items) => s \in mem'.ids
  <1>1. ASSUME TypeOK, Inv, [Next]_vars PROVE StartUp \/ Kept
    <2>1. CASE SyncPublishes
      <3>1. mem.ids \subseteq copy
        BY <1>1, <2>1 DEF Inv, IdsAreCopied, SyncPublishes
      <3>2. mem'.items = batch /\ mem'.ids = {s \in copy : batch = {} \/ s \in SeriesIn(batch)}
        BY <2>1 DEF SyncPublishes
      <3> QED BY <3>1, <3>2
    <2>2. CASE mem' = mem
      BY <2>2
    <2>3. CASE StartUp
      BY <2>3
    <2>4. SyncPublishes \/ mem' = mem \/ StartUp
      BY <1>1 DEF Next, SyncNext, WorkerNext, AdminNext, vars, SyncLoads, SyncFindsNoSource,
        SyncOverrides, PageSaves, Tick, PassEnds, CheckSeries, SampleSeries, WriteId, StoreSeries,
        ListReleases, AskRelease, SeriesDone, StoreRefused, StoreRelease, PassFails,
        ClearReleases, KeepReleases, FlagSeries, Die
    <2> QED BY <2>1, <2>2, <2>3, <2>4
  <1>2. TypeOK /\ Inv /\ [Next]_vars => [StartUp \/ Kept]_vars
    BY <1>1
  <1> QED BY TypeCorrect, InvCorrect, <1>2, PTL DEF Spec, IdsStayInMemory

=============================================================================
