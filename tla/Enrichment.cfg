SPECIFICATION Spec
CONSTANTS
  None = None
  Series = {1, 2}
  Episode = {1}
  Id = {1}
  Needed = {"poster"}
  Wanted = {"poster"}
  Clients = {"anilist", "jikan", "kitsu", "tvdb", "anidb", "translator"}
  AniListKnows <- MCAniList
  JikanKnows <- MCJikan
  KitsuKnows <- MCKitsu
  KitsuList <- MCKitsuList
  MalList <- MCTitles
  AniDBList <- MCTitles
  TvdbList <- MCTvdbList
  TvdbOf <- MCTvdbOf
  Day = 2
  MaxTime = 3
  MaxFaults = 3
INVARIANTS TypeOK
PROPERTIES KeptUnlessRefreshed NoRepeatWithinDay FullSyncsFillLists
