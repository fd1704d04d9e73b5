SPECIFICATION LiveSpec
CONSTANTS
  a = a
  b = b
  NoTitle = NoTitle
  Item <- MCItem
  Series = {1}
  Known = {1}
  Episode = {0, 1, 2}
  SeriesOf <- MCSeriesOf
  EpisodeOf <- MCEpisodeOf
  Feeds <- MCFeeds
  SeriesAnswers = {TRUE, FALSE}
  Answers <- MCAnswers
  OldRows <- MCOldRows
  Databases = {TRUE, FALSE}
INVARIANTS
  TypeOK
  OwedAuditsAreFlagged
  AnsweredReleasesRest
PROPERTIES
  
  EveryReleaseIsAsked
  ReauditsAreServed
