SPECIFICATION LiveSpec
CONSTANTS
  i1 = i1
  i2 = i2
  i3 = i3
  Item = {i1}
  Series = {1}
  SeriesOf <- MCSeriesOf
  MalOf <- MCTwinMal
  Field = {"mal"}
  MalField = "mal"
  AniListField = {"mal"}
  Source = {feed}
  Runner = {r1, r2}
  Viewer = {v1}
  NoOne = NoOne
  LoadFaults = TRUE
  SaveFaults = TRUE
PROPERTIES SyncEnds MetaEnds
