SPECIFICATION Spec
CONSTANTS
  i1 = i1
  i2 = i2
  i3 = i3
  Item = {i1, i2}
  Series = {1, 2}
  SeriesOf <- MCSeriesOf
  MalOf <- MCOwnMal
  Field = {"mal"}
  MalField = "mal"
  AniListField = {"mal"}
  Source = {feed}
  Runner = {r1}
  Viewer = {v1}
  NoOne = NoOne
  LoadFaults = FALSE
  SaveFaults = FALSE
PROPERTY StoredRowsAreKept
