SPECIFICATION LiveSpec
CONSTANTS
  u1 = u1
  b1 = b1
  b2 = b2
  b3 = b3
  Url = {u1}
  Body = {b1, b2}
  Shown <- MCShown
  NoBody = NoBody
  Broken = {}
  Validating = {u1}
  GetFaults = FALSE
  LoadFaults = FALSE
  SaveFaults = TRUE
PROPERTIES QuietStaysQuiet ChangesGetBuilt PollsSettle
