SPECIFICATION Spec
CONSTANTS
  u1 = u1
  b1 = b1
  b2 = b2
  b3 = b3
  Url = {u1}
  Body = {b1, b2, b3}
  Shown <- MCShown
  NoBody = NoBody
  Broken = {b3}
  Validating = {u1}
  GetFaults = TRUE
  LoadFaults = TRUE
  SaveFaults = TRUE
SYMMETRY MCSymmetry
INVARIANTS TypeOK BaselineIsBuilt
PROPERTIES ChangesAreSeen
