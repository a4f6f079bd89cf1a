SPECIFICATION Spec
CONSTANTS
  Id = {i1, i2, i3}
  Customer = {c1}
  Request = {r1, r2}
  Kinds = {"create", "update", "toggle", "remove", "reset", "change"}
  Limit <- TwoAndOne
  Variant = {"Super_Admin", " admin"}
  Reads <- ReadAs
  Collates <- FoundAs
  NoRow = NoRow
SYMMETRY Symmetry
CONSTRAINT OneAssigns
CHECK_DEADLOCK FALSE
INVARIANTS AccountsAreSound
PROPERTIES EndsAreAllowed LastSuperAdminOnlyByRace
