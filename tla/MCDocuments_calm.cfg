SPECIFICATION Spec
CONSTANTS
  Request = {r1, r2, r3}
  Key = {k1, k2}
  Date = {1, 2}
  NoFile = NoFile
CONSTRAINT OldForms
SYMMETRY Symmetry
CHECK_DEADLOCK FALSE
INVARIANTS StoreIsSound ServesWhatWasAsked TempsAreCleaned LastIsNewest
