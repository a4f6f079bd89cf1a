SPECIFICATION Spec
CONSTANTS
  User = {u1, u2}
  Login = {l1, l2}
  Fetch = {f1, f2}
  Scenarios <- All
  none = none
SYMMETRY Symmetry
CHECK_DEADLOCK FALSE
INVARIANTS TabIsOwn
PROPERTIES StaysOut EventsHitTheirSession
