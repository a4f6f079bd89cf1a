SPECIFICATION Spec
CONSTANTS
  User = {u1, u2}
  Request = {r1, r2, r3}
  Kinds = {"login", "logout", "beacon", "validate", "events"}
  SettingsSpace <- PreventedOrLimits
  SessionExpiry = 1
  MaxTime = 2
SYMMETRY Symmetry
CONSTRAINT FewAtOnce
ACTION_CONSTRAINT KeepsPrevention
INVARIANTS TypeOK LimitLocks LockIsTemporary ClearedStayCleared
PROPERTIES ImplementsRegistry SessionEndsForAReason
