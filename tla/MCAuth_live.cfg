SPECIFICATION FairSpec
CONSTANTS
  User = {u1}
  Request = {r1, r2}
  Kinds = {"login", "validate"}
  SettingsSpace <- Toggled
  SessionExpiry = 0
  MaxTime = 1
PROPERTIES ExpiredSessionsEnd LimitEventuallyLocks
