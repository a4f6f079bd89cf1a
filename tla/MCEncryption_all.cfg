SPECIFICATION Spec
CONSTANTS
  Tab = {t1, t2}
  Text = {x, h}
  LooksEncrypted = {h}
  Key = {k1, k2}
  Scenarios <- All
  none = none
SYMMETRY Symmetry
CHECK_DEADLOCK FALSE
INVARIANTS SourcesAreSound NoneMeansNone PasswordsReadBack ColumnsAreEncrypted
