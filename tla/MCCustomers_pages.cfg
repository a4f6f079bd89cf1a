SPECIFICATION Spec
CONSTANTS
  Tab = {t1, t2}
  Name = {a, b}
  Product = {p, q}
  Day = {1}
  Text = {x}
  Scenarios <- All
  none = none
  empty = empty
CHECK_DEADLOCK FALSE
INVARIANTS TablesAreSound OnlyTypedChanges TemplatesAreOwn NoneReplacedSilently
