SPECIFICATION Spec
CONSTANTS
  Page = {p1, p2}
  Mine = {p1}
  Tab = {t1, t2}
  Scenarios <- All
  none = none
CHECK_DEADLOCK FALSE
INVARIANTS ToldIsShown NoticesAreKept
PROPERTIES BellCatchesUp
