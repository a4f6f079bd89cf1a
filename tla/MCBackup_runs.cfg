SPECIFICATION Spec
CONSTANTS
  Run = {r1, r2}
  SettingsSpace <- MCSettings
  MaxTime = 1
  NoCron = NoCron
  NoLog = NoLog
SYMMETRY Symmetry
CHECK_DEADLOCK FALSE
INVARIANTS LogTellsTruth SuccessIsKeptOrSuperseded FiresAtKoreanTime
