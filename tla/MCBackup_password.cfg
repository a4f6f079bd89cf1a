SPECIFICATION Spec
CONSTANTS
  Run = {}
  SettingsSpace <- MCSettings
  MaxTime = 1
  NoCron = NoCron
  NoLog = NoLog
CHECK_DEADLOCK FALSE
PROPERTIES EmptyFieldKeepsPassword
