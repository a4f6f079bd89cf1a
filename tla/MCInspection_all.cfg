SPECIFICATION InspectionSpec
CONSTANTS
  Target = {t1, t2}
  Start <- October
  Horizon = 8
  Dates <- Months
  MaxReports = 3
  YearlyMonths <- FourMonths
SYMMETRY Symmetry
CHECK_DEADLOCK FALSE
INVARIANTS AnswersAgree CopiesAgree QuarterlyHistoryIsKept
PROPERTIES EndOfMonthIsJudged OnlyTheEndedMonthIsAdded UploadsOnlyClear
